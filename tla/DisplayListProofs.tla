-------------------------- MODULE DisplayListProofs --------------------------
(***************************************************************************)
(* Theorems about DisplayList, for every number of lists, of commands and  *)
(* of names in a DisplayListSetOrder: the array that is closed up and the  *)
(* indices into it are the scene of named lists that Scene promises.       *)
(***************************************************************************)
EXTENDS DisplayList, FiniteSetTheorems, SequenceTheorems, TLAPS

(***************************************************************************)
(* Least elements and sequences                                            *)
(***************************************************************************)

\* A set of natural numbers that is not empty has a least element, which is
\* what find_idx and remove_from_order stop at.  The intervals from 0 to the
\* elements of the set are finite, and among finite sets there is one that is
\* minimal for inclusion.
LEMMA MinIsLeast ==
  ASSUME NEW S \in SUBSET Nat, S # {}
  PROVE  Min(S) \in S /\ \A m \in S : Min(S) <= m
<1> DEFINE Up == {0..n : n \in S}
<1>1. Up \subseteq FiniteSubsetsOf(Nat) /\ Up # {}
  <2>1. \A n \in S : 0..n \in SUBSET Nat /\ IsFiniteSet(0..n)
    BY FS_Interval
  <2> QED BY <2>1 DEF FiniteSubsetsOf
<1>2. PICK x \in Up : \A y \in Up : <<y, x>> \notin StrictSubsetOrdering(Nat)
  BY <1>1, FS_StrictSubsetOrderingWellFounded, WFMin
<1>3. PICK n \in S : x = 0..n
  OBVIOUS
<1>4. ASSUME NEW m \in S, m < n PROVE FALSE
  <2>1. 0..m \subseteq 0..n /\ 0..m # 0..n /\ {0..m, 0..n} \subseteq SUBSET Nat
    BY <1>4
  <2>2. <<0..m, 0..n>> \in (SUBSET Nat) \X (SUBSET Nat)
    BY <2>1
  <2>3. <<0..m, 0..n>> \in StrictSubsetOrdering(Nat)
    BY <2>1, <2>2 DEF StrictSubsetOrdering
  <2> QED BY <1>2, <1>3, <2>3
<1>5. n \in S /\ \A m \in S : n <= m
  BY <1>4
<1> QED BY <1>5 DEF Min

\* A sequence without its p-th element.
LEMMA RemoveAtFacts ==
  ASSUME NEW S, NEW s \in Seq(S), NEW p \in 1..Len(s)
  PROVE  /\ RemoveAt(s, p) \in Seq(S)
         /\ Len(RemoveAt(s, p)) = Len(s) - 1
         /\ \A k \in 1..Len(s)-1 :
              RemoveAt(s, p)[k] = IF k < p THEN s[k] ELSE s[k + 1]
<1> DEFINE a == SubSeq(s, 1, p - 1)
           b == SubSeq(s, p + 1, Len(s))
<1>0. Len(s) \in Nat /\ p \in Int /\ \A k \in 1..Len(s) : s[k] \in S
  BY LenProperties, ElementOfSeq
<1>1. /\ a \in Seq(S) /\ Len(a) = p - 1
      /\ \A k \in 1..p-1 : a[k] = s[k]
  <2>1. \A k \in 1..p-1 : s[k] \in S
    BY <1>0
  <2>2. /\ a \in Seq(S) /\ Len(a) = IF 1 <= p - 1 THEN p - 1 - 1 + 1 ELSE 0
        /\ \A k \in 1..p-1-1+1 : a[k] = s[1+k-1]
    BY <1>0, <2>1, SubSeqProperties
  <2> QED BY <1>0, <2>2
<1>2. /\ b \in Seq(S) /\ Len(b) = Len(s) - p
      /\ \A k \in 1..Len(s)-p : b[k] = s[p + k]
  <2>1. \A k \in p+1..Len(s) : s[k] \in S
    BY <1>0
  <2>2. /\ b \in Seq(S)
        /\ Len(b) = IF p + 1 <= Len(s) THEN Len(s) - (p + 1) + 1 ELSE 0
        /\ \A k \in 1..Len(s)-(p + 1)+1 : b[k] = s[p+1+k-1]
    BY <1>0, <2>1, SubSeqProperties
  <2> QED BY <1>0, <2>2
<1>3. RemoveAt(s, p) = a \o b
  BY DEF RemoveAt
<1> HIDE DEF a, b
<1>4. /\ a \o b \in Seq(S) /\ Len(a \o b) = Len(s) - 1
      /\ \A k \in 1..Len(s)-1 : (a \o b)[k] = IF k <= p - 1 THEN a[k] ELSE b[k - (p - 1)]
  BY <1>0, <1>1, <1>2, ConcatProperties
<1>5. ASSUME NEW k \in 1..Len(s)-1
      PROVE  (a \o b)[k] = IF k < p THEN s[k] ELSE s[k + 1]
  <2>1. CASE k < p
    BY <1>0, <1>1, <1>4, <2>1
  <2>2. CASE k >= p
    <3>1. k - (p - 1) \in 1..Len(s)-p /\ p + (k - (p - 1)) = k + 1
      BY <1>0, <2>2
    <3> QED BY <1>0, <1>2, <1>4, <2>2, <3>1
  <2>3. k < p \/ k >= p
    BY <1>0
  <2> QED BY <2>1, <2>2, <2>3
<1> QED BY <1>3, <1>4, <1>5

\* remove_from_order takes out one occurrence.
LEMMA RemoveFirstFacts ==
  ASSUME NEW S, NEW s \in Seq(S), NEW e, \E k \in 1..Len(s) : s[k] = e
  PROVE  \E p \in 1..Len(s) : s[p] = e /\ RemoveFirst(s, e) = RemoveAt(s, p)
<1> DEFINE I == {k \in 1..Len(s) : s[k] = e}
<1>1. I \in SUBSET Nat /\ I # {}
  BY LenProperties
<1>2. Min(I) \in I
  BY <1>1, MinIsLeast
<1>3. RemoveFirst(s, e) = RemoveAt(s, Min(I))
  BY <1>1 DEF RemoveFirst, SelectInSeq
<1> QED BY <1>2, <1>3

\* find_idx finds a list of the name if there is one.
LEMMA FindIdxFacts ==
  ASSUME TypeOK, NEW name
  PROVE  /\ find_idx(name) \in 0..list_count
         /\ find_idx(name) # 0 => lists[find_idx(name)].name = name
         /\ find_idx(name) = 0 => \A i \in InUse : lists[i].name # name
<1> DEFINE found == {i \in InUse : lists[i].name = name}
<1>1. list_count \in Nat /\ InUse = 1..list_count
  BY MaxAssumption DEF TypeOK, InUse
<1>2. CASE found = {}
  BY <1>1, <1>2 DEF find_idx
<1>3. CASE found # {}
  <2>1. found \in SUBSET Nat
    BY <1>1
  <2>2. Min(found) \in found
    BY <1>3, <2>1, MinIsLeast
  <2>3. find_idx(name) = Min(found)
    BY <1>3 DEF find_idx
  <2> QED BY <1>1, <2>2, <2>3
<1> QED BY <1>2, <1>3

(***************************************************************************)
(* The invariant                                                           *)
(***************************************************************************)

\* No index is twice in the order.
OrderIsInjective == \A k, l \in DOMAIN order : order[k] = order[l] => k = l

\* The inductive invariant.
IInv ==
    /\ TypeOK
    /\ EachListDrawnOnce
    /\ OrderIsInjective
    /\ StorageIsOwned

\* The sizes of the arrays.
LEMMA Sizes ==
  ASSUME TypeOK
  PROVE  /\ list_count \in Nat /\ MaxLists \in Nat /\ list_count <= MaxLists
         /\ InUse = 1..list_count /\ Index = 1..MaxLists /\ InUse \subseteq Index
BY MaxAssumption DEF TypeOK, InUse, Index

\* The order as a function.
LEMMA OrderFacts ==
  ASSUME IInv
  PROVE  /\ order \in Seq(InUse) /\ Len(order) = list_count /\ DOMAIN order = InUse
         /\ \A k \in InUse : order[k] \in InUse
         /\ \A i \in InUse : \E k \in InUse : order[k] = i
         /\ \A k, l \in InUse : order[k] = order[l] => k = l
<1>1. order \in Seq(InUse) /\ InUse = 1..list_count /\ Len(order) = list_count
  BY Sizes DEF IInv, TypeOK, EachListDrawnOnce
<1>2. DOMAIN order = 1..Len(order) /\ \A k \in 1..Len(order) : order[k] \in InUse
  BY <1>1, LenProperties, ElementOfSeq
<1> QED BY <1>1, <1>2 DEF IInv, EachListDrawnOnce, OrderIsInjective, ToSet

\* dl_init.
LEMMA InitIInv == Init => IInv
<1> SUFFICES ASSUME Init PROVE IInv
  OBVIOUS
<1>1. Empty \in DisplayList
  BY EmptySeq DEF Empty, DisplayList
<1>2. lists \in [Index -> DisplayList] /\ \A i \in Index : Len(lists[i].cmds) <= MaxCmds
  <2>1. Len(Empty.cmds) <= MaxCmds
    BY EmptySeq, MaxAssumption DEF Empty
  <2> QED BY <1>1, <2>1 DEF Init
<1>3. TypeOK
  BY <1>2, EmptySeq, MaxAssumption DEF Init, TypeOK
<1>4. InUse = {} /\ DOMAIN order = {} /\ Len(order) = 0
  BY EmptySeq DEF Init, InUse
<1> QED BY <1>3, <1>4 DEF Init, IInv, EachListDrawnOnce, OrderIsInjective, StorageIsOwned, ToSet

\* A step that leaves the order and the storage of the lists alone.
LEMMA SameOrder ==
  ASSUME IInv, TypeOK', list_count' = list_count, order' = order,
         \A i \in InUse : lists'[i].storage = lists[i].storage
  PROVE  IInv'
BY DEF IInv, EachListDrawnOnce, OrderIsInjective, StorageIsOwned, InUse

\* A list without its commands.
LEMMA Emptied ==
  ASSUME TypeOK, NEW i \in Index, lists' = [lists EXCEPT ![i].cmds = <<>>]
  PROVE  /\ lists' \in [Index -> DisplayList]
         /\ \A j \in Index : Len(lists'[j].cmds) <= MaxCmds
         /\ \A j \in Index : lists'[j].storage = lists[j].storage
         /\ \A j \in Index : lists'[j].name = lists[j].name
<1>1. lists[i] \in DisplayList /\ <<>> \in Seq(ParsedCmd) /\ Len(<<>>) = 0
  BY EmptySeq DEF TypeOK
<1> DEFINE e == [lists[i] EXCEPT !.cmds = <<>>]
<1>2. e \in DisplayList /\ e.cmds = <<>> /\ e.storage = lists[i].storage /\ e.name = lists[i].name
  BY <1>1 DEF DisplayList
<1>3. lists' = [lists EXCEPT ![i] = e]
  OBVIOUS
<1> HIDE DEF e
<1> QED BY <1>1, <1>2, <1>3, MaxAssumption DEF TypeOK

\* Taking up a list again empties it and changes nothing else.
LEMMA BeginAgain ==
  ASSUME IInv, NEW c \in Clients, NEW name \in Names, Begin(c, name), find_idx(name) # 0
  PROVE  IInv'
<1> DEFINE i == find_idx(name)
<1>1. i \in InUse /\ i \in Index
  BY FindIdxFacts, Sizes DEF IInv
<1>2. /\ lists' = [lists EXCEPT ![i].cmds = <<>>]
      /\ recording' = i /\ list_count' = list_count /\ order' = order
      /\ target' = [target EXCEPT ![c] = name] /\ pushed' = {}
  BY DEF Begin
<1> HIDE DEF i
<1>3. TypeOK'
  <2>1. TypeOK /\ recording' \in 0..list_count
    BY <1>1, <1>2, Sizes DEF IInv
  <2>2. /\ lists' \in [Index -> DisplayList]
        /\ \A j \in Index : Len(lists'[j].cmds) <= MaxCmds
    BY <1>1, <1>2, <2>1, Emptied
  <2>3. target' \in [Clients -> Names \cup {"none"}] /\ pushed' \subseteq ParsedCmd
    BY <1>2, <2>1 DEF TypeOK
  <2> QED BY <1>2, <2>1, <2>2, <2>3 DEF TypeOK
<1> QED BY <1>1, <1>2, <1>3, Emptied, SameOrder, Sizes DEF IInv

\* A new index at the end of the order.
LEMMA AppendFacts ==
  ASSUME IInv, NEW n, n = list_count + 1
  PROVE  /\ Append(order, n) \in Seq(InUse \cup {n}) /\ Len(Append(order, n)) = n
         /\ Append(order, n)[n] = n
         /\ \A k \in InUse : Append(order, n)[k] = order[k] /\ order[k] \in InUse
<1>1. list_count \in Nat /\ InUse = 1..list_count
  BY Sizes DEF IInv
<1>2. order \in Seq(InUse \cup {n}) /\ Len(order) = list_count
  BY OrderFacts, SeqMonotonic
<1>3. n \in InUse \cup {n}
  OBVIOUS
<1>4. /\ Append(order, n) \in Seq(InUse \cup {n})
      /\ Len(Append(order, n)) = Len(order) + 1
      /\ \A k \in 1..Len(order) : Append(order, n)[k] = order[k]
      /\ Append(order, n)[Len(order) + 1] = n
  BY <1>2, <1>3, AppendProperties
<1>5. \A k \in InUse : order[k] \in InUse
  BY OrderFacts
<1> QED BY <1>1, <1>2, <1>4, <1>5

\* A new list is put behind the others, in the array and in the order.
LEMMA BeginNew ==
  ASSUME IInv, NEW c \in Clients, NEW name \in Names, Begin(c, name), find_idx(name) = 0
  PROVE  IInv'
<1> DEFINE n == list_count + 1
           e == Fresh(n, name)
<1>1. /\ list_count < MaxLists
      /\ lists' = [lists EXCEPT ![n] = e]
      /\ list_count' = n /\ order' = Append(order, n) /\ recording' = n
      /\ target' = [target EXCEPT ![c] = name] /\ pushed' = {}
  BY DEF Begin
<1>2. TypeOK
  BY DEF IInv
<1>3. /\ n \in Index /\ n \notin InUse /\ n \in Nat
      /\ InUse' = InUse \cup {n} /\ InUse' = 1..n
  BY <1>1, <1>2, Sizes DEF InUse
<1>4. e \in DisplayList /\ Len(e.cmds) = 0 /\ e.storage = 0
  BY EmptySeq, <1>3 DEF Fresh, Stored, DisplayList
<1> HIDE DEF e
<1>5. /\ order' \in Seq(InUse') /\ Len(order') = n
      /\ \A k \in InUse : order'[k] = order[k]
      /\ order'[n] = n
  BY <1>1, <1>3, AppendFacts
<1>6. DOMAIN order' = InUse'
  BY <1>3, <1>5, LenProperties
<1>7. TypeOK'
  <2>1. lists' \in [Index -> DisplayList]
    BY <1>1, <1>2, <1>3, <1>4 DEF TypeOK
  <2>2. \A i \in Index : Len(lists'[i].cmds) <= MaxCmds
    BY <1>1, <1>2, <1>3, <1>4, MaxAssumption DEF TypeOK
  <2>3. list_count' \in 0..MaxLists /\ recording' \in 0..list_count'
    BY <1>1, <1>2, <1>3, Sizes
  <2>4. target' \in [Clients -> Names \cup {"none"}] /\ pushed' \subseteq ParsedCmd
    BY <1>1, <1>2 DEF TypeOK
  <2>5. order' \in Seq(1..list_count')
    BY <1>1, <1>3, <1>5
  <2> QED BY <2>1, <2>2, <2>3, <2>4, <2>5 DEF TypeOK
<1> HIDE DEF n
<1>7a. \A k \in InUse : order'[k] \in InUse
  BY <1>5, OrderFacts
<1>8. EachListDrawnOnce'
  <2>1. \A i \in InUse' : \E k \in InUse' : order'[k] = i
    BY <1>3, <1>5, OrderFacts
  <2>2. \A k \in InUse' : order'[k] \in InUse'
    BY <1>3, <1>5, <1>7a
  <2>3. ToSet(order') = InUse'
    BY <1>6, <2>1, <2>2 DEF ToSet
  <2> QED BY <1>1, <1>5, <2>3 DEF EachListDrawnOnce
<1>9. OrderIsInjective'
  <2>1. ASSUME NEW k \in InUse', NEW l \in InUse', order'[k] = order'[l]
        PROVE  k = l
    <3>1. CASE k = n \/ l = n
      BY <1>3, <1>5, <1>7a, <2>1, <3>1
    <3>2. CASE k \in InUse /\ l \in InUse
      BY <1>5, <2>1, <3>2, OrderFacts
    <3> QED BY <1>3, <3>1, <3>2
  <2> QED BY <1>6, <2>1 DEF OrderIsInjective
<1>10. StorageIsOwned'
  <2>1. lists'[n].storage = 0 /\ \A j \in InUse : lists'[j] = lists[j]
    BY <1>1, <1>2, <1>3, <1>4, Sizes DEF TypeOK
  <2> QED BY <1>3, <2>1 DEF IInv, StorageIsOwned
<1> QED BY <1>7, <1>8, <1>9, <1>10 DEF IInv

\* When a list has no storage yet, the others do not use all there is.
LEMMA FreeStorageExists ==
  ASSUME TypeOK, NEW r \in InUse, lists[r].storage = 0
  PROVE  Min(FreeStorage) \in FreeStorage
<1> DEFINE rest == InUse \ {r}
           f == [i \in rest |-> lists[i].storage]
           T == {lists[i].storage : i \in rest}
<1>1. IsFiniteSet(rest) /\ Cardinality(rest) = list_count - 1
  <2>1. IsFiniteSet(InUse) /\ Cardinality(InUse) = list_count
    BY Sizes, FS_Interval
  <2> QED BY <2>1, FS_RemoveElement
<1>2. f \in Surjection(rest, T)
  BY DEF Surjection
<1>3. IsFiniteSet(T) /\ Cardinality(T) <= list_count - 1
  BY <1>1, <1>2, FS_Surjection
<1>4. IsFiniteSet(Storage) /\ Cardinality(Storage) = MaxLists
  BY Sizes, FS_Interval DEF Storage
<1>5. FreeStorage # {}
  <2> SUFFICES ASSUME FreeStorage = {} PROVE FALSE
    OBVIOUS
  <2>1. Storage \subseteq T
    BY DEF FreeStorage, Storage
  <2>2. Cardinality(Storage) <= Cardinality(T)
    BY <1>3, <2>1, FS_Subset
  <2>3. Cardinality(T) \in Nat
    BY <1>3, FS_CardinalityType
  <2> QED BY <1>3, <1>4, <2>2, <2>3, Sizes
<1>6. FreeStorage \in SUBSET Nat
  BY DEF FreeStorage, Storage
<1> QED BY <1>5, <1>6, MinIsLeast

\* A command is put behind those of the open list, whose storage stays its own.
LEMMA RecordIInv ==
  ASSUME IInv, NEW c \in Clients, Draw(c),
         recording # 0, Len(lists[recording].cmds) < MaxCmds
  PROVE  IInv'
<1> DEFINE r == recording
           cmd == [client |-> c, target |-> target[c]]
           heap == IF lists[r].storage = 0 THEN Min(FreeStorage) ELSE lists[r].storage
<1>0. TypeOK /\ StorageIsOwned
  BY DEF IInv
<1>1. r \in InUse /\ r \in Index
  BY <1>0, Sizes DEF TypeOK
<1>2. cmd \in ParsedCmd
  BY <1>0 DEF TypeOK, ParsedCmd
<1>3. heap \in Storage /\ (lists[r].storage = 0 => heap \in FreeStorage)
  BY <1>0, <1>1, FreeStorageExists DEF TypeOK, DisplayList, FreeStorage
<1>4. lists[r] \in DisplayList
  BY <1>0, <1>1 DEF TypeOK
<1>5. /\ UNCHANGED <<list_count, order, recording, target>> /\ pushed' = {}
      /\ lists' = [lists EXCEPT ![r].cmds = Append(@, cmd),
                     ![r].storage = IF @ = 0 THEN Min(FreeStorage) ELSE @]
  BY DEF Draw
<1> DEFINE e == [lists[r] EXCEPT !.cmds = Append(@, cmd), !.storage = heap]
<1>6. /\ \A j \in Index \ {r} : lists'[j] = lists[j]
      /\ lists'[r] = e
      /\ lists' = [j \in Index |-> IF j = r THEN e ELSE lists[j]]
  BY <1>0, <1>1, <1>4, <1>5 DEF TypeOK, DisplayList
<1> HIDE DEF cmd, heap
<1> DEFINE v == lists[r]
<1>7. v \in DisplayList /\ e = [v EXCEPT !.cmds = Append(@, cmd), !.storage = heap]
  BY <1>4
<1> HIDE DEF e, v
<1>8. v.cmds \in Seq(ParsedCmd)
  BY <1>7 DEF DisplayList
<1>9. /\ Append(v.cmds, cmd) \in Seq(ParsedCmd)
      /\ Len(Append(v.cmds, cmd)) = Len(v.cmds) + 1
      /\ Len(v.cmds) \in Nat
  BY <1>2, <1>8, AppendProperties, LenProperties
<1>9a. e.cmds = Append(v.cmds, cmd) /\ e.storage = heap
  BY <1>7 DEF DisplayList
<1>9b. e \in DisplayList
  BY <1>3, <1>7, <1>9 DEF DisplayList
<1>9c. Len(v.cmds) < MaxCmds
  BY DEF v
<1>10. e \in DisplayList /\ Len(e.cmds) <= MaxCmds
  BY <1>9, <1>9a, <1>9b, <1>9c, MaxAssumption
<1> HIDE DEF r
<1>11. TypeOK'
  <2>1. lists' \in [Index -> DisplayList] /\ \A j \in Index : Len(lists'[j].cmds) <= MaxCmds
    BY <1>0, <1>1, <1>6, <1>10 DEF TypeOK
  <2> QED BY <1>0, <1>5, <2>1 DEF TypeOK
<1>12. EachListDrawnOnce' /\ OrderIsInjective'
  BY <1>5 DEF IInv, EachListDrawnOnce, OrderIsInjective, InUse
<1>13. StorageIsOwned'
  <2>1. \A j \in InUse \ {r} : lists[j].storage = 0 \/ lists[j].storage # heap
    <3>1. CASE lists[r].storage = 0
      BY <1>3, <3>1 DEF FreeStorage
    <3>2. CASE lists[r].storage # 0
      <4>1. heap = lists[r].storage
        BY <3>2 DEF heap
      <4> QED BY <1>0, <1>1, <4>1 DEF StorageIsOwned
    <3> QED BY <3>1, <3>2
  <2>2. InUse' = InUse /\ InUse \subseteq Index
    BY <1>0, <1>5, Sizes DEF InUse
  <2>3. \A j \in InUse \ {r} : lists'[j].storage = lists[j].storage
    BY <1>6, <2>2
  <2>4. lists'[r].storage = heap
    BY <1>6, <1>9a
  <2>5. ASSUME NEW k \in InUse, NEW j \in InUse, k # j
        PROVE  lists'[k].storage = 0 \/ lists'[k].storage # lists'[j].storage
    <3>1. CASE k = r
      <4>1. j \in InUse \ {r} /\ 0 \notin Storage
        BY <2>5, <3>1 DEF Storage
      <4> QED BY <1>3, <2>1, <2>3, <2>4, <3>1, <4>1
    <3>2. CASE j = r
      BY <2>1, <2>3, <2>4, <2>5, <3>2
    <3>3. CASE k # r /\ j # r
      BY <1>0, <2>3, <2>5, <3>3 DEF StorageIsOwned
    <3> QED BY <3>1, <3>2, <3>3
  <2> QED BY <2>2, <2>5 DEF StorageIsOwned
<1> QED BY <1>11, <1>12, <1>13 DEF IInv

\* The steps that move no list.
LEMMA SmallSteps ==
  ASSUME IInv,
         \/ \E c \in Clients : End(c) \/ Draw(c)
         \/ \E name \in Names : Clear(name)
         \/ UNCHANGED vars
  PROVE  IInv'
<1>1. TypeOK
  BY DEF IInv
<1>2. ASSUME NEW c \in Clients, End(c) PROVE IInv'
  <2>1. TypeOK'
    BY <1>1, <1>2, Sizes DEF TypeOK, End
  <2> QED BY <1>2, <2>1, SameOrder DEF End
<1>3. ASSUME NEW c \in Clients, Draw(c) PROVE IInv'
  <2>1. CASE recording # 0 /\ Len(lists[recording].cmds) < MaxCmds
    BY <1>3, <2>1, RecordIInv
  <2>2. CASE ~(recording # 0 /\ Len(lists[recording].cmds) < MaxCmds)
    <3>1. /\ UNCHANGED <<lists, list_count, order, recording, target>>
          /\ pushed' = {[client |-> c, target |-> target[c]]}
      BY <1>3, <2>2 DEF Draw
    <3>2. TypeOK'
      BY <1>1, <3>1 DEF TypeOK, ParsedCmd
    <3> QED BY <3>1, <3>2, SameOrder
  <2> QED BY <2>1, <2>2
<1>4. ASSUME NEW name \in Names, Clear(name) PROVE IInv'
  <2> DEFINE i == find_idx(name)
  <2>1. i \in Index
    BY <1>1, <1>4, FindIdxFacts, Sizes DEF Clear
  <2>2. /\ lists' = [lists EXCEPT ![i].cmds = <<>>] /\ pushed' = {}
        /\ UNCHANGED <<list_count, order, recording, target>>
    BY <1>4 DEF Clear
  <2> HIDE DEF i
  <2>3. TypeOK'
    BY <1>1, <2>1, <2>2, Emptied DEF TypeOK
  <2> QED BY <1>1, <2>1, <2>2, <2>3, Emptied, SameOrder, Sizes
<1>5. CASE UNCHANGED vars
  BY <1>5 DEF vars, IInv, TypeOK, EachListDrawnOnce, OrderIsInjective, StorageIsOwned, InUse
<1> QED BY <1>2, <1>3, <1>4, <1>5

\* Where an entry lay before entry i was taken out of the array, and where an
\* index lay in the order before the one at p was.
Before(i, j) == IF j >= i THEN j + 1 ELSE j

\* What a deletion does to the array and to the order: both close up.
LEMMA DeleteFacts ==
  ASSUME IInv, NEW i \in InUse, lists' = ClosedUp(i), order' = OrderWithout(i),
         list_count' = list_count - 1
  PROVE  /\ \A j \in InUse' : Before(i, j) \in InUse \ {i} /\ lists'[j] = lists[Before(i, j)]
         /\ DOMAIN order' = InUse' /\ order' \in Seq(InUse') /\ Len(order') = list_count'
         /\ \E p \in InUse :
              /\ order[p] = i
              /\ \A k \in InUse' : Before(i, order'[k]) = order[Before(p, k)]
<1>1. /\ InUse' = 1..list_count-1 /\ InUse = 1..list_count /\ list_count \in Nat
      /\ InUse \subseteq Index /\ list_count - 1 \in Nat
  BY Sizes DEF IInv, InUse
<1>2. ASSUME NEW j \in InUse'
      PROVE  Before(i, j) \in InUse \ {i} /\ lists'[j] = lists[Before(i, j)]
  <2>1. Before(i, j) \in InUse \ {i} /\ j \in Index /\ j < list_count
    BY <1>1 DEF Before
  <2>2. CASE j >= i
    BY <1>1, <2>1, <2>2 DEF ClosedUp, Before
  <2>3. CASE ~(j >= i)
    BY <1>1, <2>1, <2>3 DEF ClosedUp, Before
  <2> QED BY <2>1, <2>2, <2>3
<1>0. /\ order \in Seq(InUse) /\ Len(order) = list_count
      /\ \A k \in InUse : order[k] \in InUse
      /\ \E k \in 1..Len(order) : order[k] = i
      /\ \A k, l \in InUse : order[k] = order[l] => k = l
  BY <1>1, OrderFacts
<1>3. PICK p \in 1..Len(order) : order[p] = i /\ RemoveFirst(order, i) = RemoveAt(order, p)
  BY <1>0, RemoveFirstFacts
<1> DEFINE rest == RemoveFirst(order, i)
<1>4. /\ rest \in Seq(InUse) /\ Len(rest) = list_count - 1
      /\ \A k \in InUse' : rest[k] = order[Before(p, k)]
  <2>1. /\ RemoveAt(order, p) \in Seq(InUse)
        /\ Len(RemoveAt(order, p)) = Len(order) - 1
        /\ \A k \in 1..Len(order)-1 :
             RemoveAt(order, p)[k] = IF k < p THEN order[k] ELSE order[k + 1]
    BY <1>0, RemoveAtFacts
  <2>2. \A k \in InUse' : k < p <=> ~(k >= p)
    BY <1>1, <1>3
  <2> QED BY <1>1, <1>0, <1>3, <2>1, <2>2 DEF Before
<1>5. order' = [k \in InUse' |-> IF rest[k] > i THEN rest[k] - 1 ELSE rest[k]]
  BY <1>1, <1>4, LenProperties DEF OrderWithout
<1> HIDE DEF rest
<1>6. p \in InUse
  BY <1>1, <1>0
<1>7. ASSUME NEW k \in InUse'
      PROVE  order'[k] \in InUse' /\ Before(i, order'[k]) = order[Before(p, k)]
  <2>1. Before(p, k) \in InUse /\ Before(p, k) # p
    BY <1>1, <1>6 DEF Before
  <2>2. rest[k] \in InUse /\ rest[k] # i /\ rest[k] = order[Before(p, k)]
    <3>1. rest[k] = order[Before(p, k)]
      BY <1>4
    <3>2. order[Before(p, k)] \in InUse /\ order[p] = i
      BY <1>0, <1>3, <2>1
    <3>3. order[Before(p, k)] # order[p]
      BY <1>0, <1>6, <2>1
    <3> QED BY <3>1, <3>2, <3>3
  <2>3. order'[k] = IF rest[k] > i THEN rest[k] - 1 ELSE rest[k]
    BY <1>5
  <2>4. order'[k] \in InUse' /\ Before(i, order'[k]) = rest[k]
    BY <1>1, <2>2, <2>3 DEF Before
  <2> QED BY <2>2, <2>4
<1>8. order' \in [1..list_count-1 -> InUse']
  BY <1>1, <1>5, <1>7
<1>9. DOMAIN order' = InUse' /\ order' \in Seq(InUse') /\ Len(order') = list_count'
  <2>1. order' \in Seq(InUse')
    BY <1>1, <1>8, SeqDef
  <2>2. DOMAIN order' = 1..list_count-1
    BY <1>8
  <2>3. DOMAIN order' = 1..Len(order') /\ Len(order') \in Nat
    BY <2>1, LenProperties
  <2> QED BY <1>1, <2>1, <2>2, <2>3
<1> QED BY <1>2, <1>3, <1>6, <1>7, <1>9

\* Deleting a list: what pointed behind it points to the same lists as before.
LEMMA DeleteIInv ==
  ASSUME IInv, NEW c \in Clients, NEW name \in Names, Delete(c, name)
  PROVE  IInv'
<1> DEFINE i == find_idx(name)
<1>1. TypeOK /\ i \in InUse /\ InUse = 1..list_count /\ InUse \subseteq Index /\ list_count \in Nat
  BY FindIdxFacts, Sizes DEF IInv, Delete
<1>2. /\ lists' = ClosedUp(i) /\ order' = OrderWithout(i) /\ list_count' = list_count - 1
      /\ recording' = AfterRemoval(i, recording) /\ pushed' = {}
      /\ target' = [target EXCEPT ![c] = IF @ = name THEN "none" ELSE @]
  BY DEF Delete
<1> HIDE DEF i
<1>3. /\ \A j \in InUse' : Before(i, j) \in InUse \ {i} /\ lists'[j] = lists[Before(i, j)]
      /\ DOMAIN order' = InUse' /\ order' \in Seq(InUse') /\ Len(order') = list_count'
  BY <1>1, <1>2, DeleteFacts
<1>4. PICK p \in InUse : order[p] = i /\ \A k \in InUse' : Before(i, order'[k]) = order[Before(p, k)]
  BY <1>1, <1>2, DeleteFacts
<1>5. InUse' = 1..list_count-1
  BY <1>2 DEF InUse
<1>6. TypeOK'
  <2>1. \A j \in Index : j < list_count => j + 1 \in Index
    BY <1>1, Sizes
  <2>2. \A j \in Index : ClosedUp(i)[j] = lists[j] \/ (j < list_count /\ ClosedUp(i)[j] = lists[j + 1])
                         \/ ClosedUp(i)[j] = [lists[i] EXCEPT !.cmds = <<>>, !.storage = 0]
    BY DEF ClosedUp
  <2> DEFINE e == [lists[i] EXCEPT !.cmds = <<>>, !.storage = 0]
  <2>3. e \in DisplayList /\ e.cmds = <<>> /\ Len(<<>>) = 0
    <3>1. lists[i] \in DisplayList /\ <<>> \in Seq(ParsedCmd) /\ Len(<<>>) = 0
      BY <1>1, EmptySeq DEF TypeOK
    <3> QED BY <3>1 DEF DisplayList
  <2> HIDE DEF e
  <2>4. \A j \in Index : lists'[j] \in DisplayList /\ Len(lists'[j].cmds) <= MaxCmds
    <3> SUFFICES ASSUME NEW j \in Index
                 PROVE  lists'[j] \in DisplayList /\ Len(lists'[j].cmds) <= MaxCmds
      OBVIOUS
    <3>1. CASE lists'[j] = lists[j]
      BY <1>1, <3>1 DEF TypeOK
    <3>2. CASE j < list_count /\ lists'[j] = lists[j + 1]
      BY <1>1, <2>1, <3>2 DEF TypeOK
    <3>3. CASE lists'[j] = e
      BY <2>3, <3>3, MaxAssumption
    <3> QED BY <1>2, <2>2, <3>1, <3>2, <3>3 DEF e
  <2>5. lists' \in [Index -> DisplayList]
    BY <1>2, <2>4 DEF ClosedUp
  <2>6. list_count' \in 0..MaxLists /\ order' \in Seq(1..list_count')
    BY <1>1, <1>2, <1>3, <1>5, Sizes
  <2>7. recording' \in 0..list_count'
    <3>1. recording \in 0..list_count /\ i \in 1..list_count
      BY <1>1 DEF TypeOK
    <3> QED BY <1>1, <1>2, <3>1 DEF AfterRemoval
  <2>8. target' \in [Clients -> Names \cup {"none"}] /\ pushed' \subseteq ParsedCmd
    BY <1>1, <1>2 DEF TypeOK
  <2> QED BY <2>4, <2>5, <2>6, <2>7, <2>8 DEF TypeOK
<1>7. \A k, l \in InUse' : \A m \in InUse : Before(m, k) = Before(m, l) => k = l
  BY <1>1, <1>5 DEF Before
<1>8. OrderIsInjective'
  <2>1. ASSUME NEW k \in InUse', NEW l \in InUse', order'[k] = order'[l]
        PROVE  k = l
    <3>1. order[Before(p, k)] = order[Before(p, l)]
      BY <1>4, <2>1
    <3>2. Before(p, k) \in InUse /\ Before(p, l) \in InUse
      BY <1>1, <1>5 DEF Before
    <3>3. Before(p, k) = Before(p, l)
      BY <3>1, <3>2, OrderFacts
    <3> QED BY <1>7, <3>3
  <2> QED BY <1>3, <2>1 DEF OrderIsInjective
<1>9. EachListDrawnOnce'
  <2>1. ASSUME NEW j \in InUse'
        PROVE  \E k \in InUse' : order'[k] = j
    <3>1. Before(i, j) \in InUse /\ Before(i, j) # i
      BY <1>3
    <3>2. PICK q \in InUse : order[q] = Before(i, j)
      BY <3>1, OrderFacts
    <3>3. PICK k \in InUse' : Before(p, k) = q
      <4>1. q # p
        BY <1>4, <3>1, <3>2
      <4>2. CASE q < p
        BY <1>1, <1>5, <4>1, <4>2 DEF Before
      <4>3. CASE q > p
        <5>1. q - 1 \in InUse' /\ Before(p, q - 1) = q
          BY <1>1, <1>5, <4>3 DEF Before
        <5> QED BY <5>1
      <4> QED BY <1>1, <4>1, <4>2, <4>3
    <3>4. Before(i, order'[k]) = Before(i, j)
      BY <1>4, <3>2, <3>3
    <3>5. order'[k] \in InUse'
      BY <1>3, ElementOfSeq, LenProperties
    <3> QED BY <1>1, <1>7, <3>4, <3>5
  <2>2. \A k \in InUse' : order'[k] \in InUse'
    BY <1>3, ElementOfSeq, LenProperties
  <2> QED BY <1>3, <2>1, <2>2 DEF EachListDrawnOnce, ToSet
<1>10. StorageIsOwned'
  <2>1. \A k, j \in InUse' : k # j => Before(i, k) # Before(i, j)
    BY <1>1, <1>7
  <2> QED BY <1>3, <2>1 DEF IInv, StorageIsOwned
<1> QED BY <1>6, <1>8, <1>9, <1>10 DEF IInv

\* What the loops of DisplayListSetOrder go through.
LEMMA CandidatesFacts ==
  ASSUME IInv, NEW names \in SeqOf(Names, MaxMentions)
  PROVE  /\ Len(names) \in Nat /\ DOMAIN names = 1..Len(names)
         /\ Candidates(names) \in Seq(0..list_count)
         /\ Len(Candidates(names)) = Len(names) + list_count
         /\ \A k \in 1..Len(names) : Candidates(names)[k] = find_idx(names[k])
         /\ \A k \in InUse : Candidates(names)[Len(names) + k] = order[k]
<1>1. PICK n \in 0..MaxMentions : names \in [1..n -> Names]
  BY DEF SeqOf
<1>2. n \in Nat /\ names \in Seq(Names)
  BY <1>1, MaxAssumption, SeqDef
<1>3. DOMAIN names = 1..n /\ DOMAIN names = 1..Len(names) /\ Len(names) \in Nat
  BY <1>1, <1>2, LenProperties
<1>4. n = Len(names)
  BY <1>2, <1>3
<1> DEFINE found == [k \in 1..n |-> find_idx(names[k])]
<1>5. found \in [1..n -> 0..list_count]
  BY FindIdxFacts DEF IInv
<1>6. found \in Seq(0..list_count)
  BY <1>2, <1>5, SeqDef
<1>7. DOMAIN found = 1..n /\ DOMAIN found = 1..Len(found) /\ Len(found) \in Nat
  BY <1>5, <1>6, LenProperties
<1>8. Len(found) = n /\ \A k \in 1..n : found[k] = find_idx(names[k])
  BY <1>2, <1>7
<1>9. Candidates(names) = found \o order
  BY <1>3 DEF Candidates
<1> HIDE DEF found
<1>10. /\ order \in Seq(0..list_count) /\ Len(order) = list_count /\ list_count \in Nat
       /\ InUse = 1..list_count
  <2>1. InUse \subseteq 0..list_count
    BY Sizes DEF IInv
  <2> QED BY <2>1, OrderFacts, SeqMonotonic, Sizes DEF IInv
<1>11. found \o order \in Seq(0..list_count) /\ Len(found \o order) = n + list_count
  BY <1>6, <1>8, <1>10, ConcatProperties
<1>12. \A k \in 1..n : (found \o order)[k] = found[k]
  BY <1>2, <1>6, <1>8, <1>10
<1>13. \A k \in 1..list_count : (found \o order)[n + k] = order[k]
  BY <1>2, <1>6, <1>8, <1>10
<1> QED BY <1>3, <1>4, <1>8, <1>9, <1>10, <1>11, <1>12, <1>13

\* The loops take every list, and none twice.
LEMMA PickedFacts ==
  ASSUME IInv, NEW names \in SeqOf(Names, MaxMentions)
  PROVE  LET all == Candidates(names)
             P   == Picked(all) IN
         /\ P \in SUBSET Nat
         /\ \A k \in P : all[k] \in InUse
         /\ \A k, l \in P : all[k] = all[l] => k = l
         /\ \A i \in InUse : \E k \in P : all[k] = i
         /\ IsFiniteSet(P) /\ Cardinality(P) = list_count
<1> DEFINE all == Candidates(names)
           P   == Picked(all)
<1>1. /\ Len(names) \in Nat /\ all \in Seq(0..list_count)
      /\ Len(all) = Len(names) + list_count
      /\ \A k \in InUse : all[Len(names) + k] = order[k]
  BY CandidatesFacts
<1>2. list_count \in Nat /\ InUse = 1..list_count
  BY Sizes DEF IInv
<1>3. DOMAIN all = 1..Len(all) /\ Len(all) \in Nat /\ \A k \in DOMAIN all : all[k] \in 0..list_count
  BY <1>1, LenProperties, ElementOfSeq
<1> HIDE DEF all
<1>4. P \subseteq DOMAIN all /\ P \in SUBSET Nat
  BY <1>3 DEF Picked
<1>5. \A k \in P : all[k] \in InUse
  BY <1>2, <1>3, <1>4 DEF Picked
<1>6. ASSUME NEW k \in P, NEW l \in P, all[k] = all[l]
      PROVE  k = l
  <2>1. k \in Nat /\ l \in Nat /\ k >= 1 /\ l >= 1
    BY <1>3, <1>4
  <2>2. ~(k < l)
    <3>1. k < l => k \in 1..l-1
      BY <2>1
    <3> QED BY <1>6, <3>1 DEF Picked
  <2>3. ~(l < k)
    <3>1. l < k => l \in 1..k-1
      BY <2>1
    <3> QED BY <1>6, <3>1 DEF Picked
  <2> QED BY <2>1, <2>2, <2>3
<1>7. ASSUME NEW i \in InUse
      PROVE  \E k \in P : all[k] = i
  <2> DEFINE at == {k \in DOMAIN all : all[k] = i}
  <2>1. at # {}
    <3>1. PICK k \in InUse : order[k] = i
      BY OrderFacts
    <3>2. Len(names) + k \in DOMAIN all /\ all[Len(names) + k] = i
      BY <1>1, <1>2, <1>3, <3>1
    <3> QED BY <3>2
  <2>2. at \in SUBSET Nat
    BY <1>3
  <2>3. Min(at) \in at /\ \A m \in at : Min(at) <= m
    BY <2>1, <2>2, MinIsLeast
  <2> DEFINE k == Min(at)
  <2> HIDE DEF k
  <2>4. k \in DOMAIN all /\ all[k] = i /\ \A m \in DOMAIN all : all[m] = i => k <= m
    BY <2>3 DEF k
  <2>5. \A j \in 1..k-1 : j \in DOMAIN all /\ ~(k <= j)
    BY <1>3, <2>4
  <2>6. i # 0
    BY <1>2
  <2> QED BY <2>4, <2>5, <2>6 DEF Picked
<1> HIDE DEF P
<1> DEFINE f == [k \in P |-> all[k]]
<1>8. IsFiniteSet(P)
  <2>1. IsFiniteSet(1..Len(all))
    BY <1>3, FS_Interval
  <2> QED BY <1>3, <1>4, <2>1, FS_Subset
<1>9. f \in Bijection(P, InUse)
  BY <1>5, <1>6, <1>7 DEF Bijection, Injection, Surjection, IsInjective
<1>10. Cardinality(P) = list_count
  <2>1. ExistsBijection(P, InUse)
    BY <1>9 DEF ExistsBijection
  <2>2. Cardinality(InUse) = list_count
    BY <1>2, FS_Interval
  <2> QED BY <1>8, <2>1, <2>2, FS_Bijection
<1> QED BY <1>4, <1>5, <1>6, <1>7, <1>8, <1>10 DEF P, all

\* The new order takes the lists in the order in which the loops come to them.
LEMMA SetOrderFacts ==
  ASSUME IInv, NEW names \in SeqOf(Names, MaxMentions), SetOrder(names)
  PROVE  \E at \in [InUse -> Picked(Candidates(names))] :
           /\ \A m, n \in InUse : m < n => at[m] < at[n]
           /\ \A k \in Picked(Candidates(names)) : \E m \in InUse : at[m] = k
           /\ order' = [m \in InUse |-> Candidates(names)[at[m]]]
<1> DEFINE P == Picked(Candidates(names))
<1>1. InUse = 1..list_count /\ list_count \in Nat
  BY Sizes DEF IInv
<1>2. IsFiniteSet(P) /\ Cardinality(P) = list_count /\ P \in SUBSET Nat
  BY PickedFacts
<1>3. PICK at \in [InUse -> P] :
        /\ \A m, n \in InUse : m < n => at[m] < at[n]
        /\ order' = [m \in InUse |-> Candidates(names)[at[m]]]
  BY <1>1, <1>2 DEF SetOrder
<1> HIDE DEF P
<1>4. at \in Injection(InUse, P)
  <2>1. ASSUME NEW m \in InUse, NEW n \in InUse, at[m] = at[n]
        PROVE  m = n
    <3>1. at[m] \in Nat /\ at[n] \in Nat
      BY <1>2
    <3>2. ~(m < n) /\ ~(n < m)
      BY <1>3, <2>1, <3>1
    <3> QED BY <1>1, <3>2
  <2> QED BY <2>1 DEF Injection, IsInjective
<1>5. Cardinality(InUse) = Cardinality(P)
  BY <1>1, <1>2, FS_Interval
<1>6. at \in Surjection(InUse, P)
  BY <1>2, <1>4, <1>5, FS_Injection
<1>7. \A k \in P : \E m \in InUse : at[m] = k
  BY <1>6 DEF Surjection
<1> QED BY <1>3, <1>7 DEF P

\* A new order holds every list once.
LEMMA SetOrderIInv ==
  ASSUME IInv, NEW names \in SeqOf(Names, MaxMentions), SetOrder(names)
  PROVE  IInv'
<1> DEFINE all == Candidates(names)
           P   == Picked(all)
<1>1. PICK at \in [InUse -> P] :
        /\ \A m, n \in InUse : m < n => at[m] < at[n]
        /\ \A k \in P : \E m \in InUse : at[m] = k
        /\ order' = [m \in InUse |-> all[at[m]]]
  BY SetOrderFacts
<1>2. /\ P \in SUBSET Nat /\ \A k \in P : all[k] \in InUse
      /\ \A k, l \in P : all[k] = all[l] => k = l
      /\ \A i \in InUse : \E k \in P : all[k] = i
  BY PickedFacts
<1>3. UNCHANGED <<lists, list_count, recording, target>> /\ pushed' = {} /\ InUse' = InUse
  BY DEF SetOrder, InUse
<1>4. InUse = 1..list_count /\ list_count \in Nat
  BY Sizes DEF IInv
<1> HIDE DEF all, P
<1>5. order' \in [1..list_count -> InUse] /\ DOMAIN order' = InUse
  BY <1>1, <1>2, <1>4
<1>6. order' \in Seq(InUse)
  BY <1>4, <1>5, SeqDef
<1>7. Len(order') = list_count
  <2>1. DOMAIN order' = 1..Len(order') /\ Len(order') \in Nat
    BY <1>6, LenProperties
  <2> QED BY <1>4, <1>5, <2>1
<1>8. TypeOK'
  BY <1>3, <1>4, <1>6 DEF IInv, TypeOK
<1>9. EachListDrawnOnce'
  <2>1. \A i \in InUse : \E m \in InUse : order'[m] = i
    BY <1>1, <1>2
  <2>2. ToSet(order') = InUse
    BY <1>4, <1>5, <2>1 DEF ToSet
  <2> QED BY <1>3, <1>7, <2>2 DEF EachListDrawnOnce
<1>10. OrderIsInjective'
  <2>1. ASSUME NEW m \in InUse, NEW n \in InUse, order'[m] = order'[n]
        PROVE  m = n
    <3>1. at[m] \in P /\ at[n] \in P /\ all[at[m]] = all[at[n]]
      BY <1>1, <2>1
    <3>2. at[m] = at[n] /\ at[m] \in Nat
      BY <1>2, <3>1
    <3>3. ~(m < n) /\ ~(n < m)
      BY <1>1, <3>2
    <3> QED BY <1>4, <3>3
  <2> QED BY <1>5, <2>1 DEF OrderIsInjective
<1>11. StorageIsOwned'
  BY <1>3 DEF IInv, StorageIsOwned
<1> QED BY <1>8, <1>9, <1>10, <1>11 DEF IInv

\* Every step preserves the invariant.
LEMMA NextIInv == IInv /\ [Next]_vars => IInv'
<1> SUFFICES ASSUME IInv, [Next]_vars PROVE IInv'
  OBVIOUS
<1>1. ASSUME NEW c \in Clients, NEW name \in Names, Begin(c, name) PROVE IInv'
  BY <1>1, BeginAgain, BeginNew
<1>2. ASSUME NEW c \in Clients, NEW name \in Names, Delete(c, name) PROVE IInv'
  BY <1>2, DeleteIInv
<1>3. ASSUME NEW names \in SeqOf(Names, MaxMentions), SetOrder(names) PROVE IInv'
  BY <1>3, SetOrderIInv
<1> QED BY <1>1, <1>2, <1>3, SmallSteps DEF Next

\* The inductive invariant holds of every reachable state.
THEOREM Invariant == Spec => []IInv
BY InitIInv, NextIInv, PTL DEF Spec

\* Whatever is recorded, deleted and reordered, and whichever names are repeated
\* or unknown, dl_replay draws every list once, and no index is left behind.
THEOREM DrawnOnce == Spec => []EachListDrawnOnce
<1>1. IInv => EachListDrawnOnce
  BY DEF IInv
<1> QED BY Invariant, <1>1, PTL

\* No two lists have one array of commands, so that none is freed twice or
\* written through another list.
THEOREM StorageOwned == Spec => []StorageIsOwned
<1>1. IInv => StorageIsOwned
  BY DEF IInv
<1> QED BY Invariant, <1>1, PTL

(***************************************************************************)
(* The scene                                                               *)
(***************************************************************************)

\* Where no name is cut, a list is found again by the name it was made with.
SInv ==
    /\ IInv
    /\ OneListPerName
    /\ \A i \in InUse : lists[i].name \in Names

\* One line of what is drawn.
Drawn == [name : Names, cmds : Seq(ParsedCmd)]

\* The scene is the order, with the lists themselves in place of their indices.
LEMMA SceneFacts ==
  ASSUME SInv
  PROVE  /\ DOMAIN Replayed = InUse /\ InUse = 1..list_count /\ list_count \in Nat
         /\ \A k \in InUse : /\ order[k] \in InUse
                             /\ Replayed[k].name = lists[order[k]].name
                             /\ Replayed[k].cmds = lists[order[k]].cmds
         /\ Replayed \in Seq(Drawn) /\ Len(Replayed) = list_count
         /\ TheScene!NamesIn(Replayed) = {lists[i].name : i \in InUse}
<1>1. /\ DOMAIN Replayed = InUse /\ InUse = 1..list_count /\ list_count \in Nat
      /\ \A k \in InUse : order[k] \in InUse
      /\ \A i \in InUse : \E k \in InUse : order[k] = i
      /\ InUse \subseteq Index
  BY OrderFacts, Sizes DEF SInv, IInv, Replayed
<1>2. \A k \in InUse : Replayed[k] = [name |-> lists[order[k]].name, cmds |-> lists[order[k]].cmds]
  BY <1>1 DEF Replayed
<1>3. \A i \in InUse : lists[i].name \in Names /\ lists[i].cmds \in Seq(ParsedCmd)
  BY <1>1 DEF SInv, IInv, TypeOK, DisplayList
<1>4. Replayed \in [1..list_count -> Drawn]
  BY <1>1, <1>3 DEF Replayed, Drawn
<1>5. Replayed \in Seq(Drawn)
  BY <1>1, <1>4, SeqDef
<1>6. Len(Replayed) = list_count
  <2>1. DOMAIN Replayed = 1..Len(Replayed) /\ Len(Replayed) \in Nat
    BY <1>5, LenProperties
  <2> QED BY <1>1, <2>1
<1>7. ASSUME NEW k \in InUse
      PROVE  /\ Replayed[k].name = lists[order[k]].name
             /\ Replayed[k].cmds = lists[order[k]].cmds
  <2>1. Replayed[k] = [name |-> lists[order[k]].name, cmds |-> lists[order[k]].cmds]
    BY <1>2
  <2> QED BY <2>1
<1>8. TheScene!NamesIn(Replayed) = {lists[i].name : i \in InUse}
  <2>1. TheScene!NamesIn(Replayed) = {Replayed[k].name : k \in InUse}
    BY <1>1 DEF TheScene!NamesIn
  <2>2. ASSUME NEW k \in InUse
        PROVE  Replayed[k].name \in {lists[i].name : i \in InUse}
    BY <1>1, <1>7
  <2>3. ASSUME NEW i \in InUse
        PROVE  lists[i].name \in {Replayed[k].name : k \in InUse}
    <3>1. PICK k \in InUse : order[k] = i
      BY <1>1
    <3>2. Replayed[k].name = lists[i].name
      BY <1>7, <3>1
    <3> QED BY <3>2
  <2> QED BY <2>1, <2>2, <2>3
<1>9. \A k \in InUse : /\ order[k] \in InUse
                        /\ Replayed[k].name = lists[order[k]].name
                        /\ Replayed[k].cmds = lists[order[k]].cmds
  BY <1>1, <1>7
<1> QED BY <1>1, <1>5, <1>6, <1>8, <1>9

\* In the scene, a list is where its index is in the order.
LEMMA NamedOnce ==
  ASSUME SInv, NEW i \in InUse, NEW k \in InUse
  PROVE  Replayed[k].name = lists[i].name <=> order[k] = i
BY SceneFacts DEF SInv, OneListPerName

\* Commands of one list are changed: in the scene, those of its name.
LEMMA EditFacts ==
  ASSUME SInv, NEW i \in InUse, NEW cmds, order' = order,
         \A j \in InUse \ {i} : lists'[j] = lists[j],
         lists'[i].name = lists[i].name, lists'[i].cmds = cmds
  PROVE  Replayed' = [k \in DOMAIN Replayed |->
                        IF Replayed[k].name = lists[i].name
                        THEN [Replayed[k] EXCEPT !.cmds = cmds]
                        ELSE Replayed[k]]
<1> DEFINE R == [k \in DOMAIN Replayed |->
                   IF Replayed[k].name = lists[i].name
                   THEN [Replayed[k] EXCEPT !.cmds = cmds]
                   ELSE Replayed[k]]
<1>1. DOMAIN order = InUse
  BY OrderFacts DEF SInv
<1>2. Replayed' = [k \in InUse |-> [name |-> lists'[order[k]].name, cmds |-> lists'[order[k]].cmds]]
  BY <1>1 DEF Replayed
<1>3. ASSUME NEW k \in InUse
      PROVE  Replayed'[k] = R[k]
  <2>1. Replayed[k] = [name |-> lists[order[k]].name, cmds |-> lists[order[k]].cmds]
    BY <1>1 DEF Replayed
  <2>2. order[k] \in InUse
    BY SceneFacts
  <2>3. CASE order[k] = i
    <3>1. Replayed[k].name = lists[i].name
      BY <2>1, <2>3
    <3>2. [Replayed[k] EXCEPT !.cmds = cmds] = [name |-> lists[i].name, cmds |-> cmds]
      BY <2>1, <2>3
    <3>3. Replayed'[k] = [name |-> lists[i].name, cmds |-> cmds]
      BY <1>2, <2>3
    <3> QED BY <3>1, <3>2, <3>3, SceneFacts
  <2>4. CASE order[k] # i
    <3>1. Replayed[k].name # lists[i].name
      BY <2>4, NamedOnce
    <3>2. Replayed'[k] = Replayed[k]
      BY <1>2, <2>1, <2>2, <2>4
    <3> QED BY <3>1, <3>2, SceneFacts
  <2> QED BY <2>3, <2>4
<1> HIDE DEF R
<1>4. R = [k \in InUse |-> R[k]]
  BY SceneFacts DEF R
<1>5. Replayed' = [k \in InUse |-> Replayed'[k]]
  BY <1>2
<1>6. Replayed' = R
  BY <1>3, <1>4, <1>5
<1> QED BY <1>6 DEF R

\* The list being recorded.
LEMMA RecordedFacts ==
  ASSUME SInv
  PROVE  /\ recording = 0 => Recorded = "none"
         /\ recording # 0 => /\ recording \in InUse
                             /\ Recorded = lists[recording].name
                             /\ Recorded \in Names
         /\ "none" \notin Names
BY NamesAssumption, Sizes DEF SInv, IInv, TypeOK, Recorded

\* A list that is begun again, or cleared.
LEMMA EmptiedFacts ==
  ASSUME SInv, NEW name, find_idx(name) # 0,
         lists' = [lists EXCEPT ![find_idx(name)].cmds = <<>>], order' = order
  PROVE  /\ Replayed' = [k \in DOMAIN Replayed |->
                           IF Replayed[k].name = name
                           THEN [Replayed[k] EXCEPT !.cmds = <<>>]
                           ELSE Replayed[k]]
         /\ find_idx(name) \in InUse
         /\ \A j \in InUse : lists'[j].name = lists[j].name
         /\ name \in TheScene!NamesIn(Replayed)
<1> DEFINE i == find_idx(name)
<1>1. TypeOK /\ i \in InUse /\ i \in Index /\ InUse \subseteq Index /\ lists[i].name = name
  BY FindIdxFacts, Sizes DEF SInv, IInv
<1> HIDE DEF i
<1>2. lists' = [lists EXCEPT ![i].cmds = <<>>]
  BY DEF i
<1>3. \A j \in Index : lists'[j].name = lists[j].name
  BY <1>1, <1>2, Emptied
<1>4. lists[i] \in DisplayList
  BY <1>1 DEF TypeOK
<1>5. \A j \in InUse \ {i} : lists'[j] = lists[j]
  BY <1>1, <1>2 DEF TypeOK
<1>6. lists'[i].cmds = <<>>
  BY <1>1, <1>2, <1>4 DEF TypeOK, DisplayList
<1>7. Replayed' = [k \in DOMAIN Replayed |->
                     IF Replayed[k].name = lists[i].name
                     THEN [Replayed[k] EXCEPT !.cmds = <<>>]
                     ELSE Replayed[k]]
  BY <1>1, <1>3, <1>5, <1>6, EditFacts
<1>8. name \in TheScene!NamesIn(Replayed)
  BY <1>1, SceneFacts
<1> QED BY <1>1, <1>3, <1>7, <1>8 DEF i

\* DisplayListBegin in the scene.
LEMMA BeginScene ==
  ASSUME SInv, LongNames = {}, NEW c \in Clients, NEW name \in Names, Begin(c, name)
  PROVE  TheScene!Begin(name)
<1>1. CASE find_idx(name) # 0
  <2>1. /\ lists' = [lists EXCEPT ![find_idx(name)].cmds = <<>>]
        /\ recording' = find_idx(name) /\ order' = order
    BY <1>1 DEF Begin
  <2>2. lists[find_idx(name)].name = name
    BY <1>1, FindIdxFacts DEF SInv, IInv
  <2>3. Recorded' = name
    BY <1>1, <2>1, <2>2, EmptiedFacts DEF Recorded
  <2> QED BY <1>1, <2>1, <2>3, EmptiedFacts DEF TheScene!Begin
<1>2. CASE find_idx(name) = 0
  <2> DEFINE n == list_count + 1
             e == [name |-> name, cmds |-> <<>>]
  <2>1. /\ list_count < MaxLists /\ lists' = [lists EXCEPT ![n] = Fresh(n, name)]
        /\ order' = Append(order, n) /\ recording' = n
    BY <1>2 DEF Begin
  <2>2. /\ n \in Index /\ n \notin InUse /\ n # 0 /\ InUse \subseteq Index
        /\ list_count \in Nat /\ InUse = 1..list_count
    BY <2>1, Sizes DEF SInv, IInv
  <2>3. /\ lists'[n] = Fresh(n, name) /\ \A i \in InUse : lists'[i] = lists[i]
    BY <2>1, <2>2 DEF SInv, IInv, TypeOK
  <2>4. Fresh(n, name).name = name /\ Fresh(n, name).cmds = <<>>
    BY DEF Fresh, Stored
  <2>5. /\ order' \in Seq(InUse \cup {n}) /\ Len(order') = n
        /\ order'[n] = n /\ \A k \in InUse : order'[k] = order[k] /\ order[k] \in InUse
    BY <2>1, AppendFacts DEF SInv
  <2>6. DOMAIN order' = 1..n
    BY <2>5, LenProperties
  <2>7. Replayed' = [k \in 1..n |-> [name |-> lists'[order'[k]].name, cmds |-> lists'[order'[k]].cmds]]
    BY <2>6 DEF Replayed
  <2>8. Replayed'[n] = e
    BY <2>2, <2>3, <2>4, <2>5, <2>7
  <2>9. \A k \in InUse : Replayed'[k] = Replayed[k]
    <3> SUFFICES ASSUME NEW k \in InUse PROVE Replayed'[k] = Replayed[k]
      OBVIOUS
    <3>1. Replayed[k] = [name |-> lists[order[k]].name, cmds |-> lists[order[k]].cmds]
      BY SceneFacts, OrderFacts DEF SInv, Replayed
    <3>2. Replayed'[k] = [name |-> lists'[order'[k]].name, cmds |-> lists'[order'[k]].cmds]
      BY <2>2, <2>7
    <3>3. order'[k] = order[k] /\ lists'[order[k]] = lists[order[k]]
      BY <2>3, <2>5
    <3> QED BY <3>1, <3>2, <3>3
  <2>10. e \in Drawn
    BY EmptySeq DEF Drawn
  <2>11. Replayed \in Seq(Drawn) /\ Len(Replayed) = list_count
    BY SceneFacts
  <2> HIDE DEF e
  <2>12. /\ Append(Replayed, e) \in Seq(Drawn) /\ Len(Append(Replayed, e)) = n
         /\ Append(Replayed, e)[n] = e
         /\ \A k \in InUse : Append(Replayed, e)[k] = Replayed[k]
    BY <2>2, <2>10, <2>11, AppendProperties
  <2>13. \A k \in 1..n : Replayed'[k] = Append(Replayed, e)[k]
    BY <2>2, <2>8, <2>9, <2>12
  <2>14. DOMAIN Append(Replayed, e) = 1..n
    BY <2>12, LenProperties
  <2>15. Append(Replayed, e) = [k \in 1..n |-> Append(Replayed, e)[k]]
    BY <2>12, <2>14, LenProperties
  <2>16. Replayed' = [k \in 1..n |-> Replayed'[k]]
    BY <2>7
  <2>17. Replayed' = Append(Replayed, e)
    BY <2>13, <2>15, <2>16
  <2>18. name \notin TheScene!NamesIn(Replayed)
    BY <1>2, FindIdxFacts, SceneFacts DEF SInv, IInv
  <2>19. Recorded' = name
    BY <2>1, <2>2, <2>3, <2>4 DEF Recorded
  <2> QED BY <2>17, <2>18, <2>19 DEF TheScene!Begin, e
<1> QED BY <1>1, <1>2

\* A command is put behind those of the open list, or goes to the queue.
LEMMA DrawScene ==
  ASSUME SInv, NEW c \in Clients, Draw(c)
  PROVE  (\E cmd \in ParsedCmd : TheScene!Record(cmd)) \/ UNCHANGED TheScene!sceneVars
<1> DEFINE cmd == [client |-> c, target |-> target[c]]
           r == recording
<1>1. CASE recording # 0 /\ Len(lists[recording].cmds) < MaxCmds
  <2>1. r \in InUse /\ r \in Index /\ InUse \subseteq Index /\ lists[r] \in DisplayList
    BY <1>1, RecordedFacts, Sizes DEF SInv, IInv, TypeOK
  <2>2. /\ order' = order /\ recording' = recording
        /\ lists' = [lists EXCEPT ![r].cmds = Append(@, cmd),
                       ![r].storage = IF @ = 0 THEN Min(FreeStorage) ELSE @]
    BY <1>1 DEF Draw
  <2>3. cmd \in ParsedCmd
    BY DEF SInv, IInv, TypeOK, ParsedCmd
  <2> HIDE DEF cmd, r
  <2>4. \A j \in InUse \ {r} : lists'[j] = lists[j]
    BY <2>1, <2>2 DEF SInv, IInv, TypeOK
  <2>5. lists'[r].name = lists[r].name
    BY <2>1, <2>2 DEF SInv, IInv, TypeOK, DisplayList
  <2>6. lists'[r].cmds = Append(lists[r].cmds, cmd)
    BY <2>1, <2>2 DEF SInv, IInv, TypeOK, DisplayList
  <2>7. Replayed' = [k \in DOMAIN Replayed |->
                       IF Replayed[k].name = lists[r].name
                       THEN [Replayed[k] EXCEPT !.cmds = Append(lists[r].cmds, cmd)]
                       ELSE Replayed[k]]
    BY <2>1, <2>2, <2>4, <2>5, <2>6, EditFacts
  <2>8. \A k \in DOMAIN Replayed : Replayed[k].name = lists[r].name => Replayed[k].cmds = lists[r].cmds
    BY <2>1, SceneFacts, NamedOnce
  <2>9. Replayed' = [k \in DOMAIN Replayed |->
                       IF Replayed[k].name = lists[r].name
                       THEN [Replayed[k] EXCEPT !.cmds = Append(@, cmd)]
                       ELSE Replayed[k]]
    BY <2>7, <2>8
  <2>10. Recorded = lists[r].name /\ Recorded # "none"
    BY <1>1, RecordedFacts DEF r
  <2>11. Recorded' = Recorded
    BY <1>1, <2>2, <2>5 DEF Recorded, r
  <2> QED BY <2>3, <2>9, <2>10, <2>11 DEF TheScene!Record
<1>2. CASE ~(recording # 0 /\ Len(lists[recording].cmds) < MaxCmds)
  <2>1. lists' = lists /\ order' = order /\ recording' = recording
    BY <1>2 DEF Draw
  <2> QED BY <2>1 DEF TheScene!sceneVars, Replayed, Recorded
<1> QED BY <1>1, <1>2

\* Deleting a list takes out its line, and no other changes.
LEMMA DeleteScene ==
  ASSUME SInv, NEW c \in Clients, NEW name \in Names, Delete(c, name)
  PROVE  TheScene!Delete(name)
<1> DEFINE i == find_idx(name)
<1>1. /\ i \in InUse /\ lists[i].name = name /\ IInv /\ i # 0
      /\ InUse = 1..list_count /\ list_count \in Nat /\ InUse' = 1..list_count-1
  BY FindIdxFacts, Sizes DEF SInv, IInv, Delete, InUse
<1>2. /\ lists' = ClosedUp(i) /\ order' = OrderWithout(i) /\ list_count' = list_count - 1
      /\ recording' = AfterRemoval(i, recording)
  BY DEF Delete
<1> HIDE DEF i
<1>3. /\ \A j \in InUse' : Before(i, j) \in InUse \ {i} /\ lists'[j] = lists[Before(i, j)]
      /\ DOMAIN order' = InUse' /\ order' \in Seq(InUse')
  BY <1>1, <1>2, DeleteFacts
<1>4. PICK p \in InUse : order[p] = i /\ \A k \in InUse' : Before(i, order'[k]) = order[Before(p, k)]
  BY <1>1, <1>2, DeleteFacts
<1>5. \A k \in InUse' : order'[k] \in InUse'
  BY <1>3, ElementOfSeq, LenProperties
<1>6. Replayed' = [k \in InUse' |-> [name |-> lists'[order'[k]].name, cmds |-> lists'[order'[k]].cmds]]
  BY <1>3 DEF Replayed
<1>7. ASSUME NEW k \in InUse'
      PROVE  Replayed'[k] = Replayed[Before(p, k)]
  <2>1. lists'[order'[k]] = lists[order[Before(p, k)]]
    BY <1>3, <1>4, <1>5
  <2>2. Before(p, k) \in InUse
    BY <1>1 DEF Before
  <2>3. Replayed[Before(p, k)] = [name |-> lists[order[Before(p, k)]].name,
                                  cmds |-> lists[order[Before(p, k)]].cmds]
    BY <2>2, SceneFacts, OrderFacts DEF SInv, Replayed
  <2>4. Replayed'[k] = [name |-> lists'[order'[k]].name, cmds |-> lists'[order'[k]].cmds]
    BY <1>6
  <2> QED BY <2>1, <2>3, <2>4
<1>8. Replayed \in Seq(Drawn) /\ Len(Replayed) = list_count /\ DOMAIN Replayed = InUse
  BY SceneFacts
<1> DEFINE R == RemoveAt(Replayed, p)
<1>9. /\ R \in Seq(Drawn) /\ Len(R) = list_count - 1
      /\ \A k \in 1..list_count-1 : R[k] = IF k < p THEN Replayed[k] ELSE Replayed[k + 1]
  BY <1>1, <1>8, RemoveAtFacts
<1> HIDE DEF R
<1>10. DOMAIN R = InUse'
  BY <1>1, <1>9, LenProperties
<1>11. \A k \in InUse' : R[k] = Replayed[Before(p, k)]
  BY <1>1, <1>9 DEF Before
<1>12. R = [k \in InUse' |-> R[k]]
  <2>1. R \in [1..Len(R) -> Drawn]
    BY <1>9, LenProperties
  <2> QED BY <1>10, <2>1
<1>13. Replayed' = [k \in InUse' |-> Replayed'[k]]
  BY <1>6
<1>14. Replayed' = R
  BY <1>7, <1>11, <1>12, <1>13
<1>15. Replayed[p].name = name
  BY <1>1, <1>4, NamedOnce
<1>16. TheScene!RemoveAt(Replayed, p) = R
  BY DEF TheScene!RemoveAt, RemoveAt, R
<1>17. Recorded' = IF Recorded = name THEN "none" ELSE Recorded
  <2>1. CASE recording = 0
    <3>1. recording' = 0
      BY <1>1, <1>2, <2>1 DEF AfterRemoval
    <3> QED BY <2>1, <3>1 DEF Recorded
  <2>2. CASE recording = i
    <3>1. recording' = 0
      BY <1>1, <1>2, <2>2 DEF AfterRemoval
    <3>2. Recorded = name
      BY <1>1, <2>2 DEF Recorded
    <3> QED BY <3>1, <3>2 DEF Recorded
  <2>3. CASE recording # 0 /\ recording # i
    <3>1. recording \in InUse
      BY <2>3, RecordedFacts
    <3>2. recording' \in InUse' /\ Before(i, recording') = recording /\ recording' # 0
      BY <1>1, <1>2, <2>3, <3>1 DEF AfterRemoval, Before
    <3>3. Recorded' = Recorded
      BY <1>3, <2>3, <3>2 DEF Recorded
    <3>4. Recorded # name
      BY <1>1, <2>3, <3>1 DEF Recorded, SInv, OneListPerName
    <3> QED BY <3>3, <3>4
  <2> QED BY <2>1, <2>2, <2>3
<1> QED BY <1>8, <1>14, <1>15, <1>16, <1>17 DEF TheScene!Delete

\* A name that is mentioned and found is where its index is among the
\* candidates.
LEMMA MentionedFacts ==
  ASSUME SInv, NEW names \in SeqOf(Names, MaxMentions), NEW i \in InUse,
         NEW k \in Picked(Candidates(names)), Candidates(names)[k] = i
  PROVE  /\ lists[i].name \in TheScene!Range(names) <=> k <= Len(names)
         /\ lists[i].name \in TheScene!Range(names)
              => TheScene!Mention(names, lists[i].name) = k
<1> DEFINE all == Candidates(names)
           a   == lists[i].name
<1>1. /\ Len(names) \in Nat /\ DOMAIN names = 1..Len(names)
      /\ all \in Seq(0..list_count) /\ Len(all) = Len(names) + list_count
      /\ \A m \in 1..Len(names) : all[m] = find_idx(names[m])
  BY CandidatesFacts DEF SInv
<1>2. /\ DOMAIN all = 1..Len(all) /\ list_count \in Nat /\ 0 \notin InUse
      /\ IInv /\ OneListPerName
  BY <1>1, LenProperties, Sizes DEF SInv, IInv
<1>3. k \in 1..Len(all) /\ all[k] = i /\ \A j \in 1..k-1 : all[j] # i
  BY <1>2 DEF Picked
<1>4. ASSUME NEW m \in DOMAIN names
      PROVE  names[m] = a <=> all[m] = i
  <2>1. all[m] = find_idx(names[m])
    BY <1>1
  <2>2. CASE find_idx(names[m]) = 0
    <3>1. names[m] # a
      BY <2>2, FindIdxFacts DEF SInv, IInv
    <3> QED BY <1>2, <2>1, <2>2, <3>1
  <2>3. CASE find_idx(names[m]) # 0
    <3>1. find_idx(names[m]) \in InUse /\ lists[find_idx(names[m])].name = names[m]
      BY <2>3, FindIdxFacts, Sizes DEF SInv, IInv
    <3> QED BY <1>2, <2>1, <3>1 DEF OneListPerName
  <2> QED BY <2>2, <2>3
<1> HIDE DEF all
<1>5. TheScene!Range(names) = {names[m] : m \in DOMAIN names}
  BY DEF TheScene!Range
<1>6. CASE k <= Len(names)
  <2>1. k \in DOMAIN names /\ names[k] = a
    BY <1>1, <1>3, <1>4, <1>6
  <2>2. \A j \in DOMAIN names : names[j] = a => k <= j
    <3> SUFFICES ASSUME NEW j \in DOMAIN names, names[j] = a, ~(k <= j) PROVE FALSE
      BY <1>1, <1>3
    <3>1. j \in 1..k-1
      BY <1>1, <1>3
    <3> QED BY <1>3, <1>4, <3>1
  <2>3. \A l \in DOMAIN names :
          (names[l] = a /\ \A j \in DOMAIN names : names[j] = a => l <= j) => l = k
    <3> SUFFICES ASSUME NEW l \in DOMAIN names, names[l] = a,
                        \A j \in DOMAIN names : names[j] = a => l <= j
                 PROVE  l = k
      OBVIOUS
    <3>1. l <= k /\ k <= l
      BY <2>1, <2>2
    <3> QED BY <1>1, <1>3, <3>1
  <2>4. TheScene!Mention(names, a) = k
    BY <2>1, <2>2, <2>3 DEF TheScene!Mention
  <2> QED BY <1>5, <1>6, <2>1, <2>4
<1>7. CASE ~(k <= Len(names))
  <2>1. \A m \in DOMAIN names : names[m] # a
    <3> SUFFICES ASSUME NEW m \in DOMAIN names, names[m] = a PROVE FALSE
      OBVIOUS
    <3>1. m \in 1..k-1
      BY <1>1, <1>3, <1>7
    <3> QED BY <1>3, <1>4, <3>1
  <2> QED BY <1>5, <1>7, <2>1
<1> QED BY <1>6, <1>7

\* What is mentioned comes first, in the order of the first mentions.
LEMMA SetOrderScene ==
  ASSUME SInv, NEW names \in SeqOf(Names, MaxMentions), SetOrder(names)
  PROVE  TheScene!SetOrder(names)
<1> DEFINE all == Candidates(names)
           P   == Picked(all)
           L   == Len(names)
<1>1. PICK at \in [InUse -> P] :
        /\ \A m, n \in InUse : m < n => at[m] < at[n]
        /\ \A k \in P : \E m \in InUse : at[m] = k
        /\ order' = [m \in InUse |-> all[at[m]]]
  BY SetOrderFacts DEF SInv
<1>2. /\ P \in SUBSET Nat /\ \A k \in P : all[k] \in InUse
      /\ \A i \in InUse : \E k \in P : all[k] = i
      /\ \A k \in InUse : all[L + k] = order[k]
      /\ L \in Nat /\ Len(all) = L + list_count /\ all \in Seq(0..list_count)
  BY PickedFacts, CandidatesFacts DEF SInv
<1>3. lists' = lists /\ recording' = recording /\ list_count' = list_count /\ IInv'
  BY SetOrderIInv DEF SetOrder, SInv
<1>4. /\ InUse = 1..list_count /\ list_count \in Nat /\ DOMAIN Replayed = InUse
      /\ Len(Replayed) = list_count
      /\ \A i \in InUse : \E k \in InUse : order[k] = i
  BY SceneFacts, OrderFacts DEF SInv
<1>5. P \subseteq 1..L + list_count
  BY <1>2, LenProperties DEF Picked
<1>6. \A i \in InUse, k \in P : all[k] = i =>
        /\ lists[i].name \in TheScene!Range(names) <=> k <= L
        /\ lists[i].name \in TheScene!Range(names) => TheScene!Mention(names, lists[i].name) = k
  BY MentionedFacts
<1> HIDE DEF all, P, L
<1>7. /\ DOMAIN order' = InUse /\ DOMAIN Replayed' = InUse
      /\ \A m \in InUse : /\ at[m] \in P /\ order'[m] = all[at[m]] /\ order'[m] \in InUse
  BY <1>1, <1>2 DEF Replayed
<1>8. Replayed' = [m \in InUse |-> [name |-> lists[order'[m]].name, cmds |-> lists[order'[m]].cmds]]
  BY <1>3, <1>7 DEF Replayed
<1>9. \A k \in InUse : Replayed[k] = [name |-> lists[order[k]].name, cmds |-> lists[order[k]].cmds]
  BY <1>4 DEF Replayed
<1>10. Len(Replayed') = Len(Replayed)
  <2> DEFINE T == {Replayed'[m] : m \in InUse}
  <2>1. Replayed' \in [1..list_count -> T]
    BY <1>4, <1>7, <1>8
  <2> HIDE DEF T
  <2>2. Replayed' \in Seq(T)
    BY <1>4, <2>1, SeqDef
  <2>3. DOMAIN Replayed' = 1..Len(Replayed') /\ Len(Replayed') \in Nat
    BY <2>2, LenProperties
  <2> QED BY <1>4, <1>7, <2>3
<1>11. ASSUME NEW m \in InUse
       PROVE  \E k \in InUse : Replayed'[m] = Replayed[k]
  <2>1. PICK k \in InUse : order[k] = order'[m]
    BY <1>4, <1>7
  <2> QED BY <1>8, <1>9, <2>1
<1>12. ASSUME NEW k \in InUse
       PROVE  \E m \in InUse : Replayed'[m] = Replayed[k]
  <2>1. order[k] \in InUse
    BY SceneFacts
  <2>2. PICK q \in P : all[q] = order[k]
    BY <1>2, <2>1
  <2>3. PICK m \in InUse : at[m] = q
    BY <1>1
  <2>4. order'[m] = order[k]
    BY <1>7, <2>2, <2>3
  <2> QED BY <1>8, <1>9, <2>4
<1>13. TheScene!NamesIn(Replayed') = TheScene!NamesIn(Replayed)
  <2>1. TheScene!NamesIn(Replayed') = {Replayed'[m].name : m \in InUse}
    BY <1>7 DEF TheScene!NamesIn
  <2>2. TheScene!NamesIn(Replayed) = {Replayed[m].name : m \in InUse}
    BY <1>4 DEF TheScene!NamesIn
  <2>3. ASSUME NEW m \in InUse
        PROVE  Replayed'[m].name \in {Replayed[k].name : k \in InUse}
    BY <1>11
  <2>4. ASSUME NEW k \in InUse
        PROVE  Replayed[k].name \in {Replayed'[m].name : m \in InUse}
    <3>1. PICK m \in InUse : Replayed'[m] = Replayed[k]
      BY <1>12
    <3>2. Replayed'[m].name = Replayed[k].name
      BY <3>1
    <3> QED BY <3>2
  <2> QED BY <2>1, <2>2, <2>3, <2>4
<1>14. ASSUME NEW m \in InUse, NEW n \in InUse, m < n
       PROVE  LET a == Replayed'[m].name
                  b == Replayed'[n].name IN
              IF b \in TheScene!Range(names)
              THEN a \in TheScene!Range(names) /\ TheScene!Mention(names, a) < TheScene!Mention(names, b)
              ELSE a \notin TheScene!Range(names) =>
                     \E k, l \in DOMAIN Replayed :
                        k < l /\ Replayed[k].name = a /\ Replayed[l].name = b
  <2> DEFINE i == order'[m]
             j == order'[n]
  <2>1. /\ i \in InUse /\ j \in InUse /\ at[m] \in P /\ at[n] \in P
        /\ all[at[m]] = i /\ all[at[n]] = j /\ at[m] < at[n]
        /\ at[m] \in Nat /\ at[n] \in Nat
    BY <1>1, <1>2, <1>7, <1>14
  <2>2. Replayed'[m].name = lists[i].name /\ Replayed'[n].name = lists[j].name
    BY <1>8
  <2> HIDE DEF i, j
  <2>3. /\ lists[i].name \in TheScene!Range(names) <=> at[m] <= L
        /\ lists[i].name \in TheScene!Range(names) => TheScene!Mention(names, lists[i].name) = at[m]
    BY <1>6, <2>1
  <2>4. /\ lists[j].name \in TheScene!Range(names) <=> at[n] <= L
        /\ lists[j].name \in TheScene!Range(names) => TheScene!Mention(names, lists[j].name) = at[n]
    BY <1>6, <2>1
  <2>5. CASE at[n] <= L
    <3>1. at[m] <= L
      BY <1>2, <2>1, <2>5
    <3> QED BY <2>1, <2>2, <2>3, <2>4, <2>5, <3>1
  <2>6. CASE ~(at[n] <= L) /\ ~(at[m] <= L)
    <3> DEFINE u == at[m]
               v == at[n]
               k == u - L
               l == v - L
    <3>0. u \in 1..L + list_count /\ v \in 1..L + list_count /\ u < v /\ L \in Nat
      BY <1>2, <1>5, <2>1
    <3>0a. ~(u <= L) /\ ~(v <= L)
      BY <2>6
    <3> HIDE DEF u, v
    <3>1. k \in InUse /\ l \in InUse /\ k < l /\ u = L + k /\ v = L + l
      BY <1>4, <3>0, <3>0a
    <3> HIDE DEF k, l
    <3>2. order[k] = i /\ order[l] = j
      BY <1>2, <2>1, <3>1 DEF u, v
    <3>3. Replayed[k].name = lists[i].name /\ Replayed[l].name = lists[j].name
      BY <3>1, <3>2, SceneFacts
    <3> QED BY <1>4, <2>2, <2>4, <2>6, <3>1, <3>3
  <2>7. CASE ~(at[n] <= L) /\ at[m] <= L
    BY <2>2, <2>3, <2>4, <2>7
  <2> QED BY <2>5, <2>6, <2>7
<1>15. Recorded' = Recorded
  BY <1>3 DEF Recorded
<1>16. \A i \in DOMAIN Replayed' : \E j \in DOMAIN Replayed : Replayed'[i] = Replayed[j]
  BY <1>4, <1>7, <1>11
<1>17. \A i, j \in DOMAIN Replayed' : i < j =>
         LET a == Replayed'[i].name
             b == Replayed'[j].name IN
         IF b \in TheScene!Range(names)
         THEN a \in TheScene!Range(names) /\ TheScene!Mention(names, a) < TheScene!Mention(names, b)
         ELSE a \notin TheScene!Range(names) =>
                \E k, l \in DOMAIN Replayed :
                   k < l /\ Replayed[k].name = a /\ Replayed[l].name = b
  BY <1>7, <1>14
<1> QED BY <1>10, <1>13, <1>15, <1>16, <1>17 DEF TheScene!SetOrder

\* Names stay the keys of the lists: none is cut, and a list is made only for
\* a name that no list has.
LEMMA NextSInv == SInv /\ LongNames = {} /\ [Next]_vars => SInv'
<1> SUFFICES ASSUME SInv, LongNames = {}, [Next]_vars PROVE SInv'
  OBVIOUS
<1> DEFINE Keys == OneListPerName /\ \A i \in InUse : lists[i].name \in Names
<1>0. IInv' /\ IInv /\ TypeOK /\ Keys
  BY NextIInv DEF SInv, IInv
<1>1. ASSUME list_count' = list_count, \A i \in InUse : lists'[i].name = lists[i].name
      PROVE  Keys'
  BY <1>0, <1>1 DEF OneListPerName, InUse
<1>2. ASSUME NEW c \in Clients, NEW name \in Names, Begin(c, name) PROVE Keys'
  <2>1. CASE find_idx(name) # 0
    <3>1. /\ lists' = [lists EXCEPT ![find_idx(name)].cmds = <<>>] /\ order' = order
          /\ list_count' = list_count
      BY <1>2, <2>1 DEF Begin
    <3> QED BY <1>1, <2>1, <3>1, EmptiedFacts
  <2>2. CASE find_idx(name) = 0
    <3> DEFINE n == list_count + 1
    <3>1. /\ lists' = [lists EXCEPT ![n] = Fresh(n, name)] /\ list_count' = n
          /\ list_count < MaxLists
      BY <1>2, <2>2 DEF Begin
    <3>2. n \in Index /\ n \notin InUse /\ InUse' = InUse \cup {n} /\ InUse \subseteq Index
      BY <1>0, <3>1, Sizes DEF InUse
    <3>3. lists'[n].name = name /\ \A i \in InUse : lists'[i] = lists[i]
      BY <1>0, <3>1, <3>2 DEF TypeOK, Fresh, Stored
    <3>4. \A i \in InUse : lists[i].name # name
      BY <1>0, <2>2, FindIdxFacts
    <3> QED BY <1>0, <3>2, <3>3, <3>4 DEF OneListPerName
  <2> QED BY <2>1, <2>2
<1>3. ASSUME NEW c \in Clients, NEW name \in Names, Delete(c, name) PROVE Keys'
  <2> DEFINE i == find_idx(name)
  <2>1. i \in InUse /\ list_count \in Nat
    BY <1>0, <1>3, FindIdxFacts, Sizes DEF Delete
  <2>2. lists' = ClosedUp(i) /\ order' = OrderWithout(i) /\ list_count' = list_count - 1
    BY <1>3 DEF Delete
  <2> HIDE DEF i
  <2>3. \A j \in InUse' : Before(i, j) \in InUse /\ lists'[j] = lists[Before(i, j)]
    BY <1>0, <2>1, <2>2, DeleteFacts
  <2>4. \A j, k \in InUse' : j # k => Before(i, j) # Before(i, k)
    BY <2>1, <2>2 DEF Before, InUse
  <2> QED BY <1>0, <2>3, <2>4 DEF OneListPerName
<1>4. ASSUME NEW c \in Clients, Draw(c) PROVE Keys'
  <2>1. list_count' = list_count
    BY <1>4 DEF Draw
  <2>2. \A i \in InUse : lists'[i].name = lists[i].name
    <3>1. CASE recording # 0 /\ Len(lists[recording].cmds) < MaxCmds
      <4>1. recording \in Index /\ InUse \subseteq Index
        BY <1>0, <3>1, Sizes DEF TypeOK
      <4>2. lists' = [lists EXCEPT ![recording].cmds = Append(@, [client |-> c, target |-> target[c]]),
                        ![recording].storage = IF @ = 0 THEN Min(FreeStorage) ELSE @]
        BY <1>4, <3>1 DEF Draw
      <4> QED BY <1>0, <4>1, <4>2 DEF TypeOK, DisplayList
    <3>2. CASE ~(recording # 0 /\ Len(lists[recording].cmds) < MaxCmds)
      BY <1>4, <3>2 DEF Draw
    <3> QED BY <3>1, <3>2
  <2> QED BY <1>1, <2>1, <2>2
<1>5. ASSUME NEW name \in Names, Clear(name) PROVE Keys'
  <2>1. /\ lists' = [lists EXCEPT ![find_idx(name)].cmds = <<>>] /\ order' = order
        /\ list_count' = list_count /\ find_idx(name) # 0
    BY <1>5 DEF Clear
  <2> QED BY <1>1, <2>1, EmptiedFacts
<1>6. ASSUME \/ \E c \in Clients : End(c)
             \/ \E names \in SeqOf(Names, MaxMentions) : SetOrder(names)
             \/ UNCHANGED vars
      PROVE  Keys'
  BY <1>1, <1>6 DEF End, SetOrder, vars
<1> QED BY <1>0, <1>2, <1>3, <1>4, <1>5, <1>6 DEF Next, SInv

\* There is no list yet.
LEMMA InitSInv == Init => SInv
BY InitIInv DEF Init, SInv, OneListPerName, InUse

\* As long as no name is too long to be stored, no name has two lists.
THEOREM NamesAreKeys ==
  ASSUME LongNames = {}
  PROVE  Spec => []OneListPerName
<1>1. SInv => OneListPerName
  BY DEF SInv
<1> QED BY InitSInv, NextSInv, <1>1, PTL DEF Spec

\* As long as no name is too long to be stored, the array that is closed up,
\* its order and its recording index behave like a scene of named lists: a list
\* is recorded, cleared, deleted and moved by its name, and the others keep
\* their commands and their order.
THEOREM SceneRefinement ==
  ASSUME LongNames = {}
  PROVE  Spec => ImplementsScene
<1>1. Init => TheScene!SceneInit
  <2> SUFFICES ASSUME Init PROVE Replayed = <<>> /\ Recorded = "none"
    BY DEF TheScene!SceneInit
  <2>1. Replayed \in Seq(Drawn) /\ Len(Replayed) = 0
    BY InitSInv, SceneFacts DEF Init
  <2>2. Replayed = <<>>
    BY <2>1, EmptySeq
  <2> QED BY <2>2 DEF Init, Recorded
<1>2. SInv /\ [Next]_vars => [TheScene!SceneNext]_TheScene!sceneVars
  <2> SUFFICES ASSUME SInv, [Next]_vars
               PROVE  TheScene!SceneNext \/ UNCHANGED TheScene!sceneVars
    OBVIOUS
  <2>1. ASSUME NEW c \in Clients, NEW name \in Names, Begin(c, name)
        PROVE  TheScene!SceneNext
    BY <2>1, BeginScene DEF TheScene!SceneNext
  <2>2. ASSUME NEW c \in Clients, End(c)
        PROVE  TheScene!SceneNext
    <3>1. TheScene!End
      BY <2>2 DEF End, TheScene!End, Recorded, Replayed
    <3> QED BY <3>1 DEF TheScene!SceneNext
  <2>3. ASSUME NEW c \in Clients, Draw(c)
        PROVE  TheScene!SceneNext \/ UNCHANGED TheScene!sceneVars
    BY <2>3, DrawScene DEF TheScene!SceneNext
  <2>4. ASSUME NEW name \in Names, Clear(name)
        PROVE  TheScene!SceneNext
    <3>1. /\ lists' = [lists EXCEPT ![find_idx(name)].cmds = <<>>] /\ order' = order
          /\ recording' = recording /\ find_idx(name) # 0
      BY <2>4 DEF Clear
    <3>2. Recorded' = Recorded
      BY <3>1, EmptiedFacts, RecordedFacts DEF Recorded
    <3>3. TheScene!Clear(name)
      BY <3>1, <3>2, EmptiedFacts DEF TheScene!Clear
    <3> QED BY <3>3 DEF TheScene!SceneNext
  <2>5. ASSUME NEW c \in Clients, NEW name \in Names, Delete(c, name)
        PROVE  TheScene!SceneNext
    BY <2>5, DeleteScene DEF TheScene!SceneNext
  <2>6. ASSUME NEW names \in SeqOf(Names, MaxMentions), SetOrder(names)
        PROVE  TheScene!SceneNext
    <3>1. names \in TheScene!SeqOf(Names, MaxMentions)
      BY DEF SeqOf, TheScene!SeqOf
    <3> QED BY <2>6, <3>1, SetOrderScene DEF TheScene!SceneNext
  <2>7. CASE UNCHANGED vars
    BY <2>7 DEF vars, TheScene!sceneVars, Replayed, Recorded
  <2> QED BY <2>1, <2>2, <2>3, <2>4, <2>5, <2>6, <2>7 DEF Next
<1> QED BY InitSInv, NextSInv, <1>1, <1>2, PTL DEF Spec, ImplementsScene, TheScene!SceneSpec
=============================================================================
