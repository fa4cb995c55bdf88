------------------------- MODULE UploadRegistryProofs -------------------------
(***************************************************************************)
(* Theorems about UploadRegistry, for any number of slots and uploads and  *)
(* chunks of any sizes and numbers.                                        *)
(***************************************************************************)
EXTENDS UploadRegistry, SequenceTheorems, TLAPS

\* A new id is greater than every id in use.
IdsAreOld == \A i \in Active : slots[i].id <= nextId

\* A slot counts the pieces in its buffer.
CountsPieces == \A i \in Active : Len(content[slots[i].buf]) = slots[i].next

\* The pieces in a buffer have the numbers that the code compared: those that
\* the conversion to int makes of what the client sent.
NumberedInTurn == \A b \in heap : \A k \in DOMAIN content[b] : ToInt(content[b][k].seq) = k - 1

IInv == TypeOK /\ IdsAreOld /\ BuffersAreOwned

Contents == CommittedIsWhole /\ CountsPieces /\ NumberedInTurn

(***************************************************************************)
(* The steps                                                               *)
(***************************************************************************)

LEMMA Numbers == TypeOK => nextId \in Nat /\ nextId <= MaxUploads /\ MaxUploads \in Nat
BY BoundsAssumption DEF TypeOK

LEMMA BeginKeeps ==
  ASSUME IInv, NEW total \in Totals, BeginUpload(total)
  PROVE  IInv' /\ \A b \in heap : content'[b] = content[b]
<1> USE DEF IInv
<1> DEFINE New(buf) == [active |-> TRUE, id |-> nextId + 1, buf |-> buf,
                        total |-> total, received |-> 0, next |-> 0]
<1>1. PICK i \in Slot \ Active, buf \in Buffer \ heap :
         /\ slots' = [slots EXCEPT ![i] = New(buf)]
         /\ heap' = heap \cup {buf}
         /\ content' = [content EXCEPT ![buf] = <<>>]
  BY DEF BeginUpload, First
<1>2. /\ nextId < MaxUploads /\ nextId' = nextId + 1
      /\ UNCHANGED <<queue, main, resources>>
  BY DEF BeginUpload
<1> DEFINE s == New(buf)
<1>4. /\ nextId + 1 \in UploadId /\ nextId + 1 \in 0..MaxUploads
      /\ 0 \in 0..MaxChunks
  BY <1>2, Numbers, BoundsAssumption DEF UploadId
<1>5. s \in PendingUpload /\ s.active /\ s.buf = buf /\ s.id = nextId + 1
  BY <1>1, <1>4 DEF PendingUpload
<1>6. slots' = [slots EXCEPT ![i] = s]
  BY <1>1
<1> HIDE DEF s
<1>7. slots'[i] = s /\ \A j \in Slot : j # i => slots'[j] = slots[j]
  BY <1>6 DEF TypeOK
<1>8. Active' = Active \cup {i} /\ \A j \in Active : slots'[j] = slots[j] /\ j # i /\ j \in Slot
  BY <1>1, <1>5, <1>7 DEF Active
<1>9. TypeOK'
  <2>1. slots' \in [Slot -> PendingUpload]
    BY <1>5, <1>6 DEF TypeOK
  <2>2. \A j \in Slot : ~slots'[j].active => slots'[j] = Free
    BY <1>5, <1>7 DEF TypeOK
  <2>3. content' \in [Buffer -> Seq(Piece)]
    BY <1>1, EmptySeq DEF TypeOK
  <2> QED BY <1>1, <1>2, <1>4, <2>1, <2>2, <2>3 DEF TypeOK
<1>10. \A j \in Active : slots[j].id <= nextId /\ slots[j].id \in Nat
  BY DEF IdsAreOld, Active, TypeOK, PendingUpload, UploadId
<1>11. IdsAreOld'
  BY <1>2, <1>5, <1>7, <1>8, <1>10, Numbers DEF IdsAreOld
<1>12. SlotBuffers' = SlotBuffers \cup {buf} /\ InHand' = InHand
  BY <1>2, <1>5, <1>7, <1>8 DEF SlotBuffers, InHand
<1>13. BuffersAreOwned'
  <2>1. /\ heap' = SlotBuffers' \cup InHand' \cup resources'
        /\ SlotBuffers' \cap InHand' = {}
        /\ SlotBuffers' \cap resources' = {}
        /\ InHand' \cap resources' = {}
    BY <1>1, <1>2, <1>12 DEF BuffersAreOwned
  <2>2. \A j \in Active : slots[j].buf # buf /\ slots[j].id # nextId + 1
    BY <1>1, <1>10, Numbers DEF BuffersAreOwned, SlotBuffers
  <2>3. \A j, k \in Active' : j # k => /\ slots'[j].buf # slots'[k].buf
                                       /\ slots'[j].id # slots'[k].id
    BY <1>5, <1>7, <1>8, <2>2 DEF BuffersAreOwned
  <2> QED BY <2>1, <2>3 DEF BuffersAreOwned
<1>14. \A b \in heap : content'[b] = content[b]
  BY <1>1 DEF TypeOK
<1> QED BY <1>9, <1>11, <1>13, <1>14

\* A slot is given up: its buffer is the caller's.
LEMMA SlotFreed ==
  ASSUME IInv, NEW i \in Active, slots' = [slots EXCEPT ![i] = Free]
  PROVE  /\ slots' \in [Slot -> PendingUpload]
         /\ \A j \in Slot : ~slots'[j].active => slots'[j] = Free
         /\ Active' = Active \ {i}
         /\ \A j \in Active' : slots'[j] = slots[j]
         /\ slots[i].buf \in SlotBuffers /\ SlotBuffers \subseteq heap
         /\ SlotBuffers' = SlotBuffers \ {slots[i].buf}
<1> USE DEF IInv
<1>1. i \in Slot /\ slots'[i] = Free /\ \A j \in Slot : j # i => slots'[j] = slots[j]
  BY DEF Active, TypeOK
<1>2. Free \in PendingUpload /\ ~Free.active
  BY BoundsAssumption DEF Free, PendingUpload
<1>3. slots' \in [Slot -> PendingUpload] /\ \A j \in Slot : ~slots'[j].active => slots'[j] = Free
  BY <1>1, <1>2 DEF TypeOK
<1>4. Active' = Active \ {i} /\ \A j \in Active' : slots'[j] = slots[j]
  BY <1>1, <1>2 DEF Active
<1>5. slots[i].buf \in SlotBuffers /\ SlotBuffers \subseteq heap
  BY DEF SlotBuffers, BuffersAreOwned
<1>6. SlotBuffers' = SlotBuffers \ {slots[i].buf}
  BY <1>4 DEF SlotBuffers, BuffersAreOwned
<1> QED BY <1>3, <1>4, <1>5, <1>6

LEMMA ChunkKeeps ==
  ASSUME IInv, NEW id \in UploadId, NEW chunk \in Chunk, UploadChunk(id, chunk)
  PROVE  IInv' /\ \A b \in heap \ SlotBuffers : content'[b] = content[b]
<1> USE DEF IInv
<1>1. PICK i \in SlotOf(id) :
         /\ slots[i].next < MaxChunks
         /\ slots' = [slots EXCEPT ![i].received = @ + chunk.len, ![i].next = @ + 1]
         /\ content' = [content EXCEPT ![slots[i].buf] =
                          Append(@, [seq |-> chunk.seq, len |-> chunk.len,
                                     at |-> slots[i].received])]
         /\ UNCHANGED <<nextId, heap, queue, main, resources>>
  BY DEF UploadChunk
<1>2. /\ i \in Slot /\ i \in Active /\ slots[i] \in PendingUpload /\ slots[i].active
      /\ slots[i].buf \in SlotBuffers
  BY DEF SlotOf, Active, TypeOK, SlotBuffers
<1> DEFINE s == [active |-> TRUE, id |-> slots[i].id, buf |-> slots[i].buf,
                 total |-> slots[i].total, received |-> slots[i].received + chunk.len,
                 next |-> slots[i].next + 1]
<1>3. s \in PendingUpload
  <2>1. chunk.len \in Nat /\ slots[i].received \in Nat
    BY <1>2, DataAssumption DEF Chunk, PendingUpload
  <2>2. slots[i].next + 1 \in 0..MaxChunks
    BY <1>1, <1>2, BoundsAssumption DEF PendingUpload
  <2> QED BY <1>2, <2>1, <2>2 DEF PendingUpload
<1>4. slots' = [slots EXCEPT ![i] = s]
  BY <1>1, <1>2 DEF TypeOK, PendingUpload
<1>5. s.active /\ s.buf = slots[i].buf /\ s.id = slots[i].id
  OBVIOUS
<1> HIDE DEF s
<1>6. slots'[i] = s /\ \A j \in Slot : j # i => slots'[j] = slots[j]
  BY <1>2, <1>4 DEF TypeOK
<1>7. ASSUME NEW j \in Slot
      PROVE  /\ slots'[j].active <=> slots[j].active
             /\ slots'[j].buf = slots[j].buf
             /\ slots'[j].id = slots[j].id
  <2>1. CASE j = i
    BY <1>2, <1>5, <1>6, <2>1
  <2>2. CASE j # i
    BY <1>6, <2>2
  <2> QED BY <2>1, <2>2
<1>8. Active' = Active /\ SlotBuffers' = SlotBuffers /\ InHand' = InHand
  BY <1>1, <1>7 DEF Active, SlotBuffers, InHand
<1> DEFINE piece == [seq |-> chunk.seq, len |-> chunk.len, at |-> slots[i].received]
<1>9. \A b \in Buffer : content[b] \in Seq(Piece) /\ Append(content[b], piece) \in Seq(Piece)
  <2>1. piece \in Piece
    BY <1>2 DEF Piece, Chunk, PendingUpload
  <2> QED BY <2>1, AppendProperties DEF TypeOK
<1> HIDE DEF piece
<1>10. TypeOK'
  <2>1. slots' \in [Slot -> PendingUpload]
    BY <1>3, <1>4 DEF TypeOK
  <2>2. \A j \in Slot : ~slots'[j].active => slots'[j] = Free
    BY <1>5, <1>6 DEF TypeOK
  <2>3. content' \in [Buffer -> Seq(Piece)]
    BY <1>1, <1>9 DEF TypeOK, piece
  <2> QED BY <1>1, <2>1, <2>2, <2>3 DEF TypeOK
<1>11. IdsAreOld' /\ BuffersAreOwned'
  <2>1. \A j \in Active : slots'[j].buf = slots[j].buf /\ slots'[j].id = slots[j].id
    BY <1>7 DEF Active
  <2>2. IdsAreOld'
    BY <1>1, <1>8, <2>1 DEF IdsAreOld
  <2>3. \A j, k \in Active' : j # k => /\ slots'[j].buf # slots'[k].buf
                                       /\ slots'[j].id # slots'[k].id
    BY <1>8, <2>1 DEF BuffersAreOwned
  <2>4. BuffersAreOwned'
    BY <1>1, <1>8, <2>3 DEF BuffersAreOwned
  <2> QED BY <2>2, <2>4
<1>12. \A b \in heap \ SlotBuffers : content'[b] = content[b]
  BY <1>1, <1>2 DEF TypeOK
<1> QED BY <1>10, <1>11, <1>12

LEMMA AbortKeeps ==
  ASSUME IInv, NEW id \in UploadId, AbortUpload(id)
  PROVE  IInv'
<1> USE DEF IInv
<1>1. PICK i \in SlotOf(id) :
         heap' = heap \ {slots[i].buf} /\ slots' = [slots EXCEPT ![i] = Free]
  BY DEF AbortUpload
<1>2. UNCHANGED <<nextId, content, queue, main, resources>> /\ i \in Active
  BY DEF AbortUpload, SlotOf
<1>3. /\ slots' \in [Slot -> PendingUpload]
      /\ \A j \in Slot : ~slots'[j].active => slots'[j] = Free
      /\ Active' = Active \ {i}
      /\ \A j \in Active' : slots'[j] = slots[j]
      /\ slots[i].buf \in SlotBuffers
      /\ SlotBuffers' = SlotBuffers \ {slots[i].buf}
  <2> HIDE DEF IInv
  <2> QED BY <1>1, <1>2, SlotFreed
<1>4. TypeOK'
  BY <1>1, <1>2, <1>3 DEF TypeOK
<1>5. IdsAreOld'
  BY <1>2, <1>3 DEF IdsAreOld
<1>6. InHand' = InHand
  BY <1>2 DEF InHand
<1>7. BuffersAreOwned'
  BY <1>1, <1>2, <1>3, <1>6 DEF BuffersAreOwned
<1> QED BY <1>4, <1>5, <1>7

\* The buffer goes from its slot into the main thread's hands.
LEMMA TakeKeeps ==
  ASSUME IInv, CommitTake
  PROVE  IInv'
<1> USE DEF IInv
<1>1. /\ main = Idle /\ queue # <<>> /\ queue' = Tail(queue)
      /\ UNCHANGED <<nextId, heap, content, resources>>
      /\ \/ \E i \in SlotOf(Head(queue).id) : TakeOut(i)
         \/ UNCHANGED <<slots, main>>
  BY DEF CommitTake
<1>2. /\ queue' \in Seq([id : UploadId, type : Type]) /\ Len(queue') <= MaxQueue
      /\ Head(queue).type \in Type
  <2> DEFINE Q == [id : UploadId, type : Type]
  <2>1. queue \in Seq(Q) /\ Len(queue) <= MaxQueue /\ MaxQueue \in Nat
    BY BoundsAssumption DEF TypeOK
  <2> HIDE DEF Q, IInv
  <2>2. /\ Head(queue) \in Q /\ Tail(queue) \in Seq(Q)
        /\ Len(queue) \in Nat /\ Len(Tail(queue)) = Len(queue) - 1
    BY <1>1, <2>1, HeadTailProperties, LenProperties
  <2> QED BY <1>1, <2>1, <2>2 DEF Q
<1>3. ASSUME UNCHANGED <<slots, main>> PROVE IInv'
  <2>1. TypeOK'
    BY <1>1, <1>2, <1>3 DEF TypeOK
  <2> QED BY <1>1, <1>3, <2>1
          DEF IdsAreOld, BuffersAreOwned, SlotBuffers, InHand, Active
<1>4. ASSUME NEW i \in SlotOf(Head(queue).id), TakeOut(i) PROVE IInv'
  <2>1. /\ i \in Active /\ slots' = [slots EXCEPT ![i] = Free]
        /\ main' = [buf |-> slots[i].buf, type |-> Head(queue).type, total |-> slots[i].total]
    BY <1>4 DEF TakeOut, SlotOf
  <2>2. /\ slots' \in [Slot -> PendingUpload]
        /\ \A j \in Slot : ~slots'[j].active => slots'[j] = Free
        /\ Active' = Active \ {i}
        /\ \A j \in Active' : slots'[j] = slots[j]
        /\ slots[i].buf \in SlotBuffers /\ SlotBuffers \subseteq heap
        /\ SlotBuffers' = SlotBuffers \ {slots[i].buf}
    <3> HIDE DEF IInv
    <3> QED BY <2>1, SlotFreed
  <2>3. slots[i].buf \in Buffer
    BY <2>2 DEF TypeOK
  <2>4. TypeOK'
    BY <1>1, <1>2, <2>1, <2>2, <2>3 DEF TypeOK
  <2>5. IdsAreOld'
    BY <1>1, <2>2 DEF IdsAreOld
  <2>6. InHand = {} /\ InHand' = {slots[i].buf}
    <3>1. main'.buf = slots[i].buf /\ main'.buf # 0
      BY <2>1, <2>3 DEF Buffer
    <3>2. main' # Idle
      BY <3>1 DEF Idle
    <3> QED BY <1>1, <3>1, <3>2 DEF InHand
  <2>7. BuffersAreOwned'
    BY <1>1, <2>2, <2>6 DEF BuffersAreOwned
  <2> QED BY <2>4, <2>5, <2>7
<1> QED BY <1>1, <1>3, <1>4

\* The buffer in hand is freed or becomes a resource's; a resource's is freed.
LEMMA DisposeKeeps ==
  ASSUME IInv, Finish \/ (\E b \in Buffer : Unload(b))
  PROVE  IInv'
<1> USE DEF IInv
<1> DEFINE Given(b) ==
             /\ b \in heap
             /\ \/ /\ InHand = {b}
                   /\ heap' = heap /\ resources' = resources \cup {b}
                \/ /\ InHand = {b}
                   /\ heap' = heap \ {b} /\ resources' = resources
                \/ /\ InHand = {} /\ b \in resources
                   /\ heap' = heap \ {b} /\ resources' = resources \ {b}
<1>1. UNCHANGED <<slots, nextId, content, queue>> /\ main' = Idle
  BY DEF Finish, Unload
<1>2. PICK b : Given(b)
  <2>1. ASSUME Finish PROVE Given(main.buf)
    <3>1. InHand = {main.buf} /\ main.buf \in heap
      BY <2>1 DEF Finish, InHand, BuffersAreOwned
    <3> QED BY <2>1, <3>1 DEF Finish
  <2>2. ASSUME NEW b \in Buffer, Unload(b) PROVE Given(b)
    <3>1. InHand = {} /\ b \in resources /\ b \in heap
      BY <2>2 DEF Unload, InHand, BuffersAreOwned
    <3> QED BY <2>2, <3>1 DEF Unload
  <2> QED BY <2>1, <2>2
<1>3. InHand' = {} /\ SlotBuffers' = SlotBuffers /\ Active' = Active
  BY <1>1 DEF InHand, SlotBuffers, Active
<1>4. TypeOK'
  BY <1>1, <1>2 DEF TypeOK, Idle
<1>5. IdsAreOld'
  BY <1>1, <1>3 DEF IdsAreOld
<1>6. BuffersAreOwned'
  BY <1>1, <1>2, <1>3 DEF BuffersAreOwned
<1> QED BY <1>4, <1>5, <1>6

LEMMA CommitKeeps ==
  ASSUME IInv, NEW id \in UploadId, NEW type \in Type, CommitUpload(id, type)
  PROVE  IInv'
<1> USE DEF IInv
<1>1. /\ Len(queue) < MaxQueue
      /\ queue' = Append(queue, [id |-> id, type |-> type])
      /\ UNCHANGED <<slots, nextId, heap, content, main, resources>>
  BY DEF CommitUpload
<1>2. queue' \in Seq([id : UploadId, type : Type]) /\ Len(queue') <= MaxQueue
  <2>1. Len(queue) \in Nat /\ MaxQueue \in Nat /\ queue \in Seq([id : UploadId, type : Type])
    BY BoundsAssumption, LenProperties DEF TypeOK
  <2> QED BY <1>1, <2>1, AppendProperties
<1>3. TypeOK'
  BY <1>1, <1>2 DEF TypeOK
<1> QED BY <1>1, <1>3
        DEF IdsAreOld, BuffersAreOwned, SlotBuffers, InHand, Active

(***************************************************************************)
(* The theorems                                                            *)
(***************************************************************************)

LEMMA InitIInv == Init => IInv
<1> SUFFICES ASSUME Init PROVE IInv
  OBVIOUS
<1>1. Free \in PendingUpload /\ ~Free.active
  BY BoundsAssumption DEF Free, PendingUpload
<1>2. TypeOK
  BY <1>1, BoundsAssumption DEF Init, TypeOK, Idle
<1>3. Active = {}
  BY <1>1 DEF Init, Active
<1>4. IdsAreOld
  BY <1>3 DEF IdsAreOld
<1>5. BuffersAreOwned
  BY <1>3 DEF Init, BuffersAreOwned, SlotBuffers, InHand
<1> QED BY <1>2, <1>4, <1>5 DEF IInv

LEMMA NextIInv == IInv /\ [Next]_vars => IInv'
<1> SUFFICES ASSUME IInv, [Next]_vars PROVE IInv'
  OBVIOUS
<1>1. ASSUME NEW total \in Totals, BeginUpload(total) PROVE IInv'
  BY <1>1, BeginKeeps
<1>2. ASSUME NEW id \in UploadId, NEW chunk \in Chunk, UploadChunk(id, chunk) PROVE IInv'
  BY <1>2, ChunkKeeps
<1>3. ASSUME NEW id \in UploadId, AbortUpload(id) PROVE IInv'
  BY <1>3, AbortKeeps
<1>4. ASSUME NEW id \in UploadId, NEW type \in Type, CommitUpload(id, type) PROVE IInv'
  BY <1>4, CommitKeeps
<1>5. ASSUME CommitTake PROVE IInv'
  BY <1>5, TakeKeeps
<1>6. ASSUME Finish \/ (\E b \in Buffer : Unload(b)) PROVE IInv'
  BY <1>6, DisposeKeeps
<1>7. ASSUME UNCHANGED vars PROVE IInv'
  BY <1>7 DEF vars, IInv, TypeOK, IdsAreOld, BuffersAreOwned, SlotBuffers, InHand, Active
<1> QED BY <1>1, <1>2, <1>3, <1>4, <1>5, <1>6, <1>7 DEF Next

\* The inductive invariant holds in every state.
THEOREM Invariant == Spec => []IInv
BY InitIInv, NextIInv, PTL DEF Spec

(***************************************************************************)
(* What the buffers hold                                                   *)
(***************************************************************************)

\* A piece that is copied to the end of the others.
LEMMA CoversAppend ==
  ASSUME NEW p \in Seq(Piece), NEW n \in Nat, Covers(p, n),
         NEW piece \in Piece, piece.at = n
  PROVE  Covers(Append(p, piece), n + piece.len)
<1> DEFINE q == Append(p, piece)
<1>1. /\ Len(p) \in Nat /\ DOMAIN p = 1..Len(p)
      /\ Len(q) = Len(p) + 1 /\ DOMAIN q = 1..Len(p) + 1
      /\ q[Len(p) + 1] = piece
      /\ \A k \in 1..Len(p) : q[k] = p[k]
  BY LenProperties, AppendProperties
<1> HIDE DEF q
<1>2. \A k \in 1..Len(p) : k - 1 = 0 \/ k - 1 \in 1..Len(p)
  BY <1>1
<1>3. Len(p) = 0 \/ Len(p) \in 1..Len(p)
  BY <1>1
<1>4. Covers(q, n + piece.len)
  BY <1>1, <1>2, <1>3 DEF Covers
<1> QED BY <1>4 DEF q

LEMMA BeginContents ==
  ASSUME IInv, Contents, NEW total \in Totals, BeginUpload(total)
  PROVE  Contents'
<1> USE DEF IInv
<1>1. PICK i \in Slot \ Active, buf \in Buffer \ heap :
         /\ slots' = [slots EXCEPT ![i] = [active |-> TRUE, id |-> nextId + 1, buf |-> buf,
                                          total |-> total, received |-> 0, next |-> 0]]
         /\ heap' = heap \cup {buf}
         /\ content' = [content EXCEPT ![buf] = <<>>]
  BY DEF BeginUpload, First
<1>2. main' = main /\ content'[buf] = <<>> /\ \A b \in heap : content'[b] = content[b]
  BY <1>1 DEF BeginUpload, TypeOK
<1>3. /\ slots'[i].buf = buf /\ slots'[i].total = total
      /\ slots'[i].received = 0 /\ slots'[i].next = 0
      /\ Active' = Active \cup {i}
      /\ \A j \in Active : slots'[j] = slots[j] /\ slots[j].buf \in heap
  BY <1>1 DEF Active, TypeOK, BuffersAreOwned, SlotBuffers
<1>4. main # Idle => main.buf \in heap
  BY DEF BuffersAreOwned, InHand
<1>5. Len(<<>>) = 0 /\ DOMAIN <<>> = {}
  OBVIOUS
<1>6. CommittedIsWhole'
  <2>1. Covers(<<>>, 0) /\ 0 <= total
    BY <1>5, DataAssumption DEF Covers
  <2> QED BY <1>2, <1>3, <1>4, <2>1 DEF Contents, CommittedIsWhole
<1>7. CountsPieces'
  BY <1>2, <1>3, <1>5 DEF Contents, CountsPieces
<1>8. NumberedInTurn'
  BY <1>1, <1>2, <1>5 DEF Contents, NumberedInTurn
<1> QED BY <1>6, <1>7, <1>8 DEF Contents

LEMMA ChunkContents ==
  ASSUME IInv, Contents, NEW id \in UploadId, NEW chunk \in Chunk, UploadChunk(id, chunk)
  PROVE  Contents'
<1> USE DEF IInv
<1> DEFINE Copied(s) == [seq |-> chunk.seq, len |-> chunk.len, at |-> s.received]
<1>1. PICK i \in Active :
         /\ ToInt(chunk.seq) = slots[i].next
         /\ slots[i].received + chunk.len <= slots[i].total
         /\ slots' = [slots EXCEPT ![i].received = @ + chunk.len, ![i].next = @ + 1]
         /\ content' = [content EXCEPT ![slots[i].buf] = Append(@, Copied(slots[i]))]
         /\ UNCHANGED <<heap, main>>
  BY DEF UploadChunk, SlotOf, InTurn, HasRoom
<1> DEFINE s == slots[i]
           piece == Copied(s)
           p == content[s.buf]
<1>2. /\ i \in Slot /\ s \in PendingUpload /\ s.buf \in heap /\ s.buf \in SlotBuffers
      /\ s.buf \in Buffer /\ s.received \in Nat /\ s.next \in Nat
  BY DEF Active, TypeOK, BuffersAreOwned, SlotBuffers, PendingUpload
<1>3. piece \in Piece /\ piece.at = s.received /\ piece.len = chunk.len /\ piece.seq = chunk.seq
  BY <1>2 DEF Piece, Chunk
<1>4. p \in Seq(Piece) /\ Covers(p, s.received) /\ Len(p) = s.next
      /\ \A k \in DOMAIN p : ToInt(p[k].seq) = k - 1
  BY <1>2 DEF TypeOK, Contents, CommittedIsWhole, CountsPieces, NumberedInTurn
<1>5. content'[s.buf] = Append(p, piece) /\ \A b \in Buffer : b # s.buf => content'[b] = content[b]
  BY <1>1, <1>2 DEF TypeOK
<1> HIDE DEF piece
<1>6. Covers(Append(p, piece), s.received + chunk.len)
  BY <1>2, <1>3, <1>4, CoversAppend
<1>7. /\ Len(Append(p, piece)) = s.next + 1
      /\ \A k \in DOMAIN Append(p, piece) : ToInt(Append(p, piece)[k].seq) = k - 1
  <2>1. /\ Len(p) \in Nat /\ DOMAIN p = 1..Len(p)
        /\ Len(Append(p, piece)) = Len(p) + 1 /\ DOMAIN Append(p, piece) = 1..Len(p) + 1
        /\ Append(p, piece)[Len(p) + 1] = piece
        /\ \A k \in 1..Len(p) : Append(p, piece)[k] = p[k]
    BY <1>3, <1>4, LenProperties, AppendProperties
  <2>2. ASSUME NEW k \in 1..Len(p) + 1 PROVE ToInt(Append(p, piece)[k].seq) = k - 1
    <3>1. CASE k \in 1..Len(p)
      BY <1>4, <2>1, <3>1
    <3>2. CASE k = Len(p) + 1
      BY <1>1, <1>3, <1>4, <2>1, <3>2
    <3> QED BY <2>1, <3>1, <3>2
  <2> QED BY <1>4, <2>1, <2>2
<1>8. /\ Active' = Active
      /\ \A j \in Active : j # i => slots'[j] = slots[j] /\ slots[j].buf # s.buf
                                  /\ slots[j].buf \in Buffer
      /\ slots'[i].buf = s.buf /\ slots'[i].total = s.total
      /\ slots'[i].received = s.received + chunk.len /\ slots'[i].next = s.next + 1
  <2>1. \A j \in Slot : j # i => slots'[j] = slots[j]
    BY <1>1, <1>2 DEF TypeOK
  <2>2. /\ slots'[i].buf = s.buf /\ slots'[i].total = s.total
        /\ slots'[i].received = s.received + chunk.len /\ slots'[i].next = s.next + 1
        /\ slots'[i].active = s.active
    <3> DEFINE w == [active |-> s.active, id |-> s.id, buf |-> s.buf, total |-> s.total,
                     received |-> s.received + chunk.len, next |-> s.next + 1]
    <3>1. slots' = [slots EXCEPT ![i] = w]
      <4>1. s = [active |-> s.active, id |-> s.id, buf |-> s.buf, total |-> s.total,
                 received |-> s.received, next |-> s.next]
        BY <1>2 DEF PendingUpload
      <4>2. slots' = [slots EXCEPT ![i].received = @ + chunk.len, ![i].next = @ + 1]
        BY <1>1
      <4>3. slots \in [Slot -> PendingUpload]
        BY DEF TypeOK
      <4> HIDE DEF IInv
      <4> QED BY <1>2, <4>1, <4>2, <4>3
    <3>2. slots'[i] = w
      BY <1>2, <3>1 DEF TypeOK
    <3> QED BY <3>2
  <2>3. \A j \in Active : j # i => slots[j].buf # s.buf /\ slots[j].buf \in Buffer
    BY DEF BuffersAreOwned, SlotBuffers, TypeOK
  <2> QED BY <1>2, <2>1, <2>2, <2>3 DEF Active
<1>9. main # Idle => main.buf # s.buf /\ main.buf \in Buffer
  BY <1>2 DEF BuffersAreOwned, InHand, TypeOK
<1>10. s.received + chunk.len <= s.total
  BY <1>1
<1> HIDE DEF s, p
<1>11. CommittedIsWhole'
  <2>1. main' # Idle => Covers(content'[main'.buf], main'.total)
    BY <1>1, <1>5, <1>9 DEF Contents, CommittedIsWhole
  <2>2. ASSUME NEW j \in Active
        PROVE  /\ Covers(content'[slots'[j].buf], slots'[j].received)
               /\ slots'[j].received <= slots'[j].total
    <3>1. CASE j = i
      BY <1>5, <1>6, <1>8, <1>10, <3>1
    <3>2. CASE j # i
      BY <1>5, <1>8, <3>2 DEF Contents, CommittedIsWhole
    <3> QED BY <3>1, <3>2
  <2> QED BY <1>8, <2>1, <2>2 DEF CommittedIsWhole
<1>12. CountsPieces'
  BY <1>5, <1>7, <1>8 DEF Contents, CountsPieces
<1>13. NumberedInTurn'
  <2>1. ASSUME NEW b \in heap, NEW k \in DOMAIN content'[b]
        PROVE  ToInt(content'[b][k].seq) = k - 1
    <3>1. CASE b = s.buf
      BY <1>5, <1>7, <2>1, <3>1
    <3>2. CASE b # s.buf
      BY <1>5, <2>1, <3>2 DEF Contents, NumberedInTurn, TypeOK
    <3> QED BY <3>1, <3>2
  <2> QED BY <1>1, <2>1 DEF NumberedInTurn
<1> QED BY <1>11, <1>12, <1>13 DEF Contents

\* The bytes of an upload that is taken out reach the declared size, and do not
\* pass it.
LEMMA TakeContents ==
  ASSUME IInv, Contents, CommitTake
  PROVE  Contents'
<1> USE DEF IInv
<1>1. UNCHANGED <<heap, content>>
  BY DEF CommitTake
<1>2. CASE UNCHANGED <<slots, main>>
  BY <1>1, <1>2 DEF Contents, CommittedIsWhole, CountsPieces, NumberedInTurn, Active
<1>3. ASSUME NEW i \in Active, Complete(slots[i]), TakeOut(i) PROVE Contents'
  <2>1. /\ main'.buf = slots[i].buf /\ main'.total = slots[i].total
        /\ slots' = [slots EXCEPT ![i] = Free] /\ i \in Slot
    BY <1>3 DEF TakeOut, Active
  <2>2. slots[i].received = slots[i].total
    <3>1. slots[i] \in PendingUpload
      BY <2>1 DEF TypeOK
    <3>2. slots[i].received \in Nat /\ slots[i].total \in Nat
      <4>1. Totals \cup {0} \subseteq Nat
        BY DataAssumption
      <4> HIDE DEF IInv
      <4> QED BY <3>1, <4>1 DEF PendingUpload
    <3> QED BY <1>3, <3>2 DEF Complete, Contents, CommittedIsWhole
  <2>3. Active' = Active \ {i} /\ \A j \in Active' : slots'[j] = slots[j]
    BY <1>3, SlotFreed DEF TakeOut
  <2> QED BY <1>1, <2>1, <2>2, <2>3 DEF Contents, CommittedIsWhole, CountsPieces, NumberedInTurn
<1> QED BY <1>2, <1>3 DEF CommitTake, SlotOf

LEMMA AbortContents ==
  ASSUME IInv, Contents, NEW id \in UploadId, AbortUpload(id)
  PROVE  Contents'
<1>1. PICK i \in Active : heap' = heap \ {slots[i].buf} /\ slots' = [slots EXCEPT ![i] = Free]
  BY DEF AbortUpload, SlotOf
<1>2. Active' = Active \ {i} /\ \A j \in Active' : slots'[j] = slots[j]
  BY <1>1, SlotFreed
<1> QED BY <1>1, <1>2
        DEF AbortUpload, Contents, CommittedIsWhole, CountsPieces, NumberedInTurn

LEMMA ContentsKept == IInv /\ Contents /\ [Next]_vars => Contents'
<1> SUFFICES ASSUME IInv, Contents, [Next]_vars PROVE Contents'
  OBVIOUS
<1>1. ASSUME NEW total \in Totals, BeginUpload(total) PROVE Contents'
  BY <1>1, BeginContents
<1>2. ASSUME NEW id \in UploadId, NEW chunk \in Chunk, UploadChunk(id, chunk) PROVE Contents'
  BY <1>2, ChunkContents
<1>3. ASSUME NEW id \in UploadId, AbortUpload(id) PROVE Contents'
  BY <1>3, AbortContents
<1>4. ASSUME CommitTake PROVE Contents'
  BY <1>4, TakeContents
<1>5. ASSUME UNCHANGED <<slots, heap, content, main>> PROVE Contents'
  BY <1>5 DEF Contents, CommittedIsWhole, CountsPieces, NumberedInTurn, Active
<1>6. ASSUME Finish \/ (\E b \in Buffer : Unload(b)) PROVE Contents'
  <2>1. UNCHANGED <<slots, content>> /\ main' = Idle /\ heap' \subseteq heap
    BY <1>6 DEF Finish, Unload
  <2> QED BY <2>1 DEF Contents, CommittedIsWhole, CountsPieces, NumberedInTurn, Active
<1>7. ASSUME NEW id \in UploadId, NEW type \in Type, CommitUpload(id, type) PROVE Contents'
  BY <1>5, <1>7 DEF CommitUpload
<1> QED BY <1>1, <1>2, <1>3, <1>4, <1>5, <1>6, <1>7 DEF Next, vars

\* What the buffers hold agrees with what their slots say, in every state.
THEOREM ContentsInvariant == Spec => []Contents
<1>1. Init => Contents
  <2> SUFFICES ASSUME Init PROVE Contents
    OBVIOUS
  <2>1. Active = {} /\ heap = {} /\ main = Idle
    BY DEF Init, Active, Free
  <2> QED BY <2>1 DEF Contents, CommittedIsWhole, CountsPieces, NumberedInTurn
<1> QED BY <1>1, ContentsKept, Invariant, PTL DEF Spec

\* Whatever sizes the clients declare and send, the buffer that the main thread
\* decodes was written from its first byte to its last, and none beyond it.
THEOREM WholeWhenCommitted == Spec => []CommittedIsWhole
<1>1. Contents => CommittedIsWhole
  BY DEF Contents
<1> QED BY <1>1, ContentsInvariant, PTL

\* A number that an int can hold is what the conversion leaves of it;
\* UploadRegistryWrap.cfg has one that it cannot hold.
LEMMA ToIntIsExact ==
  ASSUME NEW n \in Nat, 2 * n < IntRange
  PROVE  ToInt(n) = n
<1>1. IntRange \in Nat /\ IntRange > 0 /\ n < IntRange
  BY IntRangeAssumption
<1>2. n % IntRange = n
  BY <1>1
<1> QED BY <1>2 DEF ToInt

\* As long as the clients' numbers fit an int, the pieces of every buffer are
\* the chunks 0, 1, 2, ... of what was sent, none left out and none twice.
THEOREM InOrder ==
  ASSUME \A n \in Seqs : 2 * n < IntRange
  PROVE  Spec => []ChunksInOrder
<1>1. IInv /\ Contents => ChunksInOrder
  <2> SUFFICES ASSUME IInv, Contents, NEW b \in heap, NEW k \in DOMAIN content[b]
               PROVE  content[b][k].seq = k - 1
    BY DEF ChunksInOrder
  <2>1. content[b][k].seq \in Seqs
    <3>1. content[b] \in Seq(Piece)
      BY DEF IInv, TypeOK
    <3>2. content[b][k] \in Piece
      BY <3>1, ElementOfSeq, LenProperties
    <3> QED BY <3>2 DEF Piece
  <2>2. ToInt(content[b][k].seq) = content[b][k].seq
    BY <2>1, DataAssumption, ToIntIsExact
  <2> QED BY <2>2 DEF Contents, NumberedInTurn
<1> QED BY <1>1, Invariant, ContentsInvariant, PTL

\* Whatever races with a commit, and however many uploads, slots and resources
\* there are, every allocated buffer has one owner and every owner's buffer is
\* allocated: nothing is freed twice, used after it was freed, or leaked.
THEOREM BuffersOwned == Spec => []BuffersAreOwned
<1>1. IInv => BuffersAreOwned
  BY DEF IInv
<1> QED BY <1>1, Invariant, PTL

\* No connection thread writes into the buffer that the main thread decodes
\* without the lock.
THEOREM StableWhileDecoded == Spec => DecodedIsStable
<1> DEFINE P == main # Idle => content'[main.buf] = content[main.buf]
<1>1. IInv /\ [Next]_vars => P
  <2> SUFFICES ASSUME IInv, [Next]_vars, main # Idle
               PROVE  content'[main.buf] = content[main.buf]
    OBVIOUS
  <2>1. main.buf \in heap /\ main.buf \notin SlotBuffers
    BY DEF IInv, BuffersAreOwned, InHand
  <2>2. ASSUME NEW total \in Totals, BeginUpload(total)
        PROVE  content'[main.buf] = content[main.buf]
    BY <2>1, <2>2, BeginKeeps
  <2>3. ASSUME NEW id \in UploadId, NEW chunk \in Chunk, UploadChunk(id, chunk)
        PROVE  content'[main.buf] = content[main.buf]
    BY <2>1, <2>3, ChunkKeeps
  <2> QED BY <2>2, <2>3
          DEF Next, vars, AbortUpload, CommitUpload, CommitTake, Finish, Unload
<1> QED BY <1>1, Invariant, PTL DEF Spec, DecodedIsStable
=============================================================================
