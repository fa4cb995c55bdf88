---------------------------- MODULE UploadRegistry ----------------------------
(***************************************************************************)
(* Chunked uploads: src/src/upload_registry.c, and CommitUpload in         *)
(* src/src/commands.c.                                                     *)
(*                                                                         *)
(* Begin, chunk and abort are executed by connection threads, under the    *)
(* registry's lock; commits wait in the command queue for the main thread, *)
(* which takes the buffer out of its slot and decodes it without the lock. *)
(* An upload is known by its id alone, so any connection may send for it.  *)
(***************************************************************************)
EXTENDS Integers, Sequences

CONSTANTS
    MaxSlots,   \* UR_MAX_SLOTS
    Totals,     \* totalBytes that clients declare, within UR_MAX_BYTES
    Lengths,    \* decoded lengths of chunks
    Seqs,       \* sequence numbers that clients send
    IntRange,   \* the number of values of an int, 2^32
    MaxUploads, \* bound: uploads ever begun
    MaxChunks,  \* bound: chunks of one upload
    MaxQueue    \* bound: commits waiting in the queue

ASSUME MaxSlotsAssumption == MaxSlots \in Nat \ {0}
ASSUME DataAssumption == Totals \subseteq Nat \ {0} /\ Lengths \subseteq Nat /\ Seqs \subseteq Nat
ASSUME IntRangeAssumption == IntRange \in Nat \ {0}
ASSUME BoundsAssumption == MaxUploads \in Nat /\ MaxChunks \in Nat /\ MaxQueue \in Nat

Slot == 1..MaxSlots
UploadId == 1..MaxUploads

\* Buffers on the heap; there are as many at a time as uploads.
Buffer == 1..MaxUploads

\* What the resource type does with the buffer: a texture and a sound are copied
\* out of it, and a type that no one knows needs nothing of it; a font and music
\* keep it.
Type == {"copied", "kept"}

\* What a client sends, and the part of a buffer that it was copied to.
Chunk == [seq : Seqs, len : Lengths]
Piece == [seq : Seqs, len : Lengths, at : Nat]

Free == [active |-> FALSE, id |-> 0, buf |-> 0, total |-> 0, received |-> 0, next |-> 0]

Idle == [buf |-> 0, type |-> "none", total |-> 0]

VARIABLES
    slots,      \* the pending uploads
    nextId,     \* next_id
    heap,       \* buffers allocated and not freed
    content,    \* what was copied into each buffer, in order
    queue,      \* CommitUpload commands waiting for the main thread
    main,       \* the buffer the main thread has taken and not disposed of
    resources   \* buffers that live on in a font or in music

vars == <<slots, nextId, heap, content, queue, main, resources>>

PendingUpload == [active : BOOLEAN, id : UploadId \cup {0}, buf : Buffer \cup {0},
                  total : Totals \cup {0}, received : Nat, next : 0..MaxChunks]

TypeOK ==
    /\ slots \in [Slot -> PendingUpload]
    /\ \A i \in Slot : ~slots[i].active => slots[i] = Free
    /\ nextId \in 0..MaxUploads
    /\ heap \subseteq Buffer
    /\ content \in [Buffer -> Seq(Piece)]
    /\ queue \in Seq([id : UploadId, type : Type]) /\ Len(queue) <= MaxQueue
    /\ main.buf \in Buffer \cup {0} /\ main.type \in Type \cup {"none"}
    /\ resources \subseteq Buffer

\* ur_init.
Init ==
    /\ slots = [i \in Slot |-> Free]
    /\ nextId = 0
    /\ heap = {}
    /\ content = [b \in Buffer |-> <<>>]
    /\ queue = <<>>
    /\ main = Idle
    /\ resources = {}

(***************************************************************************)
(* The slots                                                               *)
(***************************************************************************)

Active == {i \in Slot : slots[i].active}

First(S) == {i \in S : \A j \in S : i <= j}

\* find_slot.
SlotOf(id) == {i \in Active : slots[i].id = id}

\* The (int) conversion.
ToInt(n) ==
    LET r == n % IntRange IN IF 2 * r < IntRange THEN r ELSE r - IntRange

(***************************************************************************)
(* Connection threads                                                      *)
(***************************************************************************)

\* BeginUpload; a full registry answers an error and changes nothing.
BeginUpload(total) ==
    /\ nextId < MaxUploads
    /\ \E i \in First(Slot \ Active), buf \in First(Buffer \ heap) :
         /\ slots' = [slots EXCEPT ![i] =
                        [active |-> TRUE, id |-> nextId + 1, buf |-> buf,
                         total |-> total, received |-> 0, next |-> 0]]
         /\ heap' = heap \cup {buf}
         /\ content' = [content EXCEPT ![buf] = <<>>]
    /\ nextId' = nextId + 1
    /\ UNCHANGED <<queue, main, resources>>

\* Fault: sequence numbers are checked to be new, not to be next.
InTurnOrLater(s, seq) == ToInt(seq) >= s.next

InTurn(s, seq) == ToInt(seq) = s.next

HasRoom(s, len) == s.received + len <= s.total

\* UploadChunk: in turn and within the declared size, or refused.  It is copied
\* to where the bytes received so far end.
UploadChunk(id, chunk) ==
    \E i \in SlotOf(id) :
        LET s == slots[i] IN
        /\ s.next < MaxChunks
        /\ InTurn(s, chunk.seq)
        /\ HasRoom(s, chunk.len)
        /\ slots' = [slots EXCEPT ![i].received = @ + chunk.len, ![i].next = @ + 1]
        /\ content' = [content EXCEPT ![s.buf] =
                         Append(@, [seq |-> chunk.seq, len |-> chunk.len, at |-> s.received])]
        /\ UNCHANGED <<nextId, heap, queue, main, resources>>

\* AbortUpload: free_slot; an unknown id is answered like a known one.
AbortUpload(id) ==
    /\ \E i \in SlotOf(id) :
         /\ heap' = heap \ {slots[i].buf}
         /\ slots' = [slots EXCEPT ![i] = Free]
    /\ UNCHANGED <<nextId, content, queue, main, resources>>

\* CommitUpload is not intercepted and goes through the queue; a client may
\* send it early, again, or together with an abort.
CommitUpload(id, type) ==
    /\ id <= nextId
    /\ Len(queue) < MaxQueue
    /\ queue' = Append(queue, [id |-> id, type |-> type])
    /\ UNCHANGED <<slots, nextId, heap, content, main, resources>>

(***************************************************************************)
(* The main thread                                                         *)
(***************************************************************************)

\* Fault: the size is not looked at.
Begun(s) == s.next > 0

Complete(s) == s.received >= s.total

\* Fault: the slot stays in use.
TakeAndLeave(i) ==
    /\ main' = [buf |-> slots[i].buf, type |-> Head(queue).type, total |-> slots[i].total]
    /\ UNCHANGED slots

\* The slot is cleared and the buffer handed over.
TakeOut(i) ==
    /\ main' = [buf |-> slots[i].buf, type |-> Head(queue).type, total |-> slots[i].total]
    /\ slots' = [slots EXCEPT ![i] = Free]

\* ur_commit_take: an upload that is unknown or incomplete is refused.
CommitTake ==
    /\ main = Idle
    /\ queue # <<>>
    /\ queue' = Tail(queue)
    /\ LET ready == {i \in SlotOf(Head(queue).id) : Complete(slots[i])} IN
         \/ \E i \in ready : TakeOut(i)
         \/ ready = {} /\ UNCHANGED <<slots, main>>
    /\ UNCHANGED <<nextId, heap, content, resources>>

\* Fault: an error path forgets the buffer.
FinishLeaks ==
    /\ main # Idle
    /\ \/ resources' = resources \cup {main.buf} /\ main.type = "kept"
       \/ UNCHANGED resources
    /\ main' = Idle
    /\ UNCHANGED <<slots, nextId, heap, content, queue>>

\* The buffer of a font or of music lives on when decoding and handle_alloc
\* succeed; in every other case it is freed.
Finish ==
    /\ main # Idle
    /\ \/ /\ main.type = "kept"
          /\ resources' = resources \cup {main.buf}
          /\ UNCHANGED heap
       \/ /\ heap' = heap \ {main.buf}
          /\ UNCHANGED resources
    /\ main' = Idle
    /\ UNCHANGED <<slots, nextId, content, queue>>

\* UnloadFont, UnloadMusicStream: the resource's data is freed.
Unload(b) ==
    /\ main = Idle
    /\ b \in resources
    /\ resources' = resources \ {b}
    /\ heap' = heap \ {b}
    /\ UNCHANGED <<slots, nextId, content, queue, main>>

Next ==
    \/ \E total \in Totals : BeginUpload(total)
    \/ \E id \in UploadId, chunk \in Chunk : UploadChunk(id, chunk)
    \/ \E id \in UploadId : AbortUpload(id)
    \/ \E id \in UploadId, type \in Type : CommitUpload(id, type)
    \/ CommitTake
    \/ Finish
    \/ \E b \in Buffer : Unload(b)

Spec == Init /\ [][Next]_vars

(***************************************************************************)
(* Properties                                                              *)
(***************************************************************************)

SlotBuffers == {slots[i].buf : i \in Active}

InHand == IF main = Idle THEN {} ELSE {main.buf}

\* A buffer belongs to one slot, to the main thread, or to one resource, and
\* exactly the buffers that belong to someone are allocated: whatever races
\* with a commit, nothing is freed twice, used after it was freed, or leaked.
BuffersAreOwned ==
    /\ heap = SlotBuffers \cup InHand \cup resources
    /\ SlotBuffers \cap InHand = {}
    /\ SlotBuffers \cap resources = {}
    /\ InHand \cap resources = {}
    /\ \A i, j \in Active : i # j => /\ slots[i].buf # slots[j].buf
                                     /\ slots[i].id # slots[j].id

\* The pieces cover the bytes from 0 to n, each beginning where the one before
\* it ends.
Covers(pieces, n) ==
    LET End(k) == IF k = 0 THEN 0 ELSE pieces[k].at + pieces[k].len IN
    /\ \A k \in DOMAIN pieces : pieces[k].at = End(k - 1)
    /\ End(Len(pieces)) = n

\* What the main thread decodes was written from the first byte to the size that
\* was declared, without a gap: no byte is read that no chunk wrote, and no chunk
\* writes beyond the end.
CommittedIsWhole ==
    /\ main # Idle => Covers(content[main.buf], main.total)
    /\ \A i \in Active :
         LET s == slots[i] IN Covers(content[s.buf], s.received) /\ s.received <= s.total

\* While it is decoded, outside the lock, nobody changes it.
DecodedIsStable ==
    [][main # Idle => content'[main.buf] = content[main.buf]]_vars

\* "out-of-order chunk": the chunks in a buffer are numbers 0, 1, 2, ... of
\* what the client sent.
ChunksInOrder ==
    \A b \in heap : \A k \in DOMAIN content[b] : content[b][k].seq = k - 1

=============================================================================
