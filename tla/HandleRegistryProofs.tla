------------------------ MODULE HandleRegistryProofs ------------------------
(***************************************************************************)
(* Theorems about HandleRegistry and Commands, for every size of the       *)
(* table, every set of kinds and every number of clients and loads.  A     *)
(* command is a step of the registry or leaves it alone, so that the       *)
(* registry's invariant carries over; what Commands adds is the kind that  *)
(* each resource was made as.                                              *)
(***************************************************************************)
EXTENDS Commands, TLAPS

SlotsHavePtr == \A i \in UsedIndex : slots[i].ptr \in Resource

\* The inductive invariant: no resource has been made that the load counter
\* has not reached, so that the next one is fresh.
IInv ==
    /\ TypeOK
    /\ SlotsOwnObjects
    /\ SlotsHavePtr
    /\ \A r \in Resource : heap[r] # {} => r <= loads

Handlers == FileHandlers \cup UploadHandlers

(***************************************************************************)
(* The handlers                                                            *)
(***************************************************************************)

\* A handler gives everything back, whichever of its steps fails and when the
\* registry is full, and otherwise ends with a resource that is whole and that
\* the Unload* of its kind frees completely.
Clean(handler) ==
    /\ \A k \in DOMAIN handler.steps : LeftAt(handler, k) = {}
    /\ HeldAtEnd(handler) \ handler.undo = {}
    /\ \A kind \in handler.kinds :
         /\ {"struct", "object"} \subseteq HeldAtEnd(handler)
         /\ HeldAtEnd(handler) \subseteq Owned(kind)

\* A step adds what it takes to what the handler held, and drops the rest.
LEMMA Steps ==
  ASSUME NEW handler
  PROVE  /\ Held(handler, 0) = {}
         /\ \A k \in Nat \ {0} : Held(handler, k) =
              {part \in Part :
                  /\ \/ part \in handler.steps[k].takes
                     \/ part \in Held(handler, k - 1)
                  /\ part \notin handler.steps[k].drops}
<1>1. Held(handler, 0) = {}
  BY DEF Held
<1>2. ASSUME NEW k \in Nat \ {0}, NEW part \in Part
      PROVE  part \in Held(handler, k) <=>
               /\ \/ part \in handler.steps[k].takes
                  \/ part \in Held(handler, k - 1)
               /\ part \notin handler.steps[k].drops
  <2>1. 1..k = (1..k-1) \cup {k} /\ \A j \in 1..k-1 : j..k = (j..k-1) \cup {k}
    OBVIOUS
  <2>2. k..k = {k}
    OBVIOUS
  <2> QED BY <2>1, <2>2 DEF Held
<1> QED BY <1>1, <1>2 DEF Held

\* What raylib reads from a file.
LEMMA FromFileIsClean == Clean(FromFile)
<1> DEFINE h == FromFile
<1>1. /\ h.steps =
               <<Take({"struct"}, {}), Take({"object"}, {"struct"})>>
      /\ h.undo = {"struct", "object"}
  BY DEF FromFile, Handler
<1>2. Held(h, 0) = {}
  BY Steps
<1>3. Held(h, 1) = {"struct"}
  BY <1>1, <1>2, Steps DEF Take, Part
<1>4. Held(h, 2) = {"struct", "object"}
  BY <1>1, <1>3, Steps DEF Take, Part
<1>5. DOMAIN h.steps = 1..2 /\ Len(h.steps) = 2
  BY <1>1
<1> HIDE DEF h
<1>6. \A k \in 1..2 : LeftAt(h, k) = {}
  BY <1>1, <1>2, <1>3 DEF LeftAt, Take
<1> QED BY <1>1, <1>4, <1>5, <1>6 DEF Clean, HeldAtEnd, Owned, Handler, h, FromFile

\* A font from a file, with code points.
LEMMA LoadFontExIsClean == Clean(LoadFontEx)
<1> DEFINE h == LoadFontEx
<1>1. /\ h.steps =
               <<Take({"codepoints"}, {}),
                 Take({"struct"}, {"codepoints"}),
                 TakeAndDrop({"object"}, {"struct"}, {"codepoints"})>>
      /\ h.undo = {"struct", "object"}
  BY DEF LoadFontEx, Handler
<1>2. Held(h, 0) = {}
  BY Steps
<1>3. Held(h, 1) = {"codepoints"}
  BY <1>1, <1>2, Steps DEF Take, TakeAndDrop, Part
<1>4. Held(h, 2) = {"codepoints", "struct"}
  BY <1>1, <1>3, Steps DEF Take, TakeAndDrop, Part
<1>5. Held(h, 3) = {"struct", "object"}
  BY <1>1, <1>4, Steps DEF Take, TakeAndDrop, Part
<1>6. DOMAIN h.steps = 1..3 /\ Len(h.steps) = 3
  BY <1>1
<1> HIDE DEF h
<1>7. \A k \in 1..3 : LeftAt(h, k) = {}
  BY <1>1, <1>2, <1>3, <1>4 DEF LeftAt, Take, TakeAndDrop
<1> QED BY <1>1, <1>5, <1>6, <1>7 DEF Clean, HeldAtEnd, Owned, Handler, h, LoadFontEx

\* Textures and sounds, by way of an image or a wave.
LEMMA FromDecodedIsClean == Clean(FromDecoded)
<1> DEFINE h == FromDecoded
<1>1. /\ h.steps =
               <<Take({"data"}, {}),
                 TakeAndDrop({"decoded"}, {}, {"data"}),
                 Take({"struct"}, {"decoded"}),
                 TakeAndDrop({"object"}, {"struct"}, {"decoded"})>>
      /\ h.undo = {"struct", "object"}
  BY DEF FromDecoded, Handler
<1>2. Held(h, 0) = {}
  BY Steps
<1>3. Held(h, 1) = {"data"}
  BY <1>1, <1>2, Steps DEF Take, TakeAndDrop, Part
<1>4. Held(h, 2) = {"decoded"}
  BY <1>1, <1>3, Steps DEF Take, TakeAndDrop, Part
<1>5. Held(h, 3) = {"decoded", "struct"}
  BY <1>1, <1>4, Steps DEF Take, TakeAndDrop, Part
<1>6. Held(h, 4) = {"struct", "object"}
  BY <1>1, <1>5, Steps DEF Take, TakeAndDrop, Part
<1>7. DOMAIN h.steps = 1..4 /\ Len(h.steps) = 4
  BY <1>1
<1> HIDE DEF h
<1>8. \A k \in 1..4 : LeftAt(h, k) = {}
  BY <1>1, <1>2, <1>3, <1>4, <1>5 DEF LeftAt, Take, TakeAndDrop
<1> QED BY <1>1, <1>6, <1>7, <1>8 DEF Clean, HeldAtEnd, Owned, Handler, h, FromDecoded

\* Textures from raw pixels.
LEMMA UploadTextureRawIsClean == Clean(UploadTextureRaw)
<1> DEFINE h == UploadTextureRaw
<1>1. /\ h.steps =
               <<Take({"data"}, {}),
                 Take({"struct"}, {"data"}),
                 TakeAndDrop({"object"}, {"struct"}, {"data"})>>
      /\ h.undo = {"struct", "object"}
  BY DEF UploadTextureRaw, Handler
<1>2. Held(h, 0) = {}
  BY Steps
<1>3. Held(h, 1) = {"data"}
  BY <1>1, <1>2, Steps DEF Take, TakeAndDrop, Part
<1>4. Held(h, 2) = {"data", "struct"}
  BY <1>1, <1>3, Steps DEF Take, TakeAndDrop, Part
<1>5. Held(h, 3) = {"struct", "object"}
  BY <1>1, <1>4, Steps DEF Take, TakeAndDrop, Part
<1>6. DOMAIN h.steps = 1..3 /\ Len(h.steps) = 3
  BY <1>1
<1> HIDE DEF h
<1>7. \A k \in 1..3 : LeftAt(h, k) = {}
  BY <1>1, <1>2, <1>3, <1>4 DEF LeftAt, Take, TakeAndDrop
<1> QED BY <1>1, <1>5, <1>6, <1>7 DEF Clean, HeldAtEnd, Owned, Handler, h, UploadTextureRaw

\* Fonts that keep their data.
LEMMA UploadFontIsClean == Clean(UploadFont)
<1> DEFINE h == UploadFont
<1>1. /\ h.steps =
               <<Take({"data", "codepoints"}, {}),
                 Take({"struct"}, {"data", "codepoints"}),
                 TakeAndDrop({"object"}, {"data", "struct"}, {"codepoints"})>>
      /\ h.undo = {"struct", "object", "data"}
  BY DEF UploadFont, Handler
<1>2. Held(h, 0) = {}
  BY Steps
<1>3. Held(h, 1) = {"data", "codepoints"}
  BY <1>1, <1>2, Steps DEF Take, TakeAndDrop, Part
<1>4. Held(h, 2) = {"data", "codepoints", "struct"}
  BY <1>1, <1>3, Steps DEF Take, TakeAndDrop, Part
<1>5. Held(h, 3) = {"struct", "object", "data"}
  BY <1>1, <1>4, Steps DEF Take, TakeAndDrop, Part
<1>6. DOMAIN h.steps = 1..3 /\ Len(h.steps) = 3
  BY <1>1
<1> HIDE DEF h
<1>7. \A k \in 1..3 : LeftAt(h, k) = {}
  BY <1>1, <1>2, <1>3, <1>4 DEF LeftAt, Take, TakeAndDrop
<1> QED BY <1>1, <1>5, <1>6, <1>7 DEF Clean, HeldAtEnd, Owned, Handler, h, UploadFont

\* Music that keeps its data.
LEMMA UploadMusicIsClean == Clean(UploadMusic)
<1> DEFINE h == UploadMusic
<1>1. /\ h.steps =
               <<Take({"data"}, {}),
                 Take({"struct"}, {"data"}),
                 Take({"object"}, {"data", "struct"})>>
      /\ h.undo = {"struct", "object", "data"}
  BY DEF UploadMusic, Handler
<1>2. Held(h, 0) = {}
  BY Steps
<1>3. Held(h, 1) = {"data"}
  BY <1>1, <1>2, Steps DEF Take, Part
<1>4. Held(h, 2) = {"data", "struct"}
  BY <1>1, <1>3, Steps DEF Take, Part
<1>5. Held(h, 3) = {"data", "struct", "object"}
  BY <1>1, <1>4, Steps DEF Take, Part
<1>6. DOMAIN h.steps = 1..3 /\ Len(h.steps) = 3
  BY <1>1
<1> HIDE DEF h
<1>7. \A k \in 1..3 : LeftAt(h, k) = {}
  BY <1>1, <1>2, <1>3, <1>4 DEF LeftAt, Take
<1> QED BY <1>1, <1>5, <1>6, <1>7 DEF Clean, HeldAtEnd, Owned, Handler, h, UploadMusic

\* An upload committed as nothing the server knows: there is nothing to register.
LEMMA UnknownTypeIsClean == \A k \in DOMAIN UnknownType.steps : LeftAt(UnknownType, k) = {}
<1> DEFINE h == UnknownType
<1>1. h.steps = <<Take({"data"}, {}), Take({"object"}, {"data"})>>
  BY DEF UnknownType, Handler
<1>2. Held(h, 0) = {}
  BY Steps
<1>3. Held(h, 1) = {"data"}
  BY <1>1, <1>2, Steps DEF Take, Part
<1>4. Held(h, 2) = {"data", "object"}
  BY <1>1, <1>3, Steps DEF Take, Part
<1>5. DOMAIN h.steps = 1..2 /\ Len(h.steps) = 2
  BY <1>1
<1> HIDE DEF h
<1>6. \A k \in 1..2 : LeftAt(h, k) = {}
  BY <1>1, <1>2, <1>3 DEF LeftAt, Take
<1> QED BY <1>5, <1>6 DEF h

LEMMA HandlersAreClean == \A handler \in Handlers : Clean(handler)
BY FromFileIsClean, LoadFontExIsClean, FromDecodedIsClean,
   UploadTextureRawIsClean, UploadFontIsClean, UploadMusicIsClean
   DEF Handlers, FileHandlers, UploadHandlers

(***************************************************************************)
(* The registry                                                            *)
(***************************************************************************)

\* Every slot is probed once in a search, wherever the hint points.
LEMMA ProbeFacts ==
  ASSUME TypeOK
  PROVE  /\ \A i \in Index : Probe(i) \in Index
         /\ \A k \in Index : \E i \in Index : Probe(i) = k
         /\ \A k \in Index : (k + 1) % HandleMax \in Index
<1>0. HandleMax \in Nat \ {0} /\ next_hint \in 0..HandleMax-1
  BY HandleMaxAssumption DEF TypeOK, Index
<1>1. \A N \in Nat \ {0} : \A h, i \in 0..N-1 : (h + i) % N \in 0..N-1
  BY SMT
<1>2. \A N \in Nat \ {0} : \A k \in 0..N-1 : (k + 1) % N \in 0..N-1
  BY SMT
<1>3. ASSUME NEW k \in 0..HandleMax-1
      PROVE  \E i \in 0..HandleMax-1 : (next_hint + i) % HandleMax = k
  <2>1. CASE k >= next_hint
    <3>1. k - next_hint \in 0..HandleMax-1 /\ next_hint + (k - next_hint) = k
      BY <1>0, <2>1
    <3>2. k % HandleMax = k
      BY <1>0
    <3> QED BY <3>1, <3>2
  <2>2. CASE k < next_hint
    <3>1. /\ k + HandleMax - next_hint \in 0..HandleMax-1
          /\ next_hint + (k + HandleMax - next_hint) = k + HandleMax
      BY <1>0, <2>2
    <3>2. (k + HandleMax) % HandleMax = k
      BY <1>0
    <3> QED BY <3>1, <3>2
  <2> QED BY <1>0, <2>1, <2>2
<1> QED BY <1>0, <1>1, <1>2, <1>3 DEF Index, Probe

\* A search that finds no free slot has seen every slot in use.
LEMMA NoFreeProbe ==
  ASSUME TypeOK, FreeProbes = {}
  PROVE  UsedIndex = Index
BY ProbeFacts DEF FreeProbes, UsedIndex, TypeOK, Slot

LEMMA InitIInv == Init => IInv
<1> SUFFICES ASSUME Init PROVE IInv
  OBVIOUS
<1>1. 0 \in Index /\ 0 \in 0..MaxLoads
  BY HandleMaxAssumption, MaxLoadsAssumption DEF Index
<1>2. FreeSlot \in Slot
  BY DEF FreeSlot, Slot
<1>3. TypeOK
  BY <1>1, <1>2 DEF Init, TypeOK
<1>4. UsedIndex = {}
  BY DEF Init, UsedIndex, FreeSlot
<1> QED BY <1>3, <1>4 DEF Init, IInv, SlotsOwnObjects, SlotsHavePtr

\* Registering a new resource.
LEMMA RegisterIInv ==
  ASSUME IInv, NEW c \in Clients, NEW kind \in Kinds, NEW handler \in Handlers,
         kind \in handler.kinds, Register(c, kind, handler)
  PROVE  IInv'
<1> DEFINE n == NewResource
           parts == HeldAtEnd(handler)
<1>1. /\ TypeOK /\ SlotsOwnObjects /\ SlotsHavePtr
      /\ \A r \in Resource : heap[r] # {} => r <= loads
      /\ n \in Resource /\ heap[n] = {}
      /\ loads' \in 0..MaxLoads
      /\ loads \in Nat /\ loads' = loads + 1 /\ n = loads'
  BY MaxLoadsAssumption DEF IInv, TypeOK, Register, Allocate, NewResource, Resource
<1>2. PICK k \in Index : /\ handle_alloc(k, kind, n)
                         /\ holds' = [holds EXCEPT ![c][k + 1] = n]
  BY DEF Register
<1>3. /\ heap' = [heap EXCEPT ![n] = parts]
      /\ reply' = "handle"
  BY DEF Register, Allocate
<1>4. /\ slots' = [slots EXCEPT ![k] = [ptr |-> n, kind |-> kind, used |-> TRUE]]
      /\ ~slots[k].used
      /\ next_hint' \in Index
  BY <1>1, <1>2, ProbeFacts DEF handle_alloc, FreeProbes
<1>5. /\ {"struct", "object"} \subseteq parts
      /\ parts \subseteq Owned(kind)
      /\ parts \subseteq Part
  BY HandlersAreClean DEF Clean, HeldAtEnd, Held
<1> HIDE DEF n, parts
<1>6. TypeOK'
  <2>1. slots' \in [Index -> Slot]
    BY <1>1, <1>4 DEF TypeOK, Slot
  <2>2. holds' \in [Clients -> [Handle -> Resource \cup {NULL}]]
    BY <1>1, <1>2 DEF TypeOK
  <2>3. heap' \in [Resource -> SUBSET Part]
    BY <1>1, <1>3, <1>5 DEF TypeOK
  <2> QED BY <1>1, <1>3, <1>4, <2>1, <2>2, <2>3 DEF TypeOK
<1>7. /\ UsedIndex' = UsedIndex \cup {k} /\ k \notin UsedIndex
      /\ slots'[k].ptr = n /\ slots'[k].kind = kind
      /\ \A i \in UsedIndex : slots'[i] = slots[i]
  BY <1>1, <1>4 DEF TypeOK, UsedIndex
<1>8. /\ heap'[n] = parts
      /\ \A r \in Resource \ {n} : heap'[r] = heap[r]
  BY <1>1, <1>3 DEF TypeOK
<1>9. \A i \in UsedIndex : slots[i].ptr \in Resource /\ slots[i].ptr # n
  BY <1>1 DEF SlotsOwnObjects, SlotsHavePtr, Alive
<1>10. SlotsOwnObjects'
  <2>1. ASSUME NEW i \in UsedIndex'
        PROVE  /\ Alive(slots[i].ptr)'
               /\ heap'[slots'[i].ptr] \subseteq Owned(slots'[i].kind)
    <3>1. CASE i = k
      BY <1>5, <1>7, <1>8, <3>1 DEF Alive
    <3>2. CASE i \in UsedIndex
      <4>1. slots'[i] = slots[i] /\ heap'[slots[i].ptr] = heap[slots[i].ptr]
        BY <1>7, <1>8, <1>9, <3>2
      <4>2. Alive(slots[i].ptr) /\ heap[slots[i].ptr] \subseteq Owned(slots[i].kind)
        BY <1>1, <3>2 DEF SlotsOwnObjects
      <4> QED BY <4>1, <4>2 DEF Alive
    <3> QED BY <1>7, <3>1, <3>2
  <2>2. ASSUME NEW i \in UsedIndex', NEW j \in UsedIndex',
               slots'[i].ptr = slots'[j].ptr
        PROVE  i = j
    <3>1. CASE i \in UsedIndex /\ j \in UsedIndex
      BY <1>1, <1>7, <2>2, <3>1 DEF SlotsOwnObjects
    <3>2. CASE i = k \/ j = k
      BY <1>7, <1>9, <2>2, <3>2
    <3> QED BY <1>7, <3>1, <3>2
  <2>3. ASSUME NEW r \in Resource, heap'[r] # {}
        PROVE  \E i \in UsedIndex' : slots'[i].ptr = r
    <3>1. CASE r = n
      BY <1>7, <3>1
    <3>2. CASE r # n
      <4>1. \E i \in UsedIndex : slots[i].ptr = r
        BY <1>1, <1>8, <2>3, <3>2 DEF SlotsOwnObjects
      <4> QED BY <1>7, <4>1
    <3> QED BY <3>1, <3>2
  <2> QED BY <2>1, <2>2, <2>3 DEF SlotsOwnObjects
<1>11. SlotsHavePtr'
  BY <1>1, <1>7, <1>9 DEF SlotsHavePtr, Resource, NULL
<1>12. \A r \in Resource : heap'[r] # {} => r <= loads'
  BY <1>1, <1>8 DEF Resource
<1> QED BY <1>6, <1>10, <1>11, <1>12 DEF IInv

\* A load that fails gives back what it took, and changes nothing but the
\* counter.
LEMMA FailureIInv ==
  ASSUME IInv, NEW parts, parts = {}, Allocate(parts),
         UNCHANGED <<slots, next_hint, holds>>,
         reply' \in {"failed", "full"}
  PROVE  IInv'
<1>1. /\ TypeOK /\ SlotsOwnObjects /\ SlotsHavePtr
      /\ loads \in Nat /\ loads' = loads + 1 /\ loads' \in 0..MaxLoads
      /\ NewResource \in Resource /\ heap[NewResource] = {}
  BY MaxLoadsAssumption DEF IInv, TypeOK, Allocate, NewResource, Resource
<1>2. heap' = heap
  BY <1>1 DEF Allocate, TypeOK
<1>3. \A r \in Resource : heap'[r] # {} => r <= loads'
  BY <1>1, <1>2 DEF IInv, Resource
<1> QED BY <1>1, <1>2, <1>3
        DEF IInv, TypeOK, SlotsOwnObjects, SlotsHavePtr, UsedIndex, Alive

\* Taking a resource out of the registry.
LEMMA UnloadIInv ==
  ASSUME IInv, NEW c \in Clients, NEW h \in Handle, NEW kind \in Kinds,
         Unload(c, h, kind)
  PROVE  IInv'
<1> DEFINE k == h - 1
           r == slots[k].ptr
<1>0. k \in Index
  BY HandleMaxAssumption DEF Handle, Index
<1>1. TypeOK /\ SlotsOwnObjects /\ SlotsHavePtr
  BY DEF IInv
<1>2. slots[k].used /\ handle_get(h, kind) = r /\ slots[k].kind = kind
  BY DEF Unload, handle_get
<1>3. /\ heap' = [heap EXCEPT ![r] = heap[r] \ Owned(kind)]
      /\ slots' = [slots EXCEPT ![k] = FreeSlot]
      /\ next_hint' = k
      /\ holds' = [holds EXCEPT ![c][h] = NULL]
      /\ reply' = "none"
      /\ loads' = loads
  BY <1>2 DEF Unload, handle_free
<1>4. r \in Resource /\ heap[r] \ Owned(kind) = {}
  BY <1>0, <1>1, <1>2 DEF SlotsOwnObjects, SlotsHavePtr, UsedIndex
<1> HIDE DEF k, r
<1>5. /\ heap'[r] = {}
      /\ \A q \in Resource \ {r} : heap'[q] = heap[q]
  BY <1>1, <1>3, <1>4 DEF TypeOK
<1>6. TypeOK'
  <2>1. slots' \in [Index -> Slot]
    BY <1>0, <1>1, <1>3 DEF TypeOK, Slot, FreeSlot
  <2>2. holds' \in [Clients -> [Handle -> Resource \cup {NULL}]]
    BY <1>1, <1>3 DEF TypeOK
  <2>3. heap' \in [Resource -> SUBSET Part]
    BY <1>1, <1>3, <1>4 DEF TypeOK
  <2> QED BY <1>0, <1>1, <1>3, <2>1, <2>2, <2>3 DEF TypeOK
<1>7. /\ UsedIndex' = UsedIndex \ {k} /\ k \in UsedIndex
      /\ \A i \in UsedIndex' : slots'[i] = slots[i]
  BY <1>0, <1>1, <1>2, <1>3 DEF TypeOK, UsedIndex, FreeSlot
<1>8. \A i \in UsedIndex' : slots[i].ptr \in Resource /\ slots[i].ptr # r
  BY <1>1, <1>7 DEF SlotsOwnObjects, SlotsHavePtr, r
<1>9. SlotsOwnObjects'
  <2>1. ASSUME NEW i \in UsedIndex'
        PROVE  /\ Alive(slots[i].ptr)'
               /\ heap'[slots'[i].ptr] \subseteq Owned(slots'[i].kind)
    BY <1>1, <1>5, <1>7, <1>8 DEF SlotsOwnObjects, Alive
  <2>2. ASSUME NEW i \in UsedIndex', NEW j \in UsedIndex',
               slots'[i].ptr = slots'[j].ptr
        PROVE  i = j
    BY <1>1, <1>7, <2>2 DEF SlotsOwnObjects
  <2>3. ASSUME NEW q \in Resource, heap'[q] # {}
        PROVE  \E i \in UsedIndex' : slots'[i].ptr = q
    <3>1. q # r /\ heap[q] # {}
      BY <1>5, <2>3
    <3>2. PICK i \in UsedIndex : slots[i].ptr = q
      BY <1>1, <3>1 DEF SlotsOwnObjects
    <3>3. i # k
      BY <3>1, <3>2 DEF r
    <3> QED BY <1>7, <3>2, <3>3
  <2> QED BY <2>1, <2>2, <2>3 DEF SlotsOwnObjects
<1>10. SlotsHavePtr'
  BY <1>7, <1>8 DEF SlotsHavePtr
<1>11. \A q \in Resource : heap'[q] # {} => q <= loads'
  BY <1>3, <1>5 DEF IInv
<1> QED BY <1>6, <1>9, <1>10, <1>11 DEF IInv

\* Every step preserves the invariant.
LEMMA NextIInv == IInv /\ [Next]_vars => IInv'
<1> SUFFICES ASSUME IInv, [Next]_vars PROVE IInv'
  OBVIOUS
<1>1. ASSUME NEW c \in Clients, NEW kind \in Kinds,
             LoadFile(c, kind) \/ UploadInline(c, kind)
      PROVE  IInv'
  <2>1. PICK handler \in Handlers :
               kind \in handler.kinds /\ Register(c, kind, handler)
    BY <1>1 DEF LoadFile, UploadInline, Handlers
  <2> QED BY <2>1, RegisterIInv
<1>2. ASSUME NEW c \in Clients, NEW h \in Handle, NEW kind \in Kinds,
             Unload(c, h, kind)
      PROVE  IInv'
  BY <1>2, UnloadIInv
<1>3. ASSUME NEW handler \in Handlers, LoadFails(handler) \/ LoadRefused(handler)
      PROVE  IInv'
  <2>1. CASE LoadFails(handler)
    <3>1. PICK k \in DOMAIN handler.steps : Allocate(LeftAt(handler, k))
      BY <2>1 DEF LoadFails
    <3>2. LeftAt(handler, k) = {}
      BY HandlersAreClean DEF Clean
    <3> QED BY <2>1, <3>1, <3>2, FailureIInv DEF LoadFails
  <2>2. CASE LoadRefused(handler)
    <3>1. HeldAtEnd(handler) \ handler.undo = {}
      BY HandlersAreClean DEF Clean
    <3> QED BY <2>2, <3>1, FailureIInv DEF LoadRefused
  <2> QED BY <1>3, <2>1, <2>2
<1>4. CASE LoadFails(UnknownType)
  <2>1. PICK k \in DOMAIN UnknownType.steps : Allocate(LeftAt(UnknownType, k))
    BY <1>4 DEF LoadFails
  <2>2. LeftAt(UnknownType, k) = {}
    BY UnknownTypeIsClean
  <2> QED BY <1>4, <2>1, <2>2, FailureIInv DEF LoadFails
<1>5. CASE UNCHANGED vars
  BY <1>5 DEF vars, IInv, TypeOK, SlotsOwnObjects, SlotsHavePtr, UsedIndex, Alive
<1> QED BY <1>1, <1>2, <1>3, <1>4, <1>5 DEF Next, Handlers

\* The inductive invariant holds of every reachable state.
THEOREM Invariant == Spec => []IInv
BY InitIInv, NextIInv, PTL DEF Spec

\* The registry keeps its types: handles stay in 1..HandleMax.
THEOREM TypeCorrect == Spec => []TypeOK
<1>1. IInv => TypeOK
  BY DEF IInv
<1> QED BY Invariant, <1>1, PTL

\* Whatever loads fail and whatever is unloaded, the used slots and the
\* allocated resources are one to one: no leak, no dangling pointer, no
\* resource that would be freed twice.
THEOREM OwnershipHolds == Spec => []SlotsOwnObjects
<1>1. IInv => SlotsOwnObjects
  BY DEF IInv
<1> QED BY Invariant, <1>1, PTL

\* handle_alloc reports a full registry only when it is full, wherever the
\* search hint points.
THEOREM RefusalIsHonest == Spec => RefusedOnlyWhenFull
<1>1. ASSUME IInv, [Next]_vars
      PROVE  [ reply' = "full" /\ loads' # loads => UsedIndex = Index ]_vars
  <2>1. ASSUME Next, reply' = "full", loads' # loads
        PROVE  UsedIndex = Index
    <3>1. \E handler \in Handlers : LoadRefused(handler)
      BY <2>1 DEF Next, LoadFile, UploadInline, Register, LoadFails, Unload,
                     Handlers
    <3> QED BY <1>1, <3>1, NoFreeProbe DEF LoadRefused, IInv
  <2> QED BY <1>1, <2>1
<1> QED BY Invariant, <1>1, PTL DEF Spec, RefusedOnlyWhenFull
(***************************************************************************)
(* Commands                                                                *)
(***************************************************************************)

\* A used slot has the kind that its resource was made as.  With IInv this is
\* inductive: a new resource is in no slot yet.
KindsKept ==
    /\ made \in [Resource -> Kinds \cup {NoKind}]
    /\ \A i \in UsedIndex : made[slots[i].ptr] = slots[i].kind

CInv == IInv /\ KindsKept

\* Every command is a step of the registry, or leaves it alone.
LEMMA CommandIsRegistryStep == CommandsNext => [Next]_vars
<1> SUFFICES ASSUME CommandsNext PROVE [Next]_vars
  OBVIOUS
<1>1. ASSUME NEW c \in Clients, NEW kind \in ResourceKinds,
             ExecuteLoad(c, kind) \/ ExecuteUpload(c, kind)
      PROVE  Next
  <2>1. \/ LoadFile(c, kind) \/ UploadInline(c, kind)
        \/ \E handler \in FileHandlers \cup UploadHandlers :
             LoadFails(handler) \/ LoadRefused(handler)
    BY <1>1 DEF ExecuteLoad, ExecuteUpload, Loads, Of
  <2>2. LoadFile(c, kind) \/ UploadInline(c, kind) => kind \in Kinds
    BY DEF LoadFile, UploadInline, Register
  <2> QED BY <2>1, <2>2 DEF Next
<1>2. ASSUME NEW c \in Clients, NEW h \in AnyHandle, NEW kind \in Kinds,
             ExecuteUnload(c, h, kind)
      PROVE  [Next]_vars
  <2>1. CASE Unload(c, h, kind)
    <3>1. h \in Handle
      BY <2>1 DEF Unload, handle_get
    <3> QED BY <2>1, <3>1 DEF Next
  <2> QED BY <1>2, <2>1 DEF ExecuteUnload
<1>3. CASE \/ ExecutePlain \/ ExecuteUnknown \/ HandledDirectly \/ Replay
           \/ UseResource \/ Query \/ \E h \in AnyHandle : GetInfo(h)
  BY <1>3 DEF ExecutePlain, ExecuteUnknown, HandledDirectly, Replay,
              UseResource, Query, GetInfo
<1>4. CASE CommitUnknownType
  BY <1>4 DEF CommitUnknownType, Next
<1> QED BY <1>1, <1>2, <1>3, <1>4 DEF CommandsNext

\* A load that ends well puts the resource of its kind into a slot that was
\* free.
LEMMA RegisterKeepsKinds ==
  ASSUME CInv, NEW c \in Clients, NEW kind \in Kinds, NEW handler \in Handlers,
         Register(c, kind, handler),
         made' = [made EXCEPT ![NewResource] = kind]
  PROVE  KindsKept'
<1> DEFINE n == NewResource
<1>0. TypeOK /\ SlotsOwnObjects /\ SlotsHavePtr /\ KindsKept
  BY DEF CInv, IInv
<1>1. /\ n \in Resource /\ heap[n] = {}
      /\ \A i \in UsedIndex : slots[i].ptr \in Resource /\ slots[i].ptr # n
  <2>1. n \in Resource /\ heap[n] = {}
    BY MaxLoadsAssumption
       DEF CInv, IInv, TypeOK, Register, Allocate, NewResource, Resource
  <2> QED BY <1>0, <2>1 DEF SlotsOwnObjects, SlotsHavePtr, Alive
<1>2. PICK k \in Index : handle_alloc(k, kind, n)
  BY DEF Register
<1>3. /\ slots' = [slots EXCEPT ![k] = [ptr |-> n, kind |-> kind, used |-> TRUE]]
      /\ made' = [made EXCEPT ![n] = kind]
  BY <1>2 DEF handle_alloc
<1> HIDE DEF n
<1>4. made' \in [Resource -> Kinds \cup {NoKind}]
  BY <1>0, <1>1, <1>3 DEF KindsKept
<1>5. ASSUME NEW i \in UsedIndex'
      PROVE  made'[slots'[i].ptr] = slots'[i].kind
  <2>1. CASE i = k
    BY <1>0, <1>1, <1>3, <2>1 DEF TypeOK, KindsKept
  <2>2. CASE i # k
    <3>1. i \in UsedIndex /\ slots'[i] = slots[i]
      BY <1>0, <1>1, <1>3, <2>2 DEF TypeOK, UsedIndex
    <3> QED BY <1>0, <1>1, <1>3, <3>1 DEF KindsKept
  <2> QED BY <2>1, <2>2
<1> QED BY <1>4, <1>5 DEF KindsKept

\* What a load does to the kinds, however it ends.
LEMMA LoadsKeepKinds ==
  ASSUME CInv, NEW c \in Clients, NEW kind \in ResourceKinds,
         ExecuteLoad(c, kind) \/ ExecuteUpload(c, kind)
  PROVE  KindsKept'
<1>1. made' = IF reply' = "handle" THEN [made EXCEPT ![NewResource] = kind]
                                   ELSE made
  BY DEF ExecuteLoad, ExecuteUpload, Loads
<1>2. CASE LoadFile(c, kind) \/ UploadInline(c, kind)
  <2>1. PICK handler \in Handlers : Register(c, kind, handler)
    BY <1>2 DEF LoadFile, UploadInline, Handlers
  <2>2. reply' = "handle" /\ kind \in Kinds
    BY <2>1 DEF Register
  <2> QED BY <1>1, <2>1, <2>2, RegisterKeepsKinds
<1>3. CASE \E handler \in Handlers : LoadFails(handler) \/ LoadRefused(handler)
  <2>1. slots' = slots /\ made' = made
    BY <1>1, <1>3 DEF LoadFails, LoadRefused
  <2> QED BY <2>1 DEF CInv, KindsKept, UsedIndex
<1> QED BY <1>2, <1>3 DEF ExecuteLoad, ExecuteUpload, Loads, Of, Handlers

\* An unload leaves the other slots as they are, and their resources.
LEMMA UnloadKeepsKinds ==
  ASSUME CInv, NEW c \in Clients, NEW h \in AnyHandle, NEW kind \in Kinds,
         ExecuteUnload(c, h, kind)
  PROVE  KindsKept'
<1>1. CASE /\ Unload(c, h, kind)
           /\ made' = [made EXCEPT ![handle_get(h, kind)] = NoKind]
  <2> DEFINE k == h - 1
             r == slots[k].ptr
  <2>1. k \in Index /\ slots[k].used /\ handle_get(h, kind) = r
    BY <1>1, HandleMaxAssumption DEF Unload, handle_get, Handle, Index
  <2>2. /\ slots' = [slots EXCEPT ![k] = FreeSlot]
        /\ made' = [made EXCEPT ![r] = NoKind]
    BY <1>1, <2>1 DEF Unload, handle_free
  <2> HIDE DEF k
  <2>3. \A i \in UsedIndex' : i \in UsedIndex /\ i # k /\ slots'[i] = slots[i]
    BY <2>1, <2>2 DEF CInv, IInv, TypeOK, UsedIndex, FreeSlot
  <2>4. k \in UsedIndex
    BY <2>1 DEF UsedIndex
  <2>5. \A i \in UsedIndex' : slots[i].ptr \in Resource /\ slots[i].ptr # r
    BY <2>3, <2>4 DEF CInv, IInv, SlotsOwnObjects, SlotsHavePtr
  <2> HIDE DEF r
  <2>6. made \in [Resource -> Kinds \cup {NoKind}]
    BY DEF CInv, KindsKept
  <2>7. made' \in [Resource -> Kinds \cup {NoKind}]
    BY <2>2, <2>6
  <2>8. \A i \in UsedIndex' : made'[slots'[i].ptr] = slots'[i].kind
    BY <2>2, <2>3, <2>5, <2>6 DEF CInv, KindsKept
  <2> QED BY <2>7, <2>8 DEF KindsKept
<1>2. CASE UNCHANGED <<vars, made>>
  BY <1>2 DEF vars, CInv, KindsKept, UsedIndex
<1> QED BY <1>1, <1>2 DEF ExecuteUnload

LEMMA CommandsCInv == CInv /\ [CommandsNext]_cvars => CInv'
<1> SUFFICES ASSUME CInv, [CommandsNext]_cvars PROVE CInv'
  OBVIOUS
<1>1. IInv'
  BY CommandIsRegistryStep, NextIInv DEF CInv, cvars
<1>2. KindsKept'
  <2>1. ASSUME NEW c \in Clients, NEW kind \in ResourceKinds,
               ExecuteLoad(c, kind) \/ ExecuteUpload(c, kind)
        PROVE  KindsKept'
    BY <2>1, LoadsKeepKinds
  <2>2. ASSUME NEW c \in Clients, NEW h \in AnyHandle, NEW kind \in Kinds,
               ExecuteUnload(c, h, kind)
        PROVE  KindsKept'
    BY <2>2, UnloadKeepsKinds
  <2>3. CASE UNCHANGED <<vars, made>>
    BY <2>3 DEF vars, CInv, KindsKept, UsedIndex
  <2>4. CASE \/ ExecutePlain \/ ExecuteUnknown \/ HandledDirectly \/ Replay
             \/ UseResource \/ Query \/ \E h \in AnyHandle : GetInfo(h)
             \/ UNCHANGED cvars
    BY <2>3, <2>4 DEF ExecutePlain, ExecuteUnknown, HandledDirectly, Replay,
                      UseResource, Query, GetInfo, cvars
  <2>5. CASE CommitUnknownType
    <3>1. slots' = slots /\ made' = made
      BY <2>5 DEF CommitUnknownType, LoadFails
    <3> QED BY <3>1 DEF CInv, KindsKept, UsedIndex
  <2> QED BY <2>1, <2>2, <2>4, <2>5 DEF CommandsNext
<1> QED BY <1>1, <1>2 DEF CInv

\* The inductive invariant of the commands.
THEOREM CommandsInvariant == CommandsSpec => []CInv
<1>1. CommandsInit => CInv
  <2> SUFFICES ASSUME CommandsInit PROVE CInv
    OBVIOUS
  <2>1. IInv
    BY InitIInv DEF CommandsInit
  <2>2. UsedIndex = {}
    BY DEF CommandsInit, Init, UsedIndex, FreeSlot
  <2> QED BY <2>1, <2>2 DEF CommandsInit, CInv, KindsKept
<1> QED BY <1>1, CommandsCInv, PTL DEF CommandsSpec

\* What a handle is looked up as is alive, and was made as that kind.
LEMMA FoundIsLive ==
  ASSUME CInv, NEW h, NEW kind, NEW p \in Get(h, kind)
  PROVE  Alive(p[1]) /\ made[p[1]] = p[2]
<1>1. h \in Handle /\ slots[h - 1].used /\ slots[h - 1].kind = kind
  BY DEF Get, handle_get
<1>2. p = <<slots[h - 1].ptr, kind>>
  BY DEF Get, handle_get
<1>3. h - 1 \in UsedIndex
  BY <1>1, HandleMaxAssumption DEF Handle, Index, UsedIndex
<1> QED BY <1>1, <1>2, <1>3 DEF CInv, IInv, SlotsOwnObjects, KindsKept

\* Whatever handle a command carries, what it hands to raylib is alive and of
\* the kind that the raylib function takes.
THEOREM PassesOnlyTheLiving == CommandsSpec => []PassedAreLive
<1>1. CInv => PassedAreLive
  <2> SUFFICES ASSUME CInv, NEW h \in AnyHandle,
                      NEW p \in UpdatedMusic
                             \cup UNION {Passed(h)[n] : n \in DOMAIN Passed(h)}
               PROVE  Alive(p[1]) /\ made[p[1]] = p[2]
    BY DEF PassedAreLive
  <2>1. CASE p \in UpdatedMusic
    BY <2>1, FoundIsLive DEF UpdatedMusic
  <2>2. CASE p \in UNION {Passed(h)[n] : n \in DOMAIN Passed(h)}
    <3>1. PICK n \in DOMAIN Passed(h) : p \in Passed(h)[n]
      BY <2>2
    <3>2. \E kind : p \in Get(h, kind)
      BY <3>1 DEF Passed, get_tex_any
    <3> QED BY <3>2, FoundIsLive
  <2> QED BY <2>1, <2>2
<1> QED BY <1>1, CommandsInvariant, PTL

\* The ownership of resources and the honesty of refusals hold of the
\* commands: none of them reaches into the registry in another way.
THEOREM CommandsKeepTheRegistry ==
  CommandsSpec => []SlotsOwnObjects /\ RefusedOnlyWhenFull
<1>1. CommandsInit => Init
  BY DEF CommandsInit
<1>2. [CommandsNext]_cvars => [Next]_vars
  BY CommandIsRegistryStep DEF cvars
<1>3. CommandsSpec => Spec
  BY <1>1, <1>2, PTL DEF CommandsSpec, Spec
<1> QED BY <1>3, OwnershipHolds, RefusalIsHonest, PTL
(***************************************************************************)
(* Answers                                                                 *)
(***************************************************************************)

\* Commands that the main thread answers are not acknowledged: they go into
\* the queue, and their names are in the table of protocol.c or of one of its
\* families.
LEMMA AnswererIsSilent ==
  ASSUME NEW name \in Queries \cup {"GetTextureInfo", "GetFontInfo", "CommitUpload"}
                      \cup DOMAIN LoadKind \cup DOMAIN UploadKind
  PROVE  Acknowledged(name) = <<>> /\ Class(name) # "talkative"
<1>1. protocol_needs_response(name)
  BY SpellingAssumption DEF protocol_needs_response, Queries, ServerQueries
<1>2. name \notin DirectCommands
  <2> USE DEF DirectCommands, DisplayListCommands, UploadCommands,
              EventCommands, TimerCommands
  <2>1. CASE name \in WindowQueries
    BY <2>1 DEF WindowQueries
  <2>2. CASE name \in InputQueries
    BY <2>2 DEF InputQueries
  <2>3. CASE name \in ServerQueries
                      \cup {"GetTextureInfo", "GetFontInfo", "CommitUpload"}
    BY <2>3 DEF ServerQueries
  <2>4. CASE name \in DOMAIN LoadKind
    BY <2>4 DEF LoadKind
  <2>5. CASE name \in DOMAIN UploadKind
    BY <2>5 DEF UploadKind
  <2> QED BY <2>1, <2>2, <2>3, <2>4, <2>5 DEF Queries
<1>3. Class(name) # "talkative"
  BY <1>2 DEF Class, Talkative, DirectCommands, TimerCommands
<1> QED BY <1>1, <1>2, <1>3 DEF Acknowledged, Unacknowledged, Queued

\* Commands that the main thread carries out without a word are acknowledged.
LEMMA SilentIsAcknowledged ==
  ASSUME NEW name \in Plain \cup Using \cup DOMAIN UnloadKind
  PROVE  Acknowledged(name) = <<"ok">> /\ Class(name) # "talkative"
<1>1. name \notin {"BeginUpload", "CommitUpload", "AbortUpload", "ListUploads",
                   "MeasureText", "MeasureTextEx", "ListHandles",
                   "GetServerInfo"} \cup Talkative
  <2> USE DEF Talkative
  <2>1. CASE name \in Plain
    BY <2>1 DEF Plain, WindowCommands, IgnoredCommands, PlainModes,
       LineCommands, RoundCommands, RectangleCommands, PolygonCommands,
       PointCommands, SolidCommands, AudioDevice
  <2>2. CASE name \in Using
    BY <2>2 DEF Using, FontCommands, TextureCommands, UniformCommands,
       SoundCommands, MusicCommands, ModelCommands, ModeCommands
  <2>3. CASE name \in DOMAIN UnloadKind
    BY <2>3 DEF UnloadKind
  <2> QED BY <2>1, <2>2, <2>3
<1>2. ~protocol_needs_response(name)
  BY <1>1, SpellingAssumption DEF protocol_needs_response
<1> QED BY <1>1, <1>2 DEF Acknowledged, Unacknowledged, Class

\* One answer, from either thread, makes one.
LEMMA ToldOnce ==
  ASSUME NEW names, NEW sent, Told(names, sent),
         \A n \in names : Class(n) # "talkative",
         \/ /\ \A n \in names : Acknowledged(n) = <<>>
            /\ sent \in {<<"ok">>, <<"error">>}
         \/ /\ \A n \in names : Acknowledged(n) = <<"ok">>
            /\ sent = <<>>
  PROVE  AnsweredByOne'
<1>1. ASSUME NEW n \in names, last' = Outcome("silent", n, <<>>)
      PROVE  AnsweredByOne'
  <2>1. /\ last'.origin = "silent" /\ last'.class # "talkative"
        /\ Len(last'.told) = 0
    BY <1>1 DEF Outcome
  <2> QED BY <2>1 DEF AnsweredByOne
<1>2. ASSUME NEW n \in names, last' = Outcome("asked", n, Acknowledged(n) \o sent)
      PROVE  AnsweredByOne'
  <2>1. \/ last'.told = <<>> \o <<"ok">> \/ last'.told = <<>> \o <<"error">>
        \/ last'.told = <<"ok">> \o <<>>
    BY <1>2 DEF Outcome
  <2>2. Len(last'.told) = 1 /\ last'.origin = "asked"
    BY <1>2, <2>1 DEF Outcome
  <2> QED BY <2>2 DEF AnsweredByOne
<1> QED BY <1>1, <1>2 DEF Told

LEMMA LoadsTellOnce ==
  ASSUME NEW names, Told(names, <<"ok">>) \/ Told(names, <<"error">>),
         names \subseteq DOMAIN LoadKind \cup DOMAIN UploadKind \cup {"CommitUpload"}
  PROVE  AnsweredByOne'
<1>1. \A n \in names : Acknowledged(n) = <<>> /\ Class(n) # "talkative"
  BY AnswererIsSilent
<1> QED BY <1>1, ToldOnce

\* What is handled in the connection thread: three names answer in any case,
\* the others only an id.
LEMMA DirectTellsOnce == HandledDirectly => AnsweredByOne'
<1> SUFFICES ASSUME HandledDirectly PROVE AnsweredByOne'
  OBVIOUS
<1>1. ASSUME NEW name \in Direct, NEW sent \in DirectAnswers(name),
             last' = Outcome("asked", name, sent)
      PROVE  AnsweredByOne'
  <2>1. last'.origin = "asked" /\ Len(last'.told) = 1
    BY <1>1 DEF Outcome, DirectAnswers
  <2> QED BY <2>1 DEF AnsweredByOne
<1>2. ASSUME NEW name \in Direct \ Talkative, last' = Outcome("silent", name, <<>>)
      PROVE  AnsweredByOne'
  <2>1. /\ last'.origin = "silent" /\ last'.class # "talkative"
        /\ Len(last'.told) = 0
    BY <1>2 DEF Outcome, Class
  <2> QED BY <2>1 DEF AnsweredByOne
<1>3. ASSUME NEW name \in Talkative, NEW sent \in DirectAnswers(name),
             last' = Outcome("silent", name, sent)
      PROVE  AnsweredByOne'
  <2>1. Class(name) = "talkative"
    BY DEF Class, Talkative, UnknownCommands
  <2>2. /\ last'.origin = "silent" /\ last'.class = "talkative"
        /\ Len(last'.told) = 1
    BY <1>3, <2>1 DEF Outcome, DirectAnswers
  <2> QED BY <2>2 DEF AnsweredByOne
<1>4. CASE last' \in Outcomes("asked", Direct)
  BY <1>1, <1>4 DEF Outcomes
<1>5. CASE last' \in {Outcome("silent", name, <<>>) : name \in Direct \ Talkative}
  BY <1>2, <1>5
<1>6. CASE last' \in Outcomes("silent", Talkative)
  BY <1>3, <1>6 DEF Outcomes
<1> QED BY <1>4, <1>5, <1>6 DEF HandledDirectly, DirectOutcomes

\* An unknown command is acknowledged, or not even that.
LEMMA UnknownTellsAtMostOnce == ExecuteUnknown => AnsweredByOne'
<1> SUFFICES ASSUME ExecuteUnknown PROVE AnsweredByOne'
  OBVIOUS
<1>1. \A n \in UnknownCommands : Class(n) = "unknown"
  BY DEF Class
<1>2. ASSUME NEW n \in UnknownCommands, last' = Outcome("silent", n, <<>>)
      PROVE  AnsweredByOne'
  <2>1. /\ last'.origin = "silent" /\ last'.class # "talkative"
        /\ Len(last'.told) = 0
    BY <1>1, <1>2 DEF Outcome
  <2> QED BY <2>1 DEF AnsweredByOne
<1>3. ASSUME NEW n \in UnknownCommands,
             last' = Outcome("asked", n, Acknowledged(n) \o <<>>)
      PROVE  AnsweredByOne'
  <2>1. last'.told = <<"ok">> \o <<>> \/ last'.told = <<>> \o <<>>
    BY <1>3 DEF Outcome, Acknowledged
  <2>2. /\ last'.origin = "asked" /\ last'.class = "unknown"
        /\ Len(last'.told) \in {0, 1}
    BY <1>1, <1>3, <2>1 DEF Outcome
  <2> QED BY <2>2 DEF AnsweredByOne
<1> QED BY <1>2, <1>3 DEF ExecuteUnknown, Told

LEMMA CommandTellsOnce == CommandsNext => AnsweredByOne'
<1> SUFFICES ASSUME CommandsNext PROVE AnsweredByOne'
  OBVIOUS
<1>1. CASE ExecutePlain \/ UseResource
  BY <1>1, SilentIsAcknowledged, ToldOnce DEF ExecutePlain, UseResource
<1>2. CASE HandledDirectly \/ ExecuteUnknown
  BY <1>2, DirectTellsOnce, UnknownTellsAtMostOnce
<1>3. CASE Replay
  <2>1. last'.origin = "replayed" /\ Len(last'.told) = 0
    BY <1>3 DEF Replay, Outcome
  <2> QED BY <2>1 DEF AnsweredByOne
<1>4. ASSUME NEW h \in AnyHandle, GetInfo(h) PROVE AnsweredByOne'
  <2>1. \A n \in {"GetTextureInfo", "GetFontInfo"} :
          Acknowledged(n) = <<>> /\ Class(n) # "talkative"
    BY AnswererIsSilent
  <2> QED BY <1>4, <2>1, ToldOnce DEF GetInfo
<1>5. CASE Query
  BY <1>5, AnswererIsSilent, ToldOnce DEF Query
<1>6. ASSUME NEW c \in Clients, NEW kind \in ResourceKinds,
             ExecuteLoad(c, kind) \/ ExecuteUpload(c, kind)
      PROVE  AnsweredByOne'
  <2> QED BY <1>6, LoadsTellOnce DEF ExecuteLoad, ExecuteUpload, Loads
<1>7. CASE CommitUnknownType
  BY <1>7, LoadsTellOnce DEF CommitUnknownType
<1>8. ASSUME NEW c \in Clients, NEW h \in AnyHandle, NEW kind \in Kinds,
             ExecuteUnload(c, h, kind)
      PROVE  AnsweredByOne'
  <2>1. \A n \in {m \in DOMAIN UnloadKind : UnloadKind[m] = kind} :
           Acknowledged(n) = <<"ok">> /\ Class(n) # "talkative"
    BY SilentIsAcknowledged
  <2> QED BY <1>8, <2>1, ToldOnce DEF ExecuteUnload
<1> QED BY <1>1, <1>2, <1>3, <1>4, <1>5, <1>6, <1>7, <1>8 DEF CommandsNext

\* The tables of names in server.c, protocol.c and commands.c agree: whatever
\* a command that the server knows is called and however it ends, exactly one
\* thread answers its id; without an id only three of the timers' commands
\* are answered, in the connection thread; and nothing is answered twice.
THEOREM EachIdAnsweredOnce == CommandsSpec => []AnsweredByOne
<1>1. CommandsInit => AnsweredByOne
  <2> SUFFICES ASSUME CommandsInit PROVE AnsweredByOne
    OBVIOUS
  <2>1. /\ last.origin = "silent" /\ last.class # "talkative"
        /\ Len(last.told) = 0
    BY DEF CommandsInit
  <2> QED BY <2>1 DEF AnsweredByOne
<1>2. AnsweredByOne /\ [CommandsNext]_cvars => AnsweredByOne'
  BY CommandTellsOnce DEF cvars, AnsweredByOne
<1> QED BY <1>1, <1>2, PTL DEF CommandsSpec
=============================================================================
