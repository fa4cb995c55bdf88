--------------------------- MODULE HandleRegistry ---------------------------
(***************************************************************************)
(* The handle registry (src/src/handle_registry.c) and the commands of     *)
(* src/src/commands.c that put raylib resources into it and take them out. *)
(* All of it runs on the main thread, one command after the other, for all *)
(* clients: handles are global.                                            *)
(*                                                                         *)
(* A load or upload command takes what it needs piece by piece: a buffer   *)
(* of decoded data, an image, the struct for the registry, raylib's own    *)
(* object.  Each piece may not be had, and the handler then has to give    *)
(* back what it holds, by a list of calls written out on that one path.    *)
(* The handlers are given here as tables of these steps, and the heap says *)
(* what is left of each load.  A load is named by its number, which is     *)
(* never used again: unlike the handle, and unlike an address.             *)
(***************************************************************************)
EXTENDS Integers, Sequences

CONSTANTS
    HandleMax,  \* HANDLE_MAX (4096 in handle_registry.h)
    Kinds,      \* bound: the kinds of which a load may succeed
    NoKind,     \* HANDLE_NONE
    Clients,    \* who sends the commands
    MaxLoads    \* bound: load commands in one behaviour

\* HandleKind, but for HANDLE_NONE.
ResourceKinds ==
    {"texture", "font", "renderTexture", "sound", "music", "shader", "model"}

ASSUME HandleMaxAssumption == HandleMax \in Nat \ {0}
ASSUME KindsAssumption == Kinds \subseteq ResourceKinds /\ NoKind \notin Kinds
ASSUME MaxLoadsAssumption == MaxLoads \in Nat

Index    == 0..HandleMax-1
Handle   == 1..HandleMax
Resource == 1..MaxLoads
NULL     == 0

VARIABLES
    slots,      \* the registry
    next_hint,  \* where the next search starts
    loads,      \* load commands executed so far
    heap,       \* what is allocated of each resource
    reply,      \* what the last command answered its client
    holds       \* history: what each client's handles were given to it for

vars == <<slots, next_hint, loads, heap, reply, holds>>

\* The struct in the registry, raylib's object inside it, the buffer of the
\* decoded base64 or of a chunked upload, an image or wave on the way to the
\* object, and a font's list of code points.
Part == {"struct", "object", "data", "decoded", "codepoints"}

Slot == [ptr : Resource \cup {NULL}, kind : Kinds \cup {NoKind}, used : BOOLEAN]

TypeOK ==
    /\ slots \in [Index -> Slot]
    /\ next_hint \in Index
    /\ loads \in 0..MaxLoads
    /\ heap \in [Resource -> SUBSET Part]
    /\ reply \in {"none", "handle", "failed", "full"}
    /\ holds \in [Clients -> [Handle -> Resource \cup {NULL}]]

FreeSlot == [ptr |-> NULL, kind |-> NoKind, used |-> FALSE]

Init ==
    /\ slots = [i \in Index |-> FreeSlot]
    /\ next_hint = 0
    /\ loads = 0
    /\ heap = [r \in Resource |-> {}]
    /\ reply = "none"
    /\ holds = [c \in Clients |-> [h \in Handle |-> NULL]]

(***************************************************************************)
(* The registry's own operations                                           *)
(***************************************************************************)

\* The i-th slot that handle_alloc looks at.
Probe(i) == (next_hint + i) % HandleMax

\* Fault: the search stops at the end of the table instead of wrapping.
FreeProbesNoWrap ==
    {i \in Index : next_hint + i < HandleMax /\ ~slots[Probe(i)].used}

\* The probes that find a free slot: the first of them decides, and there is
\* none when the registry is full.
FreeProbes == {i \in Index : ~slots[Probe(i)].used}

\* handle_get: the resource behind a handle if it is of that kind, else NULL.
handle_get(h, kind) ==
    IF h \in Handle /\ slots[h - 1].used /\ slots[h - 1].kind = kind
    THEN slots[h - 1].ptr
    ELSE NULL

\* handle_alloc, when its search ends at slot index.
handle_alloc(index, kind, ptr) ==
    /\ \E i \in FreeProbes :
         /\ \A j \in FreeProbes : i <= j
         /\ index = Probe(i)
    /\ slots' = [slots EXCEPT ![index] =
                    [ptr |-> ptr, kind |-> kind, used |-> TRUE]]
    /\ next_hint' = (index + 1) % HandleMax

\* The freed slot is the first that the next allocation looks at.
handle_free(h) ==
    /\ slots' = [slots EXCEPT ![h - 1] = FreeSlot]
    /\ next_hint' = h - 1

(***************************************************************************)
(* The handlers of Load* and Upload*, step by step                         *)
(***************************************************************************)

\* Try to get some parts; on failure free these and return an error.
Take(parts, undo) == [takes |-> parts, undo |-> undo, drops |-> {}]

\* The same, and other parts are freed as soon as it has been tried.
TakeAndDrop(parts, undo, drops) ==
    [takes |-> parts, undo |-> undo, drops |-> drops]

\* A handler: for which kinds, its steps, and what it frees when handle_alloc
\* finds no slot.
Handler(kinds, steps, undo) == [kinds |-> kinds, steps |-> steps, undo |-> undo]

\* Load*, and UploadShader: raylib reads the file itself.
FromFile ==
    Handler(ResourceKinds,
            <<Take({"struct"}, {}),
              Take({"object"}, {"struct"})>>,
            {"struct", "object"})

LoadFontEx ==
    Handler({"font"},
            <<Take({"codepoints"}, {}),
              Take({"struct"}, {"codepoints"}),
              TakeAndDrop({"object"}, {"struct"}, {"codepoints"})>>,
            {"struct", "object"})

\* UploadTexture and UploadSound, and CommitUpload of these: by way of an
\* image or a wave, which replaces the data.
FromDecoded ==
    Handler({"texture", "sound"},
            <<Take({"data"}, {}),
              TakeAndDrop({"decoded"}, {}, {"data"}),
              Take({"struct"}, {"decoded"}),
              TakeAndDrop({"object"}, {"struct"}, {"decoded"})>>,
            {"struct", "object"})

UploadTextureRaw ==
    Handler({"texture"},
            <<Take({"data"}, {}),
              Take({"struct"}, {"data"}),
              TakeAndDrop({"object"}, {"struct"}, {"data"})>>,
            {"struct", "object"})

\* UploadFont, and CommitUpload of a font.  The font keeps its data.
UploadFont ==
    Handler({"font"},
            <<Take({"data", "codepoints"}, {}),
              Take({"struct"}, {"data", "codepoints"}),
              TakeAndDrop({"object"}, {"data", "struct"}, {"codepoints"})>>,
            {"struct", "object", "data"})

\* Fault: the data is not freed when raylib cannot make music of it.
UploadMusicLeaks ==
    Handler({"music"},
            <<Take({"data"}, {}),
              Take({"struct"}, {"data"}),
              Take({"object"}, {"struct"})>>,
            {"struct", "object", "data"})

\* UploadMusic, and CommitUpload of music, which is decoded from its data as
\* it plays.
UploadMusic ==
    Handler({"music"},
            <<Take({"data"}, {}),
              Take({"struct"}, {"data"}),
              Take({"object"}, {"data", "struct"})>>,
            {"struct", "object", "data"})

\* CommitUpload for a type that it does not know: never an object.
UnknownType ==
    Handler({}, <<Take({"data"}, {}), Take({"object"}, {"data"})>>, {})

FileHandlers   == {FromFile, LoadFontEx}
UploadHandlers == {FromDecoded, UploadTextureRaw, UploadFont, UploadMusic}

\* What a handler holds after its first k steps.
Held(handler, k) ==
    {part \in Part :
        \E j \in 1..k :
            /\ part \in handler.steps[j].takes
            /\ \A i \in j..k : part \notin handler.steps[i].drops}

HeldAtEnd(handler) == Held(handler, Len(handler.steps))

\* What is still allocated when it returns because of its k-th step.
LeftAt(handler, k) ==
    Held(handler, k - 1) \ (handler.steps[k].drops \cup handler.steps[k].undo)

(***************************************************************************)
(* Load* and Upload*                                                       *)
(***************************************************************************)

\* The resource the next load makes.
NewResource == loads + 1

\* A load command starts, and in the end has allocated these parts.
Allocate(parts) ==
    /\ loads < MaxLoads
    /\ loads' = loads + 1
    /\ heap' = [heap EXCEPT ![NewResource] = parts]

\* What every load command does when all goes well.
Register(c, kind, handler) ==
    /\ kind \in Kinds
    /\ Allocate(HeldAtEnd(handler))
    /\ \E index \in Index :
         /\ handle_alloc(index, kind, NewResource)
         /\ holds' = [holds EXCEPT ![c][index + 1] = NewResource]
    /\ reply' = "handle"

\* Load*: the resource comes from a file.
LoadFile(c, kind) ==
    \E handler \in FileHandlers :
        kind \in handler.kinds /\ Register(c, kind, handler)

\* Upload*: the resource comes from the base64 data of the command, or of the
\* chunks that CommitUpload takes over.
UploadInline(c, kind) ==
    \E handler \in UploadHandlers :
        kind \in handler.kinds /\ Register(c, kind, handler)

\* One of the steps fails.  (A wrong argument is found before the first one,
\* and leaves what a failure of the first one leaves.)
LoadFails(handler) ==
    /\ \E k \in DOMAIN handler.steps : Allocate(LeftAt(handler, k))
    /\ reply' = "failed"
    /\ UNCHANGED <<slots, next_hint, holds>>

\* handle_alloc returned 0: the resource is unloaded and freed again.
LoadRefused(handler) ==
    /\ FreeProbes = {}
    /\ Allocate(HeldAtEnd(handler) \ handler.undo)
    /\ reply' = "full"
    /\ UNCHANGED <<slots, next_hint, holds>>

(***************************************************************************)
(* Unload*                                                                 *)
(***************************************************************************)

\* What a resource of a kind may consist of, and what Unload* of it frees.
Owned(kind) ==
    {"struct", "object"} \cup (IF kind \in {"font", "music"} THEN {"data"} ELSE {})

\* Any client may unload any handle.  It is fire-and-forget: an invalid
\* handle, or one of another kind, is logged and changes nothing.
Unload(c, h, kind) ==
    /\ handle_get(h, kind) # NULL
    /\ heap' = [heap EXCEPT ![handle_get(h, kind)] = @ \ Owned(kind)]
    /\ handle_free(h)
    /\ holds' = [holds EXCEPT ![c][h] = NULL]
    /\ reply' = "none"
    /\ UNCHANGED loads

Next ==
    \/ \E c \in Clients, kind \in Kinds : LoadFile(c, kind)
    \/ \E c \in Clients, kind \in Kinds : UploadInline(c, kind)
    \/ \E handler \in FileHandlers \cup UploadHandlers :
         LoadFails(handler) \/ LoadRefused(handler)
    \/ LoadFails(UnknownType)
    \/ \E c \in Clients, h \in Handle, kind \in Kinds : Unload(c, h, kind)

Spec == Init /\ [][Next]_vars

(***************************************************************************)
(* Properties                                                              *)
(***************************************************************************)

UsedIndex == {i \in Index : slots[i].used}

\* The resource is whole: raylib's object, in its struct.
Alive(r) == {"struct", "object"} \subseteq heap[r]

\* Every allocated resource is in exactly one slot and whole, and no slot
\* refers to a freed one: whichever step of whichever handler fails, nothing
\* leaks; nothing dangles; no two handles name one resource (Unload frees it
\* once); and what a resource consists of is what its Unload frees.
SlotsOwnObjects ==
    /\ \A i \in UsedIndex :
         Alive(slots[i].ptr) /\ heap[slots[i].ptr] \subseteq Owned(slots[i].kind)
    /\ \A i, j \in UsedIndex : slots[i].ptr = slots[j].ptr => i = j
    /\ \A r \in Resource :
         heap[r] # {} => \E i \in UsedIndex : slots[i].ptr = r

\* A load is refused for want of a handle only when every slot is in use.
RefusedOnlyWhenFull ==
    [][ reply' = "full" /\ loads' # loads => UsedIndex = Index ]_vars

\* README, Security: "out-of-range or freed handles return an error".  A
\* handle a client was given is answered by the resource it was given for, or
\* is invalid.
FreedHandleIsInvalid ==
    \A c \in Clients, h \in Handle :
        holds[c][h] # NULL =>
            (slots[h - 1].used => slots[h - 1].ptr = holds[c][h])
=============================================================================
