----------------------------- MODULE DisplayList -----------------------------
(***************************************************************************)
(* Display lists: src/src/display_list.c.                                  *)
(*                                                                         *)
(* Connection threads begin, record, end, clear, delete and reorder lists, *)
(* each under the registry's lock; the main thread replays all of them in  *)
(* one go, under the same lock.  The lists lie in an array that is closed  *)
(* up when one is deleted; the order of drawing and the list being         *)
(* recorded are indices into it.                                           *)
(***************************************************************************)
EXTENDS Integers, Sequences, FiniteSets, SequencesExt, FiniteSetsExt

CONSTANTS
    Clients,
    Names,      \* names of lists
    LongNames,  \* those of DL_NAME_MAX characters and more, all with the same beginning
    MaxLists,   \* DL_MAX_LISTS
    MaxCmds,    \* DL_MAX_CMDS
    MaxMentions \* bound: names in one DisplayListSetOrder

ASSUME NamesAssumption == LongNames \subseteq Names /\ {"none", "cut"} \cap Names = {}
ASSUME MaxAssumption == MaxLists \in Nat /\ MaxCmds \in Nat /\ MaxMentions \in Nat

Index == 1..MaxLists

\* The commands array of a list on the heap; 0 is NULL.
Storage == 1..MaxLists

\* A draw command: who sent it, and the list this client was recording.
ParsedCmd == [client : Clients, target : Names \cup {"none"}]

\* strncpy into name[DL_NAME_MAX].
Stored(name) == IF name \in LongNames THEN "cut" ELSE name

\* One entry of the array.
DisplayList ==
    [name : Names \cup {"none", "cut"}, cmds : Seq(ParsedCmd),
     storage : Storage \cup {0}]

VARIABLES
    lists,      \* the array
    list_count,
    order,      \* indices in drawing order
    recording,  \* recording_idx, 0 for none
    target,     \* history: the list each client is recording, as it knows
    pushed      \* the draw command that the latest step handed to the queue, if any

vars == <<lists, list_count, order, recording, target, pushed>>

Empty == [name |-> "none", cmds |-> <<>>, storage |-> 0]

TypeOK ==
    /\ list_count \in 0..MaxLists
    /\ lists \in [Index -> DisplayList]
    /\ \A i \in Index : Len(lists[i].cmds) <= MaxCmds
    /\ order \in Seq(1..list_count)
    /\ recording \in 0..list_count
    /\ target \in [Clients -> Names \cup {"none"}]
    /\ pushed \subseteq ParsedCmd

\* dl_init.
Init ==
    /\ lists = [i \in Index |-> Empty]
    /\ list_count = 0
    /\ order = <<>>
    /\ recording = 0
    /\ target = [c \in Clients |-> "none"]
    /\ pushed = {}

InUse == 1..list_count

\* find_idx compares the whole name with what was stored, and takes the first
\* entry that has it; 0 if there is none.
find_idx(name) ==
    LET found == {i \in InUse : lists[i].name = name} IN
    IF found = {} THEN 0 ELSE Min(found)

(***************************************************************************)
(* Recording                                                               *)
(***************************************************************************)

\* Fault: only the name and the count of a new entry are set.
FreshKeepsStorage(i, name) == [lists[i] EXCEPT !.name = Stored(name), !.cmds = <<>>]

\* alloc_idx: what an earlier list left in the entry is overwritten.
Fresh(i, name) == [name |-> Stored(name), cmds |-> <<>>, storage |-> 0]

\* DisplayListBegin: an existing list is emptied, a new one drawn last; a full
\* registry answers an error.
Begin(c, name) ==
    /\ IF find_idx(name) # 0
       THEN LET i == find_idx(name) IN
            /\ lists' = [lists EXCEPT ![i].cmds = <<>>]
            /\ recording' = i
            /\ UNCHANGED <<list_count, order>>
       ELSE LET i == list_count + 1 IN
            /\ list_count < MaxLists
            /\ lists' = [lists EXCEPT ![i] = Fresh(i, name)]
            /\ list_count' = i
            /\ order' = Append(order, i)
            /\ recording' = i
    /\ target' = [target EXCEPT ![c] = name]
    /\ pushed' = {}

\* DisplayListEnd, whoever began.
End(c) ==
    /\ recording' = 0
    /\ target' = [target EXCEPT ![c] = "none"]
    /\ pushed' = {}
    /\ UNCHANGED <<lists, list_count, order>>

FreeStorage == Storage \ {lists[i].storage : i \in InUse}

\* A recordable command: cloned into the list that is being recorded; when
\* nothing is, or the list is full, it goes to the queue like any other.
Draw(c) ==
    LET cmd == [client |-> c, target |-> target[c]] IN
    /\ IF recording # 0 /\ Len(lists[recording].cmds) < MaxCmds
       THEN /\ lists' = [lists EXCEPT
                   ![recording].cmds = Append(@, cmd),
                   ![recording].storage = IF @ = 0 THEN Min(FreeStorage) ELSE @]
            /\ pushed' = {}
       ELSE /\ pushed' = {cmd}
            /\ UNCHANGED lists
    /\ UNCHANGED <<list_count, order, recording, target>>

(***************************************************************************)
(* Editing                                                                 *)
(***************************************************************************)

\* DisplayListClear; an unknown name changes nothing.
Clear(name) ==
    /\ find_idx(name) # 0
    /\ lists' = [lists EXCEPT ![find_idx(name)].cmds = <<>>]
    /\ pushed' = {}
    /\ UNCHANGED <<list_count, order, recording, target>>

\* Fault: the memmove is one entry short.
ClosedUpShort(i) ==
    [j \in Index |->
        CASE j >= i /\ j < list_count - 1 -> lists[j + 1]
          [] j = i /\ j >= list_count - 1 -> [lists[i] EXCEPT !.cmds = <<>>, !.storage = 0]
          [] OTHER -> lists[j]]

\* memmove over entry i, its commands and storage freed before; the entry
\* after the last one keeps its bytes.
ClosedUp(i) ==
    [j \in Index |->
        CASE j >= i /\ j < list_count -> lists[j + 1]
          [] j = i /\ j = list_count -> [lists[i] EXCEPT !.cmds = <<>>, !.storage = 0]
          [] OTHER -> lists[j]]

\* An index j after entry i is gone, 0 if it was that entry.
AfterRemoval(i, j) ==
    CASE j = i -> 0
      [] j > i -> j - 1
      [] OTHER -> j

\* remove_from_order, and the loop that adjusts the rest.
OrderWithout(i) ==
    LET rest == RemoveFirst(order, i) IN
    [k \in DOMAIN rest |-> IF rest[k] > i THEN rest[k] - 1 ELSE rest[k]]

\* DisplayListDelete; an unknown name changes nothing.
Delete(c, name) ==
    /\ find_idx(name) # 0
    /\ LET i == find_idx(name) IN
         /\ lists' = ClosedUp(i)
         /\ order' = OrderWithout(i)
         /\ recording' = AfterRemoval(i, recording)
    /\ list_count' = list_count - 1
    /\ target' = [target EXCEPT ![c] = IF @ = name THEN "none" ELSE @]
    /\ pushed' = {}

\* The indices that the two loops of DisplayListSetOrder go through: those of
\* the names, 0 for an unknown one, and then those of the old order.
Candidates(names) == [k \in DOMAIN names |-> find_idx(names[k])] \o order

\* Fault: the loop over the names does not look into `seen`.
PickedTwice(all) ==
    {k \in DOMAIN all :
        /\ all[k] # 0
        /\ k <= Len(all) - Len(order) \/ \A j \in 1..k-1 : all[j] # all[k]}

\* Where the loops take an index: it is of a list, and not in `seen`.
Picked(all) == {k \in DOMAIN all : all[k] # 0 /\ \A j \in 1..k-1 : all[j] # all[k]}

\* The indices taken, in the order in which the loops come to them.
SetOrder(names) ==
    LET all == Candidates(names)
        new_count == Cardinality(Picked(all)) IN
    /\ \E at \in [1..new_count -> Picked(all)] :
         /\ \A m, n \in 1..new_count : m < n => at[m] < at[n]
         /\ order' = [m \in 1..new_count |-> all[at[m]]]
    /\ pushed' = {}
    /\ UNCHANGED <<lists, list_count, recording, target>>

Next ==
    \/ \E c \in Clients, name \in Names : Begin(c, name)
    \/ \E c \in Clients : End(c)
    \/ \E c \in Clients : Draw(c)
    \/ \E name \in Names : Clear(name)
    \/ \E c \in Clients, name \in Names : Delete(c, name)
    \/ \E names \in SeqOf(Names, MaxMentions) : SetOrder(names)

Spec == Init /\ [][Next]_vars

(***************************************************************************)
(* Properties                                                              *)
(***************************************************************************)

\* What dl_replay draws in a frame: every list of `order`, in order.
Replayed == [k \in DOMAIN order |->
    [name |-> lists[order[k]].name, cmds |-> lists[order[k]].cmds]]

\* Every list is drawn once a frame: deletions and reorderings neither drop
\* one from `order` nor leave an index behind.
EachListDrawnOnce == Len(order) = list_count /\ ToSet(order) = InUse

\* Two lists never share a commands array, although closing up the array
\* leaves a copy of the last entry behind.
StorageIsOwned ==
    \A i, j \in InUse :
        i # j => lists[i].storage = 0 \/ lists[i].storage # lists[j].storage

\* The list that a recordable command goes to, by its name.
Recorded == IF recording = 0 THEN "none" ELSE lists[recording].name

\* The array of lists with its indices behaves like a scene of named lists.
TheScene == INSTANCE Scene
    WITH scene <- Replayed,
         open <- Recorded,
         Commands <- ParsedCmd

ImplementsScene == TheScene!SceneSpec

\* The comment on alloc_idx: "Find or create a list by name".
OneListPerName ==
    \A i, j \in InUse : i # j => lists[i].name # lists[j].name

\* The message of a full list: "display list full, command dropped".
OverflowIsDropped == \A cmd \in pushed : cmd.target = "none"

\* README, immediate mode: draw commands "execute inside the server's current
\* frame"; those of a client that records nothing are not recorded.
ImmediateIsNotRecorded ==
    \A i \in InUse : \A k \in DOMAIN lists[i].cmds :
        lists[i].cmds[k].target # "none"
=============================================================================
