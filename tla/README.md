# TLA+ models of raylib_server

raylib_server is one C process that owns a raylib window and lets any number of
TCP clients drive it: a client sends commands (one JSON object per line, or
length-prefixed MessagePack after it has sent `BINARY`), the server executes
them against raylib on the main thread and answers those that carry an `id`.
This directory models the server's own logic, `src/src/*.c`, and what the client
libraries in `src/lib` make of its lines.

## The system

### Threads

* The **main thread** (`main.c`) runs the frame loop: `BeginDrawing`, drain the
  command queue, replay the display lists, feed the music streams, count the
  frame, advance the timers, push input events, `EndDrawing`.  It alone calls
  raylib and it alone uses the handle registry.
* The **listener thread** (`server.c`) accepts connections and starts
* one **connection thread** per client (`server.c`), detached.  It reads bytes,
  cuts them into lines or frames, and dispatches each command: display-list,
  upload, subscription and timer commands are handled at once in this thread;
  every other command is acknowledged when it is fire-and-forget, and pushed on
  the command queue.

### Parts, their state and their operations

| Part | State | Operations | Who calls |
| --- | --- | --- | --- |
| Command queue (`queue.c`) | ring of 2048 entries, head/tail/count, shutdown, mutex and two condition variables | push (blocks when full), pop, destroy | connection threads push; main pops and destroys |
| Server (`server.c`) | listening socket, client id counter, one `ConnState` per connection | accept, receive, dispatch, disconnect, stop | listener, connection threads; main starts and stops |
| Wire protocol (`protocol.c`) | line buffer per connection; table of binary-mode sockets | feed, send, set/clear binary, classify a command | connection threads and main |
| Commands (`commands.c`) | frame counter, current font/mode, mouse and focus edges | execute (about 250 commands), tick, push events | main |
| Handle registry (`handle_registry.c`) | 4096 slots, search hint | alloc, get, free, iterate | main |
| Event registry (`event_registry.c`) | up to 256 subscriptions (socket, mask), mutex | subscribe, unsubscribe, remove, push | connection threads and main |
| Timer registry (`timer_registry.c`) | 256 slots, id counter, mutex | create, delete, tick, list | connection threads; main ticks |
| Upload registry (`upload_registry.c`) | 32 slots with malloc'd buffers, id counter, mutex | begin, chunk, abort, list, commit_take | connection threads; main commits |
| Display lists (`display_list.c`) | 64 lists of commands, replay order, the list being recorded, mutex | begin, end, clear, delete, set order, query, intercept, replay | connection threads; main replays |
| Codecs (`b64.c`, `color.c`, `msgpack.c`) | none | decode, encode | both |
| Client libraries (`src/lib`) | socket, pending calls, the open batch | send, sync, subscribe, batch, event callbacks | user programs |

## Modules

An action stands for a whole critical section or handler; where the code gives
up a lock, waits, or lets another thread in, it is split there and nowhere else.
The comments in each module name the function behind each definition, and `map`
in `PROJECT.json` its lines.

| Module | Models | State and actions |
| --- | --- | --- |
| `BoundedFifo` | what the queue promises: a bounded FIFO that is closed once | a sequence and a flag; put, take, close |
| `CmdQueue` | `queue.c`, with its mutex and `not_full` | the ring as it is in memory and one program counter per client; push (enter, wait, wake up, return), pop, destroy |
| `HandleRegistry` | `handle_registry.c` and the Load, Upload and Unload commands | the slots and the hint; what the heap holds of each load; the load handlers as tables of steps, each of which may fail and then frees what that path frees; an unload, a lookup |
| `Commands` | every command by its name: `dispatch_cmd`, `protocol_needs_response`, `commands_execute` | on top of `HandleRegistry`: where the command came from (with an id, without one, replayed), what its client was told, the kind each resource was made as; the command's name decides what is looked up, passed to raylib, made or freed, and who answers |
| `Server` | `server.c` with the main loop's execution of commands | threads, socket numbers as the kernel reuses them, clients that stop reading, the queue (through `BoundedFifo`), replies received; accept, receive, acknowledge, push, stall, hang up, exit (of the client's or of the server's doing), execute, stop |
| `Receiver` | the line buffer of `protocol.c`, the two phases of `connection_thread` | the byte stream, how far it was sent and received, the line, the length and the part of a frame; a chunk of any length, a client that goes on behind `BINARY` once it was answered, end of file |
| `Scalars` | `msgpack.c`: numbers, strings and the other values that hold none | encoder and decoder as operators over bytes, with the rounding to a double |
| `MsgPack` | `msgpack.c`: arrays and maps, and any value | the same, on top of `Scalars` |
| `Base64` | `b64.c` | the decoder as an operator, and RFC 4648 by bits as its reference |
| `Ingress` | a command on its way from a client to the dispatcher: encoded, framed, cut by TCP, received, decoded | `Receiver` with `MsgPack` and `Base64`; a session of messages, some damaged |
| `Wire` | `protocol_send` and the table of binary sockets in `protocol.c` | the table, sockets, and each writer between its two writes; switch, begin to send, write, clear, close |
| `EventRegistry` | `event_registry.c` with the end of a connection | the table, connections and their sockets, the main thread inside `er_push`; subscribe, unsubscribe, disconnect, one write of a push |
| `TimerRegistry` | `timer_registry.c` | the slots, the clock, the main thread inside `timer_tick`; create, delete, each turn of the tick's two loops, the callback without the lock |
| `UploadRegistry` | `upload_registry.c` and `CommitUpload` | slots, buffers on the heap, commits in the queue, what is being decoded; begin, chunk, abort, commit, decode |
| `Scene` | what display lists promise: named lists of commands, drawn in an order | lists by name, the order, the list being recorded |
| `DisplayList` | `display_list.c` | the array that is closed up on deletion, indices into it, storage; begin, record, end, clear, delete, set order, replay |
| `FrameLoop` | `main.c`, with the window events and the keys of `commands.c` | the phase of the frame, the queue's length, the window as it is and as it was polled, raylib's key queue, what a client that follows the focus knows of it; one action per phase, and the world around it |
| `ClientLib` | `raylib_client.js`, and what `.rb` and `.py` share | calls, the buffer that all open batches share, the lines under way, the server's two threads; call, subscribe, batch, a line that is read, the end of the connection |
| `MCDisplayList`, `MCIngress` | instances of `DisplayList` and `Ingress` for TLC | the symmetry of the names; the sessions |
| `CmdQueueProofs`, `ServerProofs`, `TimerRegistryProofs`, `UploadRegistryProofs` | theorems about the module each is named for | |
| `HandleRegistryProofs` | theorems about `HandleRegistry` and about `Commands`, which extends it | |
| `WireProofs` | theorems about `Wire`, `Receiver`, `Base64` and `Scalars` | |
| `DisplayListProofs` | theorems about `DisplayList`, and that it implements `Scene` | |
| `EventProofs` | theorems about the way of an event, through `FrameLoop`, `EventRegistry` and `ClientLib` | |

Composition: `CmdQueue` implements `BoundedFifo` (a checked and a proved
refinement), and `Server` is built on `BoundedFifo`: what `Server` assumes of
the queue is what the ring with its mutex and condition variable delivers.
`DisplayList` implements `Scene` (checked and proved as well).  `Commands` extends `HandleRegistry`: the same
loads and unloads, driven by the commands' names.  `Ingress` puts the three
stages a message goes through one after the other and compares the two ends.
`ClientLib` has the server in it as `Server` and `EventRegistry` show it: one
thread that acknowledges, one that answers and pushes events.  The registries
share no lock and no state with one another, so each has a module of its own with
the threads that enter it; what they share, sockets that are closed and reused,
is in each module that keeps a socket number (`Server`, `Wire`,
`EventRegistry`).

Faults: operators introduced by the word "Fault" in a comment are what a
plausible slip in the code would make of the definition that follows them.
Nothing refers to them; `mutants` in `PROJECT.json` says which property notices
each.

## Runs

| Run | Shows |
| --- | --- |
| `queue` | Three clients, a ring of two slots, spurious wakeups, a shutdown at any moment: the ring implements `BoundedFifo`, a client's commands execute in its order, no wakeup is lost, and as long as a client is blocked commands are accepted (not necessarily its own). |
| `commands` | Every command, with every kind of handle: an id is answered by exactly one thread although three tables in three files decide, and a command without one by nobody but for `TimerCreate`, `TimerOnce` and `ListTimers`; what raylib is given is alive and of its kind; used slots and allocated resources are one to one, and nothing is left on the heap, through every path on which a load can fail, refused loads and unloads; a load is refused only when every slot is used. |
| `server` | Nothing is answered twice, commands that go through the queue without an id are not answered, responses of the main thread keep the requests' order, a connected client's replies go nowhere else; a sync command that is on the queue is answered while its connection lasts and the server runs, if clients that stop reading read again or leave. |
| `server_stale_socket` | (violated) A queued command of a client that has gone is answered to the client that has its socket number now. |
| `ingress` | All streams of up to seven bytes in all cuts, and sessions of messages with every kind of argument: the lines and frames handed on are those of the stream, up to the first line that does not fit; what is dispatched is what the client packed, at each border between two widths, next to damaged messages, with data in Base64; of a whole number that no double holds, the nearest one. |
| `wire` | The table of binary sockets never outlives a connection, although numbers are reused; a connection's own answers have the form its client expects. |
| `events` | The table says of each live connection what it asked for, and each event reaches exactly those, once, while they come, go and are replaced on the same socket number and dead entries are compacted away; the socket of a client that went away is closed, unless another client does not read. |
| `timers` | No time is lost or counted twice, one-shot timers fire once, a deleted timer fires at most the once that was under way, although slots are reused during the callback; a tick ends whatever is created and deleted in its callbacks. |
| `uploads` | Every buffer has one owner; what is decoded is complete, in order and not touched by anyone else, whatever is aborted or committed meanwhile, early or twice. |
| `lists` | Every list is drawn once, storage has one owner, and the array implements `Scene`: lists are drawn in the asked order and commands land in the list they were sent for, across deletion in the middle of recordings. |
| `frames` | A client that subscribes, asks for the focus and then follows the events is right about it at the end of every frame; each key is given out once, to a command or as an event, and none is lost between two polls; the wish to close ends the loop. |
| `clients` | Calls, a subscription, two batches at once, events and a server that goes away, through a library that pairs by id and one that takes the next line: each call that the server has a handler for ends, with its own answer (with the second library as long as nothing is subscribed); events arrive in order; no command is written twice or overtakes an earlier one, however batches overlap. |

The violated run states what a comment says; `findings` in `PROJECT.json` quotes
it next to the line that does otherwise.

### Divergences

What else the models show where the code and its words part.  Each has a
configuration of its own, under which TLC violates the property it names
(`tlc -config <file> <module>`; the three files called `...Divergences.cfg` name
several, which `-continue` lists); they are kept as an explanation, for the day
the code or the words are changed.

| Configuration | Module | What happens |
| --- | --- | --- |
| `CmdQueueDestroy.cfg` | `CmdQueue` | `cmdq_destroy` wakes the blocked threads and destroys the mutex they have to take in order to return. |
| `HandleRegistryReuse.cfg` | `HandleRegistry` | A handle another client freed is given out again at once, and names another resource. |
| `ServerDivergences.cfg` | `Server` | The acknowledgement is sent before the push, not after it. `GetFoo` with an id is neither acknowledged nor answered. `TimerCreate`, `TimerOnce` and `ListTimers` are answered without an id as well, although the README calls commands without one silent. |
| `WireDivergences.cfg` | `Wire` | The two writes of a message are not atomic: the main thread's answer or event falls between an acknowledgement and its newline. A frame can overtake the answer to `BINARY`. |
| `WireFull.cfg` | `Wire` | The 257th switch to binary mode is acknowledged, and ignored for sending. |
| `EventRegistryFull.cfg` | `EventRegistry` | With the table full, a subscription is acknowledged and dropped. |
| `EventRegistryStall.cfg` | `EventRegistry` | A subscriber that does not read stops the main thread, which writes with the lock held. |
| `TimerRegistryTiny.cfg` | `TimerRegistry` | An interval so small that `elapsed -= interval` changes nothing keeps the main thread in the `while`. |
| `TimerRegistryEarly.cfg` | `TimerRegistry` | A timer created in the middle of a frame is credited with all of it. |
| `UploadRegistryWrap.cfg` | `UploadRegistry` | A chunk number is converted to an int: 2^32 passes for 0. |
| `DisplayListLongName.cfg` | `MCDisplayList` | A name cut when it was stored is never found again. |
| `DisplayListOverflow.cfg` | `MCDisplayList` | A command that does not fit into a list is executed instead of dropped. |
| `DisplayListShared.cfg` | `MCDisplayList` | While one client records, another's immediate commands go into its list. |
| `FrameLoopEndless.cfg` | `FrameLoop` | Clients that keep the queue filled keep the main thread in the drain loop. |
| `FrameLoopDivergences.cfg` | `FrameLoop` | `WindowClosed` is never pushed: the loop sees the wish to close first. `KeyPressed` is not told of a key that a client has asked for. SIGINT is caught and nothing looks at it. |
| `ClientLibShift.cfg` | `ClientLib` | The libraries that block take an event for the answer; from then on every call gets the line before its own. |
| `ClientLibBatches.cfg` | `ClientLib` | `batch`, called again while one is open (inside its block, or by another task), replaces the buffer of the first: the commands in it are lost. |
| `ClientLibHangs.cfg` | `ClientLib` | A call made after the connection has ended neither resolves nor rejects. |

Two more show without a property.  When a program
sends `TimerCreate` by `cmd`, without an id, through one of the libraries that
block, the answer that comes all the same is the line that the next call takes
for its own, as it takes an event in `ClientLibShift.cfg`.  And a drawing command with an invalid handle is
acknowledged with `ok` like any other, because the connection thread
acknowledges it before the main thread looks the handle up.

### Bounds

A limit of the code is a constant (`Capacity`, `HandleMax`, `MaxSubs`,
`TimerMax`, `MaxSlots`, `MaxLists`, `LineMax`, `FrameMax`, `BinaryMax`, raylib's
`KeyQueueMax`, and `MaxCmds` of `DisplayList`), set to the smallest value at which
it is met, passed and met again: a ring of two slots wraps and has two waiters for one slot, two
timer slots are shared by three timers, an array of three lists closes up at its
beginning, middle and end.  Bounds that belong to the checking only are called so
where they are declared (`MaxPush`, `MaxReq`, `MaxLoads`, `MaxTimers`,
`MaxClock`, `MaxFires`, `MaxUploads`, `MaxChunks`, `MaxQueue`, `MaxMentions`,
`MaxSent`, `StreamMax`, `ChunkMax`, `MaxKeys`, `MaxEvents`, `Batches`, and the
`Kinds` of `Server` and `HandleRegistry`); they leave
room for every slot to be used, given up and used again.  Two or three
connections are enough for every conflict over a socket number: one that had it,
one that has it, one that watches.

Widths: `IntRange` is an int of three bits.  `Scalars` scales nothing down: a
whole number is nine bytes of two's complement, which holds those of 64 bits with
a sign and without, and a double of such a number is the number rounded to its 53
leading bits, ties to even.  A frame's length in the run
has two bytes (`SizeBytes`), so that it has an order and exceeds `FrameMax`.
`Alphabet` has one byte for each role: a newline, the line `BINARY` as a whole, a
byte that is a length as well, and a letter.  One `recv`
takes up to seven bytes (`ChunkMax`), so the short streams are cut in every way.  `Sessions` holds the
values at each border of each tag, and the damages: a payload cut short, a
message that is no map, one without a command, one with a number for an id.
`commands` tries the loads of every kind on every path, and lets those of two
kinds succeed, one whose buffer the resource keeps and one without; the others
behave as one of these once they are loaded.  `server` has four of the six kinds
of commands that `dispatch_cmd` tells apart: to its properties a command handled
in the connection thread is like one of the timers, and an unknown one like one
without an id.  `Calls` are a subscription, a call that is answered and one that
never is.

Some properties hold in a run because its constants leave out the case in which
the code goes wrong, and that case has a configuration of its own: an interval
lost to rounding (`TickEnds`; `TimerRegistryTiny.cfg`), a chunk number beyond an
int (`ChunksInOrder`; `UploadRegistryWrap.cfg`), a name that is cut (`lists`;
`DisplayListLongName.cfg`), a list that overflows (`DisplayListOverflow.cfg`), two
clients that record at once (`DisplayListShared.cfg`), a full table of binary
sockets (`OwnRepliesFramed`; `WireFull.cfg`), a subscribed library that blocks
(`SettledByOwnAnswer`; `ClientLibShift.cfg`).  In `frames` clients send a few
commands and pause, so that the drain loop runs dry: whether frames go on at all
is asked in `FrameLoopEndless.cfg` alone, where they do not.  That the wish to
close is announced to the subscribers is asked in `FrameLoopDivergences.cfg`.

Deadlock is checked in `timers`, `lists`, `frames` and `commands`, which never
stop.  The others end on purpose: clients hang up, the server stops, a stream is
over, calls run out.

### Fairness

Weak fairness of the main thread's next step stands for a scheduler that runs it;
the loop calls nothing that blocks except where the model says so (a write to a
client that does not read, in `EventRegistry`).  Weak fairness of a connection
thread's step inside a handler stands for the same.  `Disconnect` of a client
that has gone has, in `EventRegistry`, strong fairness: a thread that waits for
the registry's mutex gets it when the mutex becomes free again and again.  In
`Server` only the main thread is fair; which command gets into the queue is not
promised, and what is promised begins there.  In `ClientLib` the server's
two threads and the client's event loop (or its blocked read) run; that the
connection ends, or that the program makes a call, is not assumed.  Nothing is
assumed of clients elsewhere: they may stop at any time, except that a client
that is said to read does, or that (in `Server`) none stays for ever without
reading.  In `CmdQueue` a thread that was woken proceeds; that
a new push begins is not assumed.  Neither the mutex nor the condition variable
is fair, so that one client may find the slot it was woken for taken again and
again: `BlockedPushesGoOn` promises that the queue moves, for whomever.

## Theorems

Checked by TLAPS, for every value of the constants that satisfies the modules'
assumptions: capacities and table sizes that are positive, finite sets of
clients and connections, a blank entry that is no entry.  Each module of proofs
begins with its inductive invariant and has a lemma for each action that disturbs
it.

`CmdQueueProofs`.  The inductive invariant adds to the type invariant that head,
count and tail agree modulo the capacity; that exactly the `count` slots from
`head` hold entries; that, for each client, the entries in these slots are those
numbered from `executed + 1` to `pushed`, in order; that as long as a thread
waits, the woken threads are at least as many as the free slots; and that after
the shutdown nothing is queued and nobody waits.  None of the parts is inductive
alone: that pop returns an entry and not a blank needs the ring, and order needs
to know where the live slots are, in modulo arithmetic that the first lemmas
settle.  From it: `TypeCorrect`, `RingIsConsistent` and `ClientOrderHolds` (which
the run leaves to the refinement and to `ExecutedInOrder`), `NoWakeupIsLost`, the
action property `ExecutionOrder`, and `FifoRefinement`: the ring refines
`BoundedFifo`, where the abstract sequence is read from the ring.

`HandleRegistryProofs`.  The inductive invariant says that used slots and live
resources correspond one to one, with nothing on the heap for any other, that the hint is an index, and that a live
resource is one that was loaded.  From it:
`OwnershipHolds`, and `RefusalIsHonest`: the search that starts at the hint and
goes once round the table visits every slot, so it fails only on a full table.
`CommandsKeepTheRegistry` says the same of the registry as the commands use it:
each command is a step of `HandleRegistry` or leaves it alone.  For
`PassesOnlyTheLiving` the invariant (`CInv`) adds `KindsKept`: the kind that a
live resource was made as is the kind in its slot, which is what a lookup
compares; so what the command passes to raylib is alive and of the kind its name
asks for, however the handles were freed and given out again.
`EachIdAnsweredOnce` (`AnsweredByOne`): who acknowledges, who answers and who
keeps silent is decided by `dispatch_cmd`, `protocol_needs_response` and the
handlers, each with names of its own; an id is answered by exactly one of them,
if the server knows the name.  Without an id three timer commands are answered
all the same, and the theorem says so.
The provers do not look into strings, so the one fact about spelling that the
proof needs, which names begin like a command that answers (`strncmp` in
`protocol_needs_response`), is an assumption of `Commands`
(`SpellingAssumption`), which TLC evaluates in the run.  How the sections of
commands are answered is derived from there.

`ServerProofs`.  Five facts make the answers' order inductive: open connections
have different sockets; a queue entry is of a request that was sent, before the
one its thread has in hand, and its socket number is still its client's unless
the client is gone; of one client the older entry is in front; only commands that
the main thread leaves alone are acknowledged; and whatever was answered is older
than everything still to be answered.  From them `OneAnswer`, `ResponsesInOrder`
and `RepliesStayHome`, for any number of clients, requests and queue places.

`WireProofs`.  That the table of binary sockets names only open connections that
asked (`TableHolds`) needs two more facts: that connected clients have different
sockets, so that a thread that leaves removes its own entry, and that the owner
of an entry has not begun to leave.  `RepliesFramed` says that a connection's own
answers are JSON lines up to the answer to `BINARY` and frames after it, for any
number of connections that the table has room for; the assumption is needed, as
`WireFull.cfg` shows.  Its invariant says where each thread is in its message,
that the answer to `BINARY` has arrived exactly when it was asked for and is not
being written, and that a message under way has the form its client expects.
`TypeCorrect` bounds the table.

`WireProofs`, on `Receiver`.  `CutsDoNotMatter` (`DeliveredAsFramed`) holds for
every stream of bytes, every way to cut it and all sizes of the line buffer, of a
frame and of its length.  The invariant (`RInv`) is about more than has been
handed on.  In the first phase what was handed on, followed by the lines of what
is still to come, makes the lines of any longer prefix of the stream, and the
line buffer holds what has come since the last newline.  In the second phase the
length and the part received of the frame under way are the tail of the stream
(`FrameUnderWay`), and the frames to come begin where it does.  A chunk in the
first phase goes through `linebuf_feed` byte by byte; that the client sends nothing
behind the line `BINARY` before it is answered (`Leading`, `SendFrames`; so do the
client libraries) is what keeps frames out of the line buffer.  The two readings of the
stream, `Lines` and `Frames`, are recursive functions of the place where they
begin: that these functions exist and unfold is proved first, by induction over
how much of the stream is left.

`WireProofs`, on `Base64`.  `DecodedFits`: whatever the text, valid or not, what
`b64_decode` writes fits the `(len / 4) * 3 + 4` bytes it allocates; the invariant
of its loop is that the bits written and the bits that wait are at most six for
each character read.  `RoundTrip`: from the encoding of any bytes the decoder
makes these bytes again.  The lemmas follow four letters through the loop, with
0, 6, 4 and 2 bits waiting, and take a byte apart into the bits of its letters and
put it together again.

`WireProofs`, on `Scalars`.  `NumbersArrive`: the client's encoder leaves out the
bytes that only repeat the sign, and `decode_value` puts them back (`Widened`), at
every border between two widths; what it makes of them is a double
(`cJSON_CreateNumber`), and for every whole number of 64 bits, with a sign or
without, none is nearer to the number, and below 2^53 it is the number itself.
The largest ones arrive as 2^63 and 2^64.  `StringsArrive`: the
bytes of a length give the length again (`LengthBack`), in each of the four
headers, and a text without a NUL comes out whole.  Both say that nothing is read
of what follows, so that values in a row are read one after the other.  The
texts are shorter than `LengthCap`, about eight million, from where `Length` tells
lengths apart no more; a frame of more than 2^20 bytes is refused.  `DataArrives`
joins `StringsArrive` and `RoundTrip`: data in Base64 in a string.

`CutsDoNotMatter`, `DecodedFits` and `RoundTrip` are inductions over the natural numbers.  The provers cannot instantiate the
library's theorems of induction, which have a predicate as a parameter, but
`WFMin`, which takes a set, is enough: `SetInduction` says that a set with 0 and
with the successor of each of its members holds all of `Nat`.

`EventProofs`, on `EventRegistry`.  The invariant: open connections have different
sockets and a closing one asks for nothing; no socket has two entries, and an
entry is an open connection's who asked for all of it; in the middle of a push
the subscribers behind the index have been written to once and those ahead of
it not at all, which survives the swap because the entry that is swapped in comes
from ahead.  From it `EntriesOwned`, `OnlyAsked` and `EachPushReached`; with room
for every connection, also `TableAsAsked`: nothing that was asked for is missing
(without room something is, see `EventRegistryFull.cfg`).

`EventProofs`, on `FrameLoop`.  `EachKeyOnce` (`KeyGoesOnce`): the keys that wait
are younger than all that were given out, to clients or in events, and each
was given out once and in order; what makes this hold across a poll, which
overwrites the keys, is that none waits at the end of a frame.  `FocusIsKnown`
(`FocusIsReported`): a client that has subscribed, has then asked and follows the
events knows the focus at the end of every frame, because until the events of
this frame it knows what the loop remembers or what was polled since; that the
loop's memory starts as a guess does not matter to it.  One that asks before it
subscribes may miss a change in between, and is told of none: only edges are
pushed.  They hold for any number of frames, commands and keys that raylib's
queue takes; a key for which it has no room (`KeyQueueMax`) is dropped before the
server can see it.

`EventProofs`, on `ClientLib`.  `OwnAnswers` (`SettledByOwnAnswer`) holds in the
library that compares ids because the line's id and the call's are the same; in
the one that takes the next line because of what else is on its way: until the
program subscribes there is at most one call, and on the way to the server, in its
queue and on the way back together at most that call or its answer
(`OneAtATime`), and what is lost with the server is gone everywhere (`Lost`).
`EventsArrive` (`EventsInOrder`): the first event under way is the
next one the program does not have.  `BatchesKeepOrder` (`NoneOvertakes`): however
many batches share the buffer, what was written and what is in it ascend.  That
no command is lost is false as soon as two are open (`ClientLibBatches.cfg`).

`TimerRegistryProofs`.  The invariant: a slot in use belongs to one timer that
nobody deleted and that, if it fires once, has not fired; the tick, with the lock,
stands on a slot in use; in the callback a one-shot timer has no slot any more
and has not fired, and no event of the timer has been late.  From it `OneShotOnce`
and `SilentAfterDelete`, for any number of slots and ticks: they need no bound
on how often a slot changes hands during a callback.  `OnTime` (the property
`Punctual`) needs a balance (`Accounts`): for each slot in use, the time that
went by since its timer was created, less what this frame's tick has not yet
credited to it, is its interval times the turns it has fired, plus what its slot
has elapsed, give or take the frame in which it was created.  The tick gives up
the lock in the middle of that sum, between taking the interval from `elapsed`
and the callback's event, and other slots are freed and reused there: the
balance is stated for each of these positions.  Its
hypothesis is that no interval is 0.  An interval so small that it is lost in the
rounding of `elapsed` stands for 0 in the model, and with it there is no turn to
count: the tick never ends (`TimerRegistryTiny.cfg`).

`UploadRegistryProofs`.  That each buffer has one owner needs that a new id is
greater than the ids in use and that there is a buffer to allocate.  From it
`BuffersOwned`, and `StableWhileDecoded`: a chunk is written only to the buffer
of an active slot, which is never the one in the main thread's hand.
`WholeWhenCommitted` (the property `CommittedIsWhole`) and `InOrder`
(`ChunksInOrder`) follow from a second invariant, `Contents`: the pieces in the
buffer of an active slot cover it from its beginning to `received`
without a gap and are numbered from 0 to the next number that is expected.  It
holds across every abort and reuse of a slot because each begin makes a buffer
that nobody owns.  `InOrder` has the hypothesis that the chunk numbers
clients send stay below half the range of an int, so that the conversion in
`upload_registry.c` is exact; without it the statement is false
(`UploadRegistryWrap.cfg`).

`DisplayListProofs`.  `DrawnOnce`: the order is a permutation of the used
indices.  The inductive invariant (`IInv`) says it as an injective sequence whose
range is `1..list_count`, which has to survive the hardest operation of the
module, the deletion that closes up the array, takes the index out of the order
and lowers the ones above it, and `SetOrder`, which takes each named list once and
then the rest by position.  `StorageOwned` is the third part: no two lists in use
share a commands array, although a deletion leaves a copy of the last entry
behind.  `SceneRefinement`: each step of the array is a step of `Scene` or a stutter, where the abstract
lists are read from the array by name.  It needs that names are unique among the
lists (`SInv`; `NamesAreKeys`), which is what makes "the first index with this
name" the index.  Both theorems are for `LongNames = {}`: the code cuts a name
when it stores it and compares the whole name when it looks one up, so that a
name of 256 characters or more makes a new list each time, and both statements are
false (`DisplayListLongName.cfg`).  The lemmas they keep needing come first in the module: that `Min` of a non-empty set of naturals
is its least element (the community modules define it by CHOOSE; there is
something to choose by well-founded induction over finite sets), and what
`RemoveAt` and `RemoveFirst` leave at each place.

The registries' "first free slot" is stated as what it is, an index that is free
and below which none is: the searches of `TimerRegistry`, `UploadRegistry` and
`Server` are reasoned about without `Min`.

Only model-checked:

* every liveness property: fairness and ENABLED are out of the prover's reach;
* `DecodedAsSent` and `DataAsSent` of `Ingress`: they are about messages, maps
  that `MsgPack` packs and unpacks, and its operators are RECURSIVE, over values
  nested in values; no theorem can be stated in a module that reaches them.  What
  surrounds and what fills the maps is proved: what `Receiver` hands on, that
  numbers and strings are read as they were packed, and that Base64 gives back
  what was encoded.

No module with a theorem uses a RECURSIVE operator.

## Not modelled

* Values: coordinates, colours, and what raylib draws with them; the arrays of
  points (`parse_points`: too few of them, or more than `MAX_POINTS`), which only
  decide whether raylib is called to draw; the text of
  answers and of log lines; names of timers and their escaping.  `color.c` is a
  table of names with a range check; `rls_log.c` is formatted output.
* The parsing of a JSON line, which cJSON does; the same fields are read from a
  frame in `Ingress`.
* What raylib makes of a resource that is unloaded while it is the current
  shader or render target: that state is raylib's.
* The values of floating-point numbers: they are their bytes.  Only whole numbers
  are rounded to doubles.
* Ids drawn at random (timers and calls: 24 to 48 bits) are taken to be distinct.
* In `ClientLib` lines arrive whole; `Wire` says when they do not.  The shell
  library builds text, the wrappers name one command each.
* The teardown of the registries when the process ends, with connection threads
  still in them: what a thread does with a destroyed mutex is undefined.
  `CmdQueueDestroy.cfg` follows one such case.
* What a client makes of an exception (`batch` with no buffer left raises one).
* Failures of `malloc`, `pthread_create` and of the socket calls at start-up,
  except where a module says so.
* raylib and cJSON, which are not part of the source: `EndDrawing`'s polling and
  the ownership of buffers passed to raylib are modelled from their use.
* `src/tests`, `src/examples`, `src/scripts`: read for what they expect of the
  server.

## Plan

What is left, in the order of what it would add.

1. A composition of `Server` with the registries' direct handlers: what order a
   client sees between direct and queued commands, as with a `Begin` of a display
   list handled at once and the unload of a texture still in the queue.
2. The order of the answers across threads, as a refinement of an abstract
   conversation between one client and the server that `ClientLib` and `Server`
   share; `ClientLib` now restates what `Server` shows.
