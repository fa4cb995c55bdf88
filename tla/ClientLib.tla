------------------------------ MODULE ClientLib ------------------------------
(***************************************************************************)
(* What a client library makes of the lines it reads: src/lib.             *)
(*                                                                         *)
(* raylib_client.js keeps its calls in a table and looks up each answer by *)
(* its id; raylib_client.rb and raylib_client.py block until the next line *)
(* and take it for the answer.  All of them buffer fire-and-forget         *)
(* commands while a batch is open.                                         *)
(*                                                                         *)
(* On the other side is the server, as Server and EventRegistry show it:   *)
(* one thread that answers a subscription itself and queues the other      *)
(* calls, and the main thread, which answers those and pushes events.      *)
(* Lines arrive whole here; when they do not is the subject of Wire.       *)
(***************************************************************************)
EXTENDS Integers, Sequences, SequencesExt, FiniteSets

CONSTANTS
    Libraries,  \* "js", and "ruby" for the two that block
    Calls,      \* calls of sync, by their ids
    Subscribing,    \* those that subscribe
    Unknown,    \* Get*, Is*, Load* or Upload* calls the server has no handler for
    Batches,    \* bound: batches open at once
    MaxCmds,    \* bound: fire-and-forget commands
    MaxEvents   \* bound: events

ASSUME LibrariesAssumption == Libraries \subseteq {"js", "ruby"}
ASSUME CallsAssumption ==
    /\ Subscribing \subseteq Calls /\ Unknown \subseteq Calls \ Subscribing
    /\ "none" \notin Calls
ASSUME ClientBoundsAssumption == {Batches, MaxCmds, MaxEvents} \subseteq Nat

VARIABLES
    library,    \* which one the program uses
    state,      \* of each call
    taken,      \* the line each call was settled with
    events,     \* _events: what the program will find by drainEvents
    batch,      \* _batch: <<>> for null, or a sequence of one sequence
    batches,    \* batches that the program has open
    issued,     \* fire-and-forget commands so far
    written,    \* history: those written to the socket
    closed,     \* has the library seen the end of the stream?
    requests,   \* calls on their way to the server
    acking,     \* the subscription that the connection thread has to answer
    queue,      \* calls that wait for the main thread
    subscribed, \* is the connection subscribed?
    pushed,     \* events pushed to the connection
    lines,      \* lines on their way to the client
    up          \* is the server there?

client == <<library, state, taken, events, closed>>
batching == <<batch, batches, issued, written>>
server == <<requests, acking, queue, subscribed, pushed>>
clientVars == <<client, batching, server, lines, up>>

Answer(c) == [event |-> 0, id |-> c]
Event(n) == [event |-> n, id |-> "none"]
Nothing == Event(0)

Line == {Answer(c) : c \in Calls} \cup {Event(n) : n \in 1..MaxEvents}

ClientTypeOK ==
    /\ library \in Libraries
    /\ state \in [Calls -> {"unused", "waiting", "settled"}]
    /\ taken \in [Calls -> Line \cup {Nothing}]
    /\ events \in Seq(Line)
    /\ batch \in Seq(Seq(1..MaxCmds)) /\ Len(batch) <= 1
    /\ written \in Seq(1..MaxCmds)
    /\ batches \in 0..Batches /\ issued \in 0..MaxCmds
    /\ requests \in Seq(Calls) /\ queue \in Seq(Calls)
    /\ acking \in Calls \cup {"none"}
    /\ pushed \in 0..MaxEvents
    /\ lines \in Seq(Line)
    /\ {closed, subscribed, up} \subseteq BOOLEAN

ClientInit ==
    /\ library \in Libraries
    /\ state = [c \in Calls |-> "unused"]
    /\ taken = [c \in Calls |-> Nothing]
    /\ events = <<>>
    /\ batch = <<>> /\ batches = 0 /\ issued = 0 /\ written = <<>>
    /\ closed = FALSE
    /\ requests = <<>> /\ acking = "none" /\ queue = <<>>
    /\ subscribed = FALSE /\ pushed = 0
    /\ lines = <<>>
    /\ up = TRUE

(***************************************************************************)
(* Calls                                                                   *)
(***************************************************************************)

Waiting == {c \in Calls : state[c] = "waiting"}

\* A call is written at once, even while a batch is open.  A library that
\* blocks has one call at a time.
sync(c) ==
    /\ state[c] = "unused"
    /\ library = "ruby" => Waiting = {} /\ ~closed
    /\ state' = [state EXCEPT ![c] = "waiting"]
    /\ requests' = IF up THEN Append(requests, c) ELSE requests
    /\ UNCHANGED <<library, taken, events, closed, batching, acking, queue, subscribed,
                   pushed, lines, up>>

\* A call ends, with this line or with none.
Settle(c, line) ==
    /\ state' = [state EXCEPT ![c] = "settled"]
    /\ taken' = [taken EXCEPT ![c] = line]

\* Fault: any answer will do for any call.
AskedAny(line) == IF line.event = 0 THEN Waiting ELSE {}

\* Fault: any line will do.
AskedNext(line) == Waiting

\* The call that a line answers: one that is pending with its id.
Asked(line) == Waiting \cap {line.id}

\* _onLine.
OnLine ==
    /\ library = "js"
    /\ lines # <<>>
    /\ LET line == Head(lines) IN
         \/ /\ \E c \in Asked(line) : Settle(c, line)
            /\ UNCHANGED events
         \/ /\ Asked(line) = {}
            /\ events' = IF line.event # 0 THEN Append(events, line) ELSE events
            /\ UNCHANGED <<state, taken>>
    /\ lines' = Tail(lines)
    /\ UNCHANGED <<library, closed, batching, server, up>>

\* The rest of sync in the libraries that block: the next line is the answer,
\* and an error unless it says ok.
NextLine ==
    /\ library = "ruby"
    /\ lines # <<>>
    /\ \E c \in Waiting : Settle(c, Head(lines))
    /\ lines' = Tail(lines)
    /\ UNCHANGED <<library, events, closed, batching, server, up>>

\* drain_events in the libraries that block.
drain_events ==
    /\ library = "ruby"
    /\ Waiting = {} /\ lines # <<>>
    /\ events' = events \o lines
    /\ lines' = <<>>
    /\ UNCHANGED <<library, state, taken, closed, batching, server, up>>

\* Fault: the table of calls is forgotten.
CloseForgets ==
    /\ ~up /\ lines = <<>> /\ ~closed
    /\ closed' = TRUE
    /\ UNCHANGED <<library, state, taken, events, batching, server, lines, up>>

\* 'close', or the end of the stream for a library that blocks: calls that
\* wait are given up.
OnClose ==
    /\ ~up /\ lines = <<>> /\ ~closed
    /\ closed' = TRUE
    /\ state' = [c \in Calls |-> IF c \in Waiting THEN "settled" ELSE state[c]]
    /\ UNCHANGED <<library, taken, events, batching, server, lines, up>>

(***************************************************************************)
(* Commands without an answer                                              *)
(***************************************************************************)

\* What the open batch holds, if there is one.
Buffered == IF batch = <<>> THEN <<>> ELSE batch[1]

cmd ==
    /\ issued < MaxCmds
    /\ issued' = issued + 1
    /\ \/ /\ batch = <<>>
          /\ written' = Append(written, issued + 1)
          /\ UNCHANGED batch
       \/ /\ batch # <<>>
          /\ batch' = <<Append(Buffered, issued + 1)>>
          /\ UNCHANGED written
    /\ UNCHANGED <<client, batches, server, lines, up>>

\* A batch begins with an empty buffer.  When one is open already, in an outer
\* block or another task, what that one has buffered is lost.
BeginBatch ==
    /\ batches < Batches
    /\ batches' = batches + 1
    /\ batch' = <<<<>>>>
    /\ UNCHANGED <<client, issued, written, server, lines, up>>

\* Fault: the buffer stays in use when it has been written.
EndBatchKeeps ==
    /\ batches > 0
    /\ batches' = batches - 1
    /\ written' = written \o Buffered
    /\ UNCHANGED <<client, batch, issued, server, lines, up>>

\* The first batch to end writes the buffer and does away with it, whoever put
\* the commands there.  With no buffer left there is an exception, and nothing
\* to write.
EndBatch ==
    /\ batches > 0
    /\ batches' = batches - 1
    /\ written' = written \o Buffered
    /\ batch' = <<>>
    /\ UNCHANGED <<client, issued, server, lines, up>>

(***************************************************************************)
(* The server                                                              *)
(***************************************************************************)

Send(line) == lines' = Append(lines, line)

\* The connection thread takes a call: it subscribes, or queues it.
Receive ==
    /\ up /\ acking = "none" /\ requests # <<>>
    /\ requests' = Tail(requests)
    /\ \/ /\ Head(requests) \in Subscribing
          /\ subscribed' = TRUE
          /\ acking' = Head(requests)
          /\ UNCHANGED queue
       \/ /\ Head(requests) \notin Subscribing
          /\ queue' = Append(queue, Head(requests))
          /\ UNCHANGED <<subscribed, acking>>
    /\ UNCHANGED <<client, batching, pushed, lines, up>>

\* The second half of er_handle_cmd.
Acknowledge ==
    /\ up /\ acking # "none"
    /\ Send(Answer(acking))
    /\ acking' = "none"
    /\ UNCHANGED <<client, batching, requests, queue, subscribed, pushed, up>>

\* The main thread executes a call: its handler answers it, with ok or with an
\* error.  A name that protocol_needs_response takes for one of its families
\* and for which there is no handler is answered by nobody.
Execute ==
    /\ up /\ queue # <<>>
    /\ queue' = Tail(queue)
    /\ \/ Head(queue) \notin Unknown /\ Send(Answer(Head(queue)))
       \/ Head(queue) \in Unknown /\ UNCHANGED lines
    /\ UNCHANGED <<client, batching, requests, acking, subscribed, pushed, up>>

\* The main thread pushes an event.
Push ==
    /\ up /\ subscribed /\ pushed < MaxEvents
    /\ pushed' = pushed + 1
    /\ Send(Event(pushed + 1))
    /\ UNCHANGED <<client, batching, requests, acking, queue, subscribed, up>>

\* The server goes, or the connection: what was not read by it is lost.
Down ==
    /\ up
    /\ up' = FALSE
    /\ requests' = <<>> /\ acking' = "none" /\ queue' = <<>>
    /\ UNCHANGED <<client, batching, subscribed, pushed, lines>>

ClientNext ==
    \/ \E c \in Calls : sync(c)
    \/ OnLine \/ NextLine \/ drain_events \/ OnClose
    \/ cmd \/ BeginBatch \/ EndBatch
    \/ Receive \/ Acknowledge \/ Execute \/ Push \/ Down

\* Both threads of the server run, and the program's event loop does.
ClientFairness ==
    /\ WF_clientVars(Receive) /\ WF_clientVars(Acknowledge) /\ WF_clientVars(Execute)
    /\ WF_clientVars(OnLine) /\ WF_clientVars(NextLine) /\ WF_clientVars(OnClose)

ClientSpec == ClientInit /\ [][ClientNext]_clientVars /\ ClientFairness

(***************************************************************************)
(* Properties                                                              *)
(***************************************************************************)

PairedRight == \A c \in Calls : taken[c] \in {Answer(c), Nothing}

\* A call is settled by its own answer, or by the end of the connection: never
\* by what another call was answered, nor by an event.  A library that blocks
\* can only promise that to a program that has not subscribed.
SettledByOwnAnswer == library = "js" \/ ~subscribed => PairedRight

\* raylib_client.rb: "The client sends these with a unique id and blocks reading
\* one response line".  The line may be an event.
OneResponseLine == library = "ruby" => PairedRight

\* Events reach the program in the order they were pushed in, and none is
\* taken by a call on the way: those it has are the first ones, and the others
\* are among the lines under way, in order.
EventsInOrder ==
    LET Under == {i \in DOMAIN lines : lines[i].event # 0} IN
    library = "js" =>
        /\ Len(events) <= pushed
        /\ \A n \in DOMAIN events : events[n] = Event(n)
        /\ {lines[i].event : i \in Under} = Len(events) + 1..pushed
        /\ \A i, j \in Under : i < j => lines[i].event < lines[j].event

\* However batches are opened, one inside another or by two tasks at once, and
\* in whatever order they end: no command without an answer is written twice,
\* and none overtakes an earlier one.
NoneOvertakes ==
    LET all == written \o Buffered IN
    /\ \A i \in DOMAIN all : all[i] <= issued
    /\ \A i, j \in DOMAIN all : i < j => all[i] < all[j]

\* raylib_client.rb: "Buffer all fire-and-forget commands issued in the block
\* and flush them to the socket in a single write call."  They are lost when
\* another batch begins meanwhile.
WrittenInOrder ==
    written \o Buffered = [n \in 1..issued |-> n]

\* A call that the server has a handler for, made on a connection whose end the
\* library has not seen yet, does not wait for ever: it is answered, or the
\* connection ends.
EveryCallSettles ==
    \A c \in Calls \ Unknown :
        (state[c] = "waiting" /\ ~closed) ~> (state[c] = "settled")

\* raylib_client.js on sync: "Send a synchronous command and resolve with the
\* result object".  On a connection that has ended it never does, nor rejects.
NoCallHangs ==
    \A c \in Calls : state[c] = "waiting" ~> state[c] = "settled"
=============================================================================
