------------------------------ MODULE FrameLoop ------------------------------
(***************************************************************************)
(* The main thread: the frame loop of src/src/main.c, with the window      *)
(* events of commands_push_events in src/src/commands.c.                   *)
(*                                                                         *)
(* A frame drains the command queue, replays the display lists, ticks the  *)
(* timers, pushes events and ends with EndDrawing, in which raylib polls   *)
(* the window system: what it saw there is what WindowShouldClose and      *)
(* IsWindowFocused say until the next poll, and the keys pressed before it *)
(* are what GetKeyPressed gives out, one by one, to whoever asks: a client *)
(* by the command of that name, or commands_push_events.  What poll finds  *)
(* left of the keys before it throws away.  Connection threads push        *)
(* commands at any time; only their number matters here.  One of the       *)
(* clients follows the focus: it subscribes to WindowFocused and           *)
(* WindowUnfocused, which tell changes only, and may ask IsWindowFocused   *)
(* once it has.                                                            *)
(***************************************************************************)
EXTENDS Integers, Sequences, SequencesExt

CONSTANTS
    QueueMax,   \* CMD_QUEUE_CAPACITY
    Endless,    \* do clients go on sending commands for ever?
    MaxPush,    \* bound: commands ever pushed, when they do not
    KeyQueueMax,\* MAX_KEY_PRESSED_QUEUE of raylib
    MaxKeys     \* bound: keys pressed

ASSUME BoundsAssumption == QueueMax \in Nat \ {0} /\ {KeyQueueMax, MaxPush, MaxKeys} \subseteq Nat
ASSUME EndlessAssumption == Endless \in BOOLEAN

\* Replaying the lists, ticking the timers and pushing events other than those
\* of the window have modules of their own and are one phase here.
Phase == {"check", "drain", "replay", "events", "end", "stopped"}

VARIABLES
    phase,      \* where the main thread is
    queued,     \* commands in the queue
    pushes,     \* commands pushed so far, unless they are endless
    window,     \* the window system: focus, the user's wish to close, keys
    polled,     \* the same as raylib saw it at the latest poll
    lastFocused,\* s_last_focused
    announced,  \* history: was WindowClosed pushed?
    known,      \* the focus as the client that follows it knows it
    interrupted,\* has the process got a SIGINT?
    keys,       \* raylib's queue: keys of the latest poll not given out yet
    answered,   \* history: keys given out to clients, by GetKeyPressed
    told        \* history: keys pushed in KeyPressed events

world == <<queued, pushes, window, interrupted>>
reports == <<lastFocused, announced, known>>
keyboard == <<keys, answered, told>>
loopVars == <<phase, world, polled, reports, keyboard>>

\* The n-th key that is pressed is key n.  One for which raylib's queue has no
\* room is dropped by its callback and counts as never pressed.
Focus == {"focused", "unfocused"}
Status == [focus : Focus, close : BOOLEAN, typed : 0..MaxKeys]

LoopTypeOK ==
    /\ phase \in Phase
    /\ queued \in 0..QueueMax
    /\ pushes \in 0..MaxPush
    /\ window \in Status /\ polled \in Status
    /\ lastFocused \in Focus /\ known \in Focus \cup {"unsubscribed", "unknown"}
    /\ announced \in BOOLEAN /\ interrupted \in BOOLEAN
    /\ {keys, answered, told} \subseteq Seq(1..MaxKeys)
    /\ phase = "stopped" => polled.close

\* After InitWindow; the window may have come up without the focus.
LoopInit ==
    /\ phase = "check"
    /\ queued = 0 /\ pushes = 0
    /\ window \in [focus : Focus, close : {FALSE}, typed : {0}]
    /\ polled = window
    /\ lastFocused = "focused" /\ known = "unsubscribed"
    /\ announced = FALSE /\ interrupted = FALSE
    /\ keys = <<>> /\ answered = <<>> /\ told = <<>>

(***************************************************************************)
(* The world around                                                        *)
(***************************************************************************)

\* A connection thread's cmdq_push.
cmdq_push ==
    /\ queued < QueueMax
    /\ Endless \/ pushes < MaxPush
    /\ queued' = queued + 1
    /\ pushes' = IF Endless THEN 0 ELSE pushes + 1
    /\ UNCHANGED <<phase, window, interrupted, polled, reports, keyboard>>

FocusChanges ==
    /\ \E f \in Focus \ {window.focus} : window' = [window EXCEPT !.focus = f]
    /\ UNCHANGED <<phase, queued, pushes, interrupted, polled, reports, keyboard>>

UserCloses ==
    /\ window' = [window EXCEPT !.close = TRUE]
    /\ UNCHANGED <<phase, queued, pushes, interrupted, polled, reports, keyboard>>

KeyIsPressed ==
    /\ window.typed < MaxKeys
    /\ window.typed - polled.typed < KeyQueueMax
    /\ window' = [window EXCEPT !.typed = @ + 1]
    /\ UNCHANGED <<phase, queued, pushes, interrupted, polled, reports, keyboard>>

\* A connection thread's er_subscribe, for both events of the focus.
er_subscribe ==
    /\ known = "unsubscribed"
    /\ known' = "unknown"
    /\ UNCHANGED <<phase, world, polled, lastFocused, announced, keyboard>>

\* handle_sigint does nothing.
Sigint ==
    /\ interrupted' = TRUE
    /\ UNCHANGED <<phase, queued, pushes, window, polled, reports, keyboard>>

(***************************************************************************)
(* The main thread                                                         *)
(***************************************************************************)

\* while (!WindowShouldClose()).
Check ==
    /\ phase = "check"
    /\ phase' = IF polled.close THEN "stopped" ELSE "drain"
    /\ UNCHANGED <<world, polled, reports, keyboard>>

\* commands_execute; even CloseWindow is only logged.  GetKeyPressed takes the
\* key it answers with, as does GetCharPressed from a queue of its own.
\* IsWindowFocused answers with what the poll saw.
commands_execute ==
    /\ phase = "drain"
    /\ queued > 0
    /\ queued' = queued - 1
    /\ \/ UNCHANGED <<keys, answered, known>>
       \/ /\ keys # <<>>
          /\ answered' = Append(answered, Head(keys))
          /\ keys' = Tail(keys)
          /\ UNCHANGED known
       \/ /\ known # "unsubscribed"
          /\ known' = polled.focus
          /\ UNCHANGED <<keys, answered>>
    /\ UNCHANGED <<phase, pushes, window, interrupted, polled, lastFocused, announced, told>>

\* cmdq_pop has returned false.
Drained ==
    /\ phase = "drain"
    /\ queued = 0
    /\ phase' = "replay"
    /\ UNCHANGED <<world, polled, reports, keyboard>>

\* Display lists, music, the frame count and the timers.
Replay ==
    /\ phase = "replay"
    /\ phase' = "events"
    /\ UNCHANGED <<world, polled, reports, keyboard>>

\* A change since the state that last stands for is told to who has subscribed.
TellFocus(last) ==
    known' = IF known # "unsubscribed" /\ polled.focus # last THEN polled.focus ELSE known

\* Fault: the state is kept only when the window has gained the focus.
PushEventsForgets ==
    /\ phase = "events"
    /\ TellFocus(lastFocused)
    /\ lastFocused' = IF polled.focus = "focused" THEN "focused" ELSE lastFocused
    /\ announced' = (announced \/ polled.close)
    /\ told' = told \o keys
    /\ keys' = <<>>
    /\ phase' = "end"
    /\ UNCHANGED <<world, polled, answered>>

\* Fault: one key each frame.
PushEventsOneKey ==
    /\ phase = "events"
    /\ TellFocus(lastFocused)
    /\ lastFocused' = polled.focus
    /\ announced' = (announced \/ polled.close)
    /\ told' = told \o SelectSeq(keys, LAMBDA key : key = Head(keys))
    /\ keys' = SelectSeq(keys, LAMBDA key : key # Head(keys))
    /\ phase' = "end"
    /\ UNCHANGED <<world, polled, answered>>

\* KeyPressed for each key that is left, WindowFocused or WindowUnfocused on a
\* change, WindowClosed on a wish to close, as far as raylib has seen them.  The
\* events of released keys, mouse, wheel, size and gestures are pushed too;
\* nothing of them is kept between frames, nor taken from anybody.
PushEvents ==
    /\ phase = "events"
    /\ TellFocus(lastFocused)
    /\ lastFocused' = polled.focus
    /\ announced' = (announced \/ polled.close)
    /\ told' = told \o keys
    /\ keys' = <<>>
    /\ phase' = "end"
    /\ UNCHANGED <<world, polled, answered>>

\* The keys pressed between two states of the window.
Between(earlier, later) == [n \in 1..(later.typed - earlier.typed) |-> earlier.typed + n]

\* Fault: something polls a second time, and the wish is gone.
EndDrawingPollsTwice ==
    /\ phase = "end"
    /\ phase' = "check"
    /\ polled' = [window EXCEPT !.close = FALSE]
    /\ window' = [window EXCEPT !.close = FALSE]
    /\ keys' = Between(polled, window)
    /\ UNCHANGED <<queued, pushes, interrupted, reports, answered, told>>

\* PollInputEvents takes over the window's state; a wish to close is taken once.
EndDrawing ==
    /\ phase = "end"
    /\ phase' = "check"
    /\ polled' = window
    /\ window' = [window EXCEPT !.close = FALSE]
    /\ keys' = Between(polled, window)
    /\ UNCHANGED <<queued, pushes, interrupted, reports, answered, told>>

LoopStep ==
    \/ Check \/ commands_execute \/ Drained \/ Replay \/ PushEvents \/ EndDrawing

LoopNext ==
    \/ cmdq_push
    \/ FocusChanges
    \/ UserCloses
    \/ KeyIsPressed
    \/ er_subscribe
    \/ Sigint
    \/ Check
    \/ commands_execute
    \/ Drained
    \/ Replay
    \/ PushEvents
    \/ EndDrawing

LoopSpec == LoopInit /\ [][LoopNext]_loopVars

\* The main thread runs; nothing is assumed of clients, user and system.
FairLoopSpec == LoopSpec /\ WF_loopVars(LoopStep)

(***************************************************************************)
(* Properties                                                              *)
(***************************************************************************)

\* A client that asks for the focus after it has subscribed and follows the
\* events from there, or knows it from an event alone, is not mistaken about it
\* at the end of any frame: no change falls between its answer and its first
\* event, and the guess the loop starts with does it no harm.  Changes between
\* two polls that cancel out are not told.
FocusIsReported == phase = "end" /\ known \in Focus => known = polled.focus

\* Each key that was pressed goes to one client by GetKeyPressed or to the
\* subscribers of KeyPressed, to either in the order of pressing, and none is
\* lost: those that no client has asked for are pushed before the next poll.
KeyGoesOnce ==
    LET ascending(s) == \A m, n \in DOMAIN s : m < n => s[m] < s[n] IN
    /\ ascending(answered \o keys) /\ ascending(told \o keys)
    /\ ToSet(answered) \cap ToSet(told) = {}
    /\ ToSet(answered) \cup ToSet(told) \cup ToSet(keys) = 1..polled.typed

\* README lists KeyPressed among the events clients can subscribe to: the
\* subscribers hear of every key.
EveryKeyIsTold == phase = "end" => ToSet(told) = 1..polled.typed

\* README: the server renders "at a steady frame rate": there is always a next
\* frame, until the loop ends.
FramesGoOn == []<>(phase \in {"end", "stopped"})

\* A wish to close is seen by the loop, whenever it comes, and is not lost
\* although raylib reports it for one frame only.
CloseEndsLoop == window.close ~> phase = "stopped"

\* README lists WindowClosed among the events clients can subscribe to: they
\* are told before the loop ends.
CloseIsAnnounced == phase = "stopped" => announced

\* main.c on SIGINT: "The main loop will see WindowShouldClose() return true
\* after the next PollInputEvents()".
SigintEndsLoop == interrupted ~> phase = "stopped"
=============================================================================
