-------------------------------- MODULE Wire --------------------------------
(***************************************************************************)
(* Writing to a client: protocol_send and the table of binary sockets of   *)
(* src/src/protocol.c, and the switch to binary mode in src/src/server.c.  *)
(*                                                                         *)
(* Every message is two calls of write: the object and its newline, or a   *)
(* length and the payload.  A connection's thread and the main thread both *)
(* write to its socket, and no lock is held across the two calls.  Socket  *)
(* numbers are reused as soon as they are closed.                          *)
(***************************************************************************)
EXTENDS Integers, Sequences, FiniteSets

CONSTANTS
    Clients,    \* one connection each
    BinaryMax,  \* BINARY_FD_MAX
    MaxSent     \* bound: messages of each writer

ASSUME ClientsAssumption == IsFiniteSet(Clients) /\ "main" \notin Clients
ASSUME BinaryMaxAssumption == BinaryMax \in Nat
ASSUME MaxSentAssumption == MaxSent \in Nat

Writers == Clients \cup {"main"}

Fd == 1..Cardinality(Clients)

Form == {"json", "binary", "ack"}

VARIABLES
    thread,     \* where each connection's thread is
    fd,         \* the socket each connection has, or had; 0 before
    asked,      \* binary_mode of each connection
    binary,     \* g_binary_fds
    step,       \* the next write of each writer
    form,       \* the form it has chosen
    to,         \* the socket it writes to
    left,       \* messages each writer may still send
    stream      \* what each client has received

vars == <<thread, fd, asked, binary, step, form, to, left, stream>>

TypeOK ==
    /\ thread \in [Clients -> {"none", "open", "cleared", "gone"}]
    /\ fd \in [Clients -> Fd \cup {0}]
    /\ asked \in [Clients -> BOOLEAN]
    /\ binary \subseteq Fd /\ Cardinality(binary) <= BinaryMax
    /\ step \in [Writers -> 0..2]
    /\ form \in [Writers -> Form]
    /\ to \in [Writers -> Fd \cup {0}]
    /\ left \in [Writers -> 0..MaxSent]
    /\ \A c \in Clients :
         stream[c] \in Seq([from : Writers, form : Form, part : 1..2])

Init ==
    /\ thread = [c \in Clients |-> "none"]
    /\ fd = [c \in Clients |-> 0]
    /\ asked = [c \in Clients |-> FALSE]
    /\ binary = {}
    /\ step = [w \in Writers |-> 0]
    /\ form = [w \in Writers |-> "json"]
    /\ to = [w \in Writers |-> 0]
    /\ left = [w \in Writers |-> MaxSent]
    /\ stream = [c \in Clients |-> <<>>]

Connected == {c \in Clients : thread[c] \in {"open", "cleared"}}

Idle(c) == thread[c] = "open" /\ step[c] = 0

\* accept: the kernel gives out the lowest number that is free.
Accept(c) ==
    LET free == Fd \ {fd[d] : d \in Connected} IN
    /\ thread[c] = "none"
    /\ thread' = [thread EXCEPT ![c] = "open"]
    /\ \E f \in free :
         /\ \A g \in free : f <= g
         /\ fd' = [fd EXCEPT ![c] = f]
    /\ UNCHANGED <<asked, binary, step, form, to, left, stream>>

\* protocol_set_binary: without a word when the table is full.
SetBinary(f) ==
    binary' = IF Cardinality(binary) < BinaryMax THEN binary \cup {f} ELSE binary

\* protocol_send looks the socket up and chooses the form.
BeginSend(w, f) ==
    /\ step[w] = 0
    /\ left[w] > 0
    /\ left' = [left EXCEPT ![w] = @ - 1]
    /\ step' = [step EXCEPT ![w] = 1]
    /\ to' = [to EXCEPT ![w] = f]
    /\ form' = [form EXCEPT ![w] = IF f \in binary THEN "binary" ELSE "json"]
    /\ UNCHANGED <<thread, fd, asked, binary, stream>>

\* The connection's thread answers its client.
Answer(c) == Idle(c) /\ BeginSend(c, fd[c])

\* The main thread answers a command or pushes an event, to a socket that a
\* connection had when the command was sent.
MainSend == \E c \in Clients : thread[c] # "none" /\ BeginSend("main", fd[c])

\* on_line, BINARY: the socket is entered in the table, then comes the
\* answer, in JSON by writing it directly.
Switch(c) ==
    /\ Idle(c)
    /\ ~asked[c]
    /\ asked' = [asked EXCEPT ![c] = TRUE]
    /\ SetBinary(fd[c])
    /\ step' = [step EXCEPT ![c] = 1]
    /\ to' = [to EXCEPT ![c] = fd[c]]
    /\ form' = [form EXCEPT ![c] = "ack"]
    /\ UNCHANGED <<thread, fd, left, stream>>

\* One write, to whoever has the socket now.  If nobody has it fails, and
\* there is no second one.
Write(w) ==
    LET piece == [from |-> w, form |-> form[w], part |-> step[w]]
        receiver == {c \in Connected : fd[c] = to[w]} IN
    /\ step[w] > 0
    /\ stream' = [c \in Clients |->
                    IF c \in receiver THEN Append(stream[c], piece) ELSE stream[c]]
    /\ step' = [step EXCEPT ![w] = IF receiver = {} THEN 0 ELSE (@ + 1) % 3]
    /\ UNCHANGED <<thread, fd, asked, binary, form, to, left>>

\* Fault: the count is decremented, but the last entry is not moved.
ForgetAnother(c) ==
    /\ Idle(c)
    /\ thread' = [thread EXCEPT ![c] = "cleared"]
    /\ IF fd[c] \in binary
       THEN \E f \in binary : binary' = binary \ {f}
       ELSE UNCHANGED binary
    /\ UNCHANGED <<fd, asked, step, form, to, left, stream>>

\* Fault: the table is not cleared.
ForgetNothing(c) ==
    /\ Idle(c)
    /\ thread' = [thread EXCEPT ![c] = "cleared"]
    /\ UNCHANGED <<fd, asked, binary, step, form, to, left, stream>>

\* The thread's end: protocol_clear_binary, ...
Forget(c) ==
    /\ Idle(c)
    /\ thread' = [thread EXCEPT ![c] = "cleared"]
    /\ binary' = binary \ {fd[c]}
    /\ UNCHANGED <<fd, asked, step, form, to, left, stream>>

\* ... and then close, after which the number may be another's.
Close(c) ==
    /\ thread[c] = "cleared"
    /\ thread' = [thread EXCEPT ![c] = "gone"]
    /\ UNCHANGED <<fd, asked, binary, step, form, to, left, stream>>

Next ==
    \/ \E c \in Clients : Accept(c)
    \/ \E c \in Clients : Answer(c)
    \/ \E c \in Clients : Switch(c)
    \/ \E c \in Clients : Forget(c)
    \/ \E c \in Clients : Close(c)
    \/ MainSend
    \/ \E w \in Writers : Write(w)

Spec == Init /\ [][Next]_vars

(***************************************************************************)
(* Properties                                                              *)
(***************************************************************************)

\* The answer to BINARY is complete before place i of c's stream.
AckedBefore(c, i) ==
    \E j \in 1..(i - 1) : stream[c][j].form = "ack" /\ stream[c][j].part = 2

\* The table speaks of connections that are open and have asked for binary
\* mode: a socket number that is reused starts in JSON.
BinaryMeansAsked ==
    \A f \in binary : \E c \in Connected : fd[c] = f /\ asked[c]

\* README, Binary mode: after the acknowledgement "all subsequent frames use a
\* 4-byte little-endian length prefix", and before it none, as far as the
\* connection's own thread is concerned.
OwnRepliesFramed ==
    \A c \in Clients : \A i \in DOMAIN stream[c] :
        stream[c][i].from = c /\ stream[c][i].form # "ack" =>
            (stream[c][i].form = "binary" <=> AckedBefore(c, i))

\* README, Wire Protocol: "One JSON object per line, \n-terminated": the two
\* halves of a message follow one another.
MessagesAreWhole ==
    \A c \in Clients : \A i \in 1..(Len(stream[c]) - 1) :
        stream[c][i].part = 1 =>
            /\ stream[c][i + 1].part = 2
            /\ stream[c][i + 1].from = stream[c][i].from

\* server.c, on_line: "Send JSON ACK before switching": nothing binary reaches
\* the client before it.
AckBeforeSwitch ==
    \A c \in Clients : \A i \in DOMAIN stream[c] :
        stream[c][i].form = "binary" => AckedBefore(c, i)
=============================================================================
