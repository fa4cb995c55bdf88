------------------------------- MODULE Receiver -------------------------------
(***************************************************************************)
(* What a connection thread makes of the bytes it receives: the line       *)
(* buffer of src/src/protocol.c and the two phases of connection_thread in *)
(* src/src/server.c.                                                       *)
(*                                                                         *)
(* TCP hands the stream over in chunks cut anywhere.  In the first phase   *)
(* lines end with a newline, and the line BINARY (here: B) starts the      *)
(* second, in which a frame is a length and so many bytes.                 *)
(*                                                                         *)
(* The server runs a whole chunk through the line buffer, what follows     *)
(* BINARY in it too, and loses frames that come in the same one.  It is    *)
(* for the client to wait for the answer to BINARY before it sends its     *)
(* first frame, as README's example does and the clients do here.          *)
(***************************************************************************)
EXTENDS Integers, Sequences, SequencesExt

CONSTANTS
    LineMax,    \* LINEBUF_MAX
    FrameMax,   \* the longest payload, 1 MiB
    SizeBytes,  \* bytes of a frame's length, 4
    ChunkMax    \* bound: bytes of one recv

ASSUME MaxAssumption == {LineMax, FrameMax, SizeBytes, ChunkMax} \subseteq Nat \ {0}

Byte == 0..255

nl == 10

SwitchLine == <<66>>

VARIABLES
    sent,       \* the client's bytes
    written,    \* how many of them it has sent so far
    pos,        \* how many of them have been received
    mode,       \* "lines", "frames" or, once the thread has ended, "closed"
    line,       \* the line buffer
    size,       \* payload_len, 0 while it is being received
    part,       \* what the recv_all that is under way has received
    out         \* lines and frames handed on, in order

rvars == <<sent, written, pos, mode, line, size, part, out>>

\* The places where a line BINARY ends.
SwitchEnds == {i \in 2..Len(sent) :
    /\ sent[i] = nl /\ <<sent[i - 1]>> = SwitchLine
    /\ (i = 2 \/ sent[i - 2] = nl)}

\* A client sends its lines, but nothing behind BINARY before it is answered.
Leading == IF SwitchEnds = {} THEN Len(sent) ELSE Min(SwitchEnds)

ReceiverInit ==
    /\ sent \in Seq(Byte)
    /\ written = Leading
    /\ pos = 0
    /\ mode = "lines"
    /\ line = <<>>
    /\ size = 0
    /\ part = <<>>
    /\ out = <<>>

\* The n bytes that recv returns.
Chunk(n) == SubSeq(sent, pos + 1, pos + n)

(***************************************************************************)
(* First phase                                                             *)
(***************************************************************************)

Input == [mode |-> mode, line |-> line, out |-> out]

\* One turn of the loop in linebuf_feed, with on_line: a line is handed on, or
\* switches the mode; one that is too long ends the connection.
Feed(s, byte) ==
    CASE s.mode = "closed" -> s
      [] s.mode # "closed" /\ byte = nl ->
           [mode |-> IF s.line = SwitchLine THEN "frames" ELSE s.mode,
            line |-> <<>>,
            out |-> IF s.line = SwitchLine THEN s.out ELSE Append(s.out, s.line)]
      [] s.mode # "closed" /\ byte # nl /\ Len(s.line) + 1 >= LineMax ->
           [s EXCEPT !.mode = "closed", !.line = <<>>]
      [] OTHER -> [s EXCEPT !.line = Append(@, byte)]

\* linebuf_feed: the bytes one after the other.
linebuf_feed(s, bytes) ==
    LET fed[k \in 0..Len(bytes)] ==
            IF k = 0 THEN s ELSE Feed(fed[k - 1], bytes[k]) IN
    fed[Len(bytes)]

\* recv in the first phase: the whole chunk goes through the line buffer.
RecvLines(n) ==
    /\ mode = "lines"
    /\ pos + n <= written
    /\ LET s == linebuf_feed(Input, Chunk(n)) IN
         mode' = s.mode /\ line' = s.line /\ out' = s.out
    /\ pos' = pos + n
    /\ UNCHANGED <<sent, written, size, part>>

(***************************************************************************)
(* Second phase                                                            *)
(***************************************************************************)

\* Little-endian; two bytes of a longer length are enough to exceed FrameMax.
payload_len(bytes) == FoldRight(LAMBDA b, n : n * 256 + b, bytes, 0)

\* How many bytes the recv_all under way is to receive.
Wanted == IF size = 0 THEN SizeBytes ELSE size

\* Fault: whatever recv returns is taken for all of it.
EnoughAtOnce(n) == TRUE

\* recv_all has what it was asked for.
Enough(n) == Len(part) + n = Wanted

\* One recv inside recv_all.
RecvFrame(n) ==
    /\ mode = "frames"
    /\ pos + n <= written
    /\ Len(part) + n <= Wanted
    /\ pos' = pos + n
    /\ LET whole == part \o Chunk(n) IN
         \/ /\ ~Enough(n)
            /\ part' = whole
            /\ UNCHANGED <<mode, size, out>>
         \/ /\ Enough(n) /\ size = 0 /\ payload_len(whole) \in 1..FrameMax
            /\ size' = payload_len(whole)
            /\ part' = <<>>
            /\ UNCHANGED <<mode, out>>
         \/ /\ Enough(n) /\ size = 0 /\ payload_len(whole) \notin 1..FrameMax
            /\ mode' = "closed"
            /\ part' = <<>>
            /\ UNCHANGED <<size, out>>
         \/ /\ Enough(n) /\ size # 0
            /\ out' = Append(out, whole)
            /\ size' = 0
            /\ part' = <<>>
            /\ UNCHANGED mode
    /\ UNCHANGED <<sent, written, line>>

\* The client has gone: what is left of a line or a frame is dropped.
Eof ==
    /\ mode # "closed"
    /\ mode' = "closed"
    /\ UNCHANGED <<sent, written, pos, line, size, part, out>>

\* The client has been answered that the server has switched.
SendFrames ==
    /\ mode = "frames" /\ written < Len(sent)
    /\ written' = Len(sent)
    /\ UNCHANGED <<sent, pos, mode, line, size, part, out>>

ReceiverNext ==
    \/ \E n \in 1..ChunkMax : RecvLines(n)
    \/ \E n \in 1..ChunkMax : RecvFrame(n)
    \/ SendFrames \/ Eof

ReceiverSpec == ReceiverInit /\ [][ReceiverNext]_rvars

(***************************************************************************)
(* Properties                                                              *)
(***************************************************************************)

\* What the first n bytes of the stream s say, without chunks: the frames that
\* begin at place i, one behind the other, up to a length that is refused ...
LengthAt(s, i) == payload_len(SubSeq(s, i, i + SizeBytes - 1))

FrameEnd(s, i) == i + SizeBytes + LengthAt(s, i) - 1

Payload(s, i) == SubSeq(s, i + SizeBytes, FrameEnd(s, i))

FrameIn(s, n, i) ==
    /\ i + SizeBytes - 1 <= n
    /\ LengthAt(s, i) \in 1..FrameMax
    /\ FrameEnd(s, i) <= n

Frames(s, n, first) ==
    LET from[i \in 1..n + 1] ==
            IF FrameIn(s, n, i) THEN <<Payload(s, i)>> \o from[FrameEnd(s, i) + 1]
                                ELSE <<>> IN
    from[first]

\* ... and the lines from there on, each of which lies before the next newline,
\* up to one that does not fit or the line BINARY.
LineEnds(s, n, i) ==
    {e \in i..n : s[e] = nl /\ e - i < LineMax /\ \A j \in i..e - 1 : s[j] # nl}

LineEnd(s, n, i) == CHOOSE e \in LineEnds(s, n, i) : TRUE

Text(s, n, i) == SubSeq(s, i, LineEnd(s, n, i) - 1)

Lines(s, n, first) ==
    LET from[i \in 1..n + 1] ==
            CASE LineEnds(s, n, i) = {} -> <<>>
              [] LineEnds(s, n, i) # {} /\ Text(s, n, i) = SwitchLine ->
                   Frames(s, n, LineEnd(s, n, i) + 1)
              [] OTHER -> <<Text(s, n, i)>> \o from[LineEnd(s, n, i) + 1] IN
    from[first]

\* However TCP cuts the stream of a client that waits for the answer to BINARY,
\* the messages handed on are those of the stream received so far, up to the first line that does not fit the buffer
\* or the first length that is refused.
DeliveredAsFramed == out = Lines(sent, pos, 1)
=============================================================================
