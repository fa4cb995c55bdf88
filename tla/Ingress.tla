------------------------------- MODULE Ingress -------------------------------
(***************************************************************************)
(* From a command in a client to the same command in the server: packed as *)
(* MessagePack, framed, cut up by TCP, put together by the connection      *)
(* thread (Receiver), unpacked (MsgPack) and read by on_binary_message in  *)
(* src/src/server.c; its data, if it has any, unpacked again (Base64).     *)
(*                                                                         *)
(* src/lib/msgpack_mini.rb chooses the same forms as the server's encoder, *)
(* so encode_value stands for both.                                        *)
(***************************************************************************)
EXTENDS Receiver, MsgPack, Base64

CONSTANTS
    Alphabet,   \* bound: the bytes of which lines are made
    StreamMax,  \* bound: bytes a client sends as lines
    Sessions    \* bound: what a client sends as frames: sequences of messages

\* A message: a command with an id and arguments as values, which need not be
\* what the server expects of them; what the server should read for the
\* arguments; the data of which they are the base64, if they are (a set of at
\* most one); and how many bytes its packed form lacks.
ASSUME SessionsAssumption ==
    \A s \in Sessions : \A k \in DOMAIN s :
        DOMAIN s[k] = {"cmd", "id", "args", "reads", "data", "cut"}

VARIABLE asked      \* history: the session

ivars == <<rvars, asked>>

(***************************************************************************)
(* Commands                                                                *)
(***************************************************************************)

cmd  == <<99, 109, 100>>
id   == <<105, 100>>
args == <<97, 114, 103, 115>>

\* The first entry with this key; cJSON finds none in what is no object.
GetItem(root, key) ==
    LET found == IF root.is = "object"
                 THEN SelectSeq(root.entries, LAMBDA e : e[1] = key)
                 ELSE <<>> IN
    IF found = <<>> THEN NULL.value ELSE found[1][2]

ParsedCmd(name, number, arguments) ==
    [cmd |-> name, id |-> number, args |-> arguments]

Error(message) == [error |-> message]

\* The id counts only if it is a string.
IdOf(root) ==
    IF GetItem(root, id).is = "string" THEN GetItem(root, id) ELSE NULL.value

\* on_binary_message: the command that is dispatched, or the error that is
\* answered instead.  protocol_parse_line reads JSON objects in the same way.
on_binary_message(payload) ==
    LET root == mp_decode(payload) IN
    CASE root = NULL.value -> Error("msgpack decode error")
      [] root # NULL.value /\ GetItem(root, cmd).is # "string" ->
           Error("missing cmd field")
      [] OTHER -> ParsedCmd(GetItem(root, cmd).chars, IdOf(root),
                            GetItem(root, args))

Handled == [k \in DOMAIN out |-> on_binary_message(out[k])]

(***************************************************************************)
(* Behaviour                                                               *)
(***************************************************************************)

\* A field that is absent from the message.
Absent == NULL.value

Packed(m) ==
    LET field(key, val) == IF val = Absent THEN <<>> ELSE <<<<key, val>>>>
        bytes == encode_value(Object(field(cmd, m.cmd) \o field(id, m.id)
                                     \o field(args, m.args))) IN
    SubSeq(bytes, 1, Len(bytes) - m.cut)

\* The length of a frame goes first, its lowest byte before the others.
Framed(payload) == Reverse(BigEndian(Len(payload), SizeBytes)) \o payload

IngressInit ==
    /\ \/ /\ sent \in UNION {[1..n -> Alphabet] : n \in 0..StreamMax}
          /\ asked = <<>>
       \/ /\ asked \in Sessions
          /\ sent = SwitchLine \o <<nl>>
                    \o FlattenSeq([k \in DOMAIN asked |-> Framed(Packed(asked[k]))])
    /\ written = Leading
    /\ pos = 0
    /\ mode = "lines"
    /\ line = <<>>
    /\ size = 0
    /\ part = <<>>
    /\ out = <<>>

IngressNext == ReceiverNext /\ UNCHANGED asked

IngressSpec == IngressInit /\ [][IngressNext]_ivars

(***************************************************************************)
(* Properties                                                              *)
(***************************************************************************)

Meant(m) ==
    CASE m.cut > 0 -> Error("msgpack decode error")
      [] m.cut = 0 /\ m.cmd.is # "string" -> Error("missing cmd field")
      [] OTHER -> ParsedCmd(m.cmd.chars,
                            IF m.id.is = "string" THEN m.id ELSE Absent,
                            m.reads)

\* The commands that are dispatched are those the client meant, with their ids
\* and arguments, in its order: at every border between two widths of a number
\* or a length, and whatever TCP cuts.  A whole number of up to 2^53 is read as
\* it is, a larger one as the double that is nearest, and never with another
\* sign.  A message that was damaged is noticed, and its neighbours do not
\* suffer.
DecodedAsSent ==
    asked # <<>> =>
        /\ \A k \in DOMAIN out : Handled[k] = Meant(asked[k])
        /\ pos = Len(sent) => Len(out) = Len(asked)

\* The texts of data that have arrived in messages.
Texts == {k \in DOMAIN out :
    asked # <<>> /\ asked[k].cut = 0 /\ asked[k].args.is = "string"}

\* Data arrives as it was, with padding, without, and with line breaks.  And
\* b64_decode does not check where it writes: whatever the text, the buffer that
\* it allocated from the length of the text is long enough.
DataAsSent ==
    \A k \in Texts :
        LET text == Handled[k].args.chars
            data == b64_decode(text) IN
        /\ asked[k].data \subseteq {data}
        /\ Len(data) <= max_out(text)
=============================================================================
