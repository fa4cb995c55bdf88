------------------------------ MODULE MCIngress ------------------------------
(***************************************************************************)
(* Sessions for Ingress: one message with every argument, or several       *)
(* messages of which some are damaged.                                     *)
(***************************************************************************)
EXTENDS Ingress

Bytes(n, byte) == [i \in 1..n |-> byte]

\* Both sides of every border between two widths, as the encoder tests them.
WholeValues ==
    {Whole(Unsigned(b)) : b \in {<<0>>, <<127>>, <<128>>, <<255>>, <<1, 0>>,
        <<255, 255>>, <<1, 0, 0>>, <<255, 255, 255, 255>>, <<1, 0, 0, 0, 0>>}}
    \cup
    {Whole(Signed(b)) : b \in {<<255>>, <<224>>, <<223>>, <<128>>, <<255, 127>>,
        <<128, 0>>, <<255, 127, 255>>, <<128, 0, 0, 0>>,
        <<255, 127, 255, 255, 255>>}}

\* Around 2^53, 2^63 and 2^64, and -2^53 and -2^63: what a client sends, and the
\* double that is nearest to it.
LargeValues ==
    {<<Whole(Unsigned(b[1])), Whole(Unsigned(b[2]))>> : b \in {
        <<<<31>> \o Bytes(6, 255), <<31>> \o Bytes(6, 255)>>,
        <<<<32>> \o Bytes(6, 0), <<32>> \o Bytes(6, 0)>>,
        <<<<32, 0, 0, 0, 0, 0, 1>>, <<32>> \o Bytes(6, 0)>>,
        <<<<32, 0, 0, 0, 0, 0, 3>>, <<32, 0, 0, 0, 0, 0, 4>>>>,
        <<<<127>> \o Bytes(7, 255), <<128>> \o Bytes(7, 0)>>,
        <<<<128>> \o Bytes(7, 0), <<128>> \o Bytes(7, 0)>>,
        <<Bytes(6, 255) \o <<251, 255>>, Bytes(6, 255) \o <<248, 0>>>>,
        <<Bytes(6, 255) \o <<252, 0>>, <<1>> \o Bytes(8, 0)>>,
        <<Bytes(8, 255), <<1>> \o Bytes(8, 0)>>}}
    \cup
    {<<Whole(Signed(b[1])), Whole(Signed(b[2]))>> : b \in {
        <<<<224>> \o Bytes(6, 0), <<224>> \o Bytes(6, 0)>>,
        <<<<223>> \o Bytes(6, 255), <<224>> \o Bytes(6, 0)>>,
        <<<<128>> \o Bytes(7, 0), <<128>> \o Bytes(7, 0)>>,
        <<<<128, 0, 0, 0, 0, 0, 0, 1>>, <<128>> \o Bytes(7, 0)>>}}

Values ==
    WholeValues
    \cup {Absent, Nil, True, False, Float(<<63, 224, 0, 0, 0, 0, 0, 0>>)}
    \cup {String(Bytes(n, 97)) : n \in {0, 1, 31, 32, 255, 256}}
    \cup {Array(Bytes(n, Nil)) : n \in {0, 15, 16}}
    \cup {Object([i \in 1..n |-> <<<<96 + i>>, Array(<<True>>)>>]) : n \in {0, 15, 16}}

Named(name, number, arguments, n) ==
    [cmd |-> name, id |-> number, args |-> arguments, reads |-> arguments,
     data |-> {}, cut |-> n]

Draw == String(<<68>>)

Plain == Named(Draw, Absent, Absent, 0)

\* Messages that are damaged, lack their command, or have an id of the wrong
\* type.
Odd ==
    {Named(Draw, String(<<49>>), String(<<97, 98>>), n) : n \in 1..14}
    \cup {Named(name, String(<<49>>), Absent, 0) : name \in {Absent, Nil, Whole(Bytes(9, 0))}}
    \cup {Named(Draw, number, Nil, 0) : number \in {Nil, Whole(Bytes(9, 0)), String(<<>>)}}

Data == UNION {[1..n -> {0, 107, 255}] : n \in 0..4}

\* As Base64.strict_encode64 writes it, without its padding, and with line
\* breaks.
Written(data) ==
    {Letters(data) \o Padding(data), Letters(data),
     FlattenSeq([k \in DOMAIN Letters(data) |-> <<Letters(data)[k], 10>>])}

Carrying(text, data) ==
    [Plain EXCEPT !.args = String(text), !.reads = String(text), !.data = data]

Chunks ==
    UNION {{Carrying(text, {data}) : text \in Written(data)} : data \in Data}
    \cup {Carrying(text, {}) : text \in UNION {[1..n -> {65, 61, 32}] : n \in 0..4}}

MCSessions ==
    {<<Named(Draw, String(<<49>>), val, 0)>> : val \in Values}
    \cup {<<[Plain EXCEPT !.args = pair[1], !.reads = pair[2]]>> : pair \in LargeValues}
    \cup {<<Plain, m, Plain>> : m \in Odd}
    \cup {<<m>> : m \in Chunks}
=============================================================================
