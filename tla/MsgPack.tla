------------------------------- MODULE MsgPack -------------------------------
(***************************************************************************)
(* MessagePack as src/src/msgpack.c writes and reads it: arrays and maps,  *)
(* to any depth, on top of Scalars.                                        *)
(***************************************************************************)
EXTENDS Scalars, SequencesExt

Array(items) == [is |-> "array", items |-> items]
Object(entries) == [is |-> "object", entries |-> entries]  \* <<key, value>> pairs

Arr == [tag \in 220..221 |-> 2^(tag - 219)]
Map == [tag \in 222..223 |-> 2^(tag - 221)]

(***************************************************************************)
(* Encoder                                                                 *)
(***************************************************************************)

RECURSIVE encode_value(_)
encode_value(val) ==
    CASE val.is = "nil" -> <<192>>
      [] val.is = "false" -> <<194>>
      [] val.is = "true" -> <<195>>
      [] val.is = "string" -> encode_str(val.chars)
      [] val.is = "whole" -> encode_number(val.raw)
      [] val.is = "float" -> <<203>> \o val.raw
      [] val.is = "array" ->
           Header(Arr, Len(val.items), 144, 15) \o
           FlattenSeq([i \in DOMAIN val.items |-> encode_value(val.items[i])])
      [] val.is = "object" ->
           Header(Map, Len(val.entries), 128, 15) \o
           FlattenSeq([i \in DOMAIN val.entries |->
               encode_str(val.entries[i][1]) \o encode_value(val.entries[i][2])])

(***************************************************************************)
(* Decoder                                                                 *)
(***************************************************************************)

RECURSIVE decode_value(_)

\* The next n values: decode_array adds one after the other to an array.
decode_array(buf, n) ==
    LET step(r, i) ==
            IF r = NULL THEN NULL
            ELSE LET item == decode_value(r.rest) IN
                 IF item = NULL THEN NULL
                 ELSE Read(Array(Append(r.value.items, item.value)), item.rest) IN
    FoldLeft(step, Read(Array(<<>>), buf), [i \in 1..n |-> i])

\* Keys have to be strings.
decode_map(buf, n) ==
    LET step(r, i) ==
            IF r = NULL THEN NULL
            ELSE LET key == decode_value(r.rest)
                     val == decode_value(key.rest) IN
                 IF key = NULL \/ key.value.is # "string" \/ val = NULL THEN NULL
                 ELSE Read(Object(Append(r.value.entries,
                                         <<key.value.chars, val.value>>)),
                           val.rest) IN
    FoldLeft(step, Read(Object(<<>>), buf), [i \in 1..n |-> i])

\* A length in so many bytes, and so many values.
Sized(buf, width, decode(_, _)) ==
    IF Short(buf, width) THEN NULL
                         ELSE decode(Beyond(buf, width), Length(mr_read(buf, width)))

Tagged(tag, buf) ==
    CASE tag \in 128..143 -> decode_map(buf, tag - 128)
      [] tag \in 144..159 -> decode_array(buf, tag - 144)
      [] tag \in DOMAIN Arr -> Sized(buf, Arr[tag], decode_array)
      [] tag \in DOMAIN Map -> Sized(buf, Map[tag], decode_map)
      [] OTHER -> Scalar(tag, buf)

decode_value(buf) ==
    IF Short(buf, 1) THEN NULL ELSE Tagged(buf[1], Beyond(buf, 1))

\* What comes after the value is ignored.
mp_decode(buf) == decode_value(buf).value
=============================================================================
