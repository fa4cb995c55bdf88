------------------------------- MODULE Scalars -------------------------------
(***************************************************************************)
(* MessagePack as src/src/msgpack.c writes and reads it: all but the       *)
(* values that hold other values, which MsgPack adds.                      *)
(*                                                                         *)
(* A value is what cJSON makes of it.  A whole number is kept as the bytes *)
(* of its two's complement, so that every border between two widths is a   *)
(* statement about bytes and no width has to be scaled down.  It has nine  *)
(* of them: numbers with and without a sign, of 64 bits, then differ, and  *)
(* there is room for 2^64, to which the largest are rounded.  Another      *)
(* number is the bytes of its float.  Failures of malloc are left out.     *)
(***************************************************************************)
EXTENDS Integers, Sequences, FiniteSetsExt

Nil == [is |-> "nil"]
True == [is |-> "true"]
False == [is |-> "false"]
Whole(raw) == [is |-> "whole", raw |-> raw]
Float(raw) == [is |-> "float", raw |-> raw]
String(chars) == [is |-> "string", chars |-> chars]

\* Big-endian bytes of a length, and the length of big-endian bytes.  From the
\* cap on no buffer has that many bytes, and the arithmetic of TLC stays below
\* 2^31.
BigEndian(n, width) == [i \in 1..width |-> (n \div 256^(width - i)) % 256]

LengthCap == 8388607

Length(bytes) ==
    LET upto[i \in 0..Len(bytes)] ==
            IF i = 0 THEN 0
            ELSE LET n == upto[i - 1] * 256 + bytes[i] IN
                 IF n < LengthCap THEN n ELSE LengthCap IN
    upto[Len(bytes)]

(***************************************************************************)
(* Tags: for each, how many bytes of a number or of a length follow        *)
(***************************************************************************)

Uint     == [tag \in 204..207 |-> 2^(tag - 204)]
Sint     == [tag \in 208..211 |-> 2^(tag - 208)]
Floating == [tag \in 202..203 |-> 2^(tag - 200)]
Str      == [tag \in 217..219 |-> 2^(tag - 217)]
Bin      == [tag \in 196..198 |-> 2^(tag - 196)]

TagOf(family, width) == CHOOSE tag \in DOMAIN family : family[tag] = width

(***************************************************************************)
(* Encoder                                                                 *)
(***************************************************************************)

\* A header with the length: in the tag itself, or in the fewest bytes that
\* the family offers.
Header(family, n, small, inTag) ==
    IF n <= inTag
    THEN <<small + n>>
    ELSE LET width == Min({w \in {family[t] : t \in DOMAIN family} :
                             w = 4 \/ n < 256^w}) IN
         <<TagOf(family, width)>> \o BigEndian(n, width)

encode_str(s) == Header(Str, Len(s), 160, 31) \o s

Negative(raw) == raw[1] >= 128

\* The number survives in its last bytes.
Fits(raw, width) ==
    /\ \A i \in 1..9 - width : raw[i] = IF Negative(raw) THEN 255 ELSE 0
    /\ Negative(raw) => raw[10 - width] >= 128

\* A client packs an integer in the shortest form: one byte for -32..127, a tag
\* and the fewest bytes else.  The server chooses the same form for a double
\* that is an integer of 64 bits.
encode_number(raw) ==
    LET width == Min({w \in {1, 2, 4, 8} : Fits(raw, w)})
        tag == TagOf(IF Negative(raw) THEN Sint ELSE Uint, width) IN
    IF width = 1 /\ raw[9] \in (IF Negative(raw) THEN 224..255 ELSE 0..127)
    THEN <<raw[9]>>
    ELSE <<tag>> \o SubSeq(raw, 10 - width, 9)

(***************************************************************************)
(* Decoder                                                                 *)
(***************************************************************************)

\* What a reader has read, and what is left in its buffer; or nothing.
Read(value, rest) == [value |-> value, rest |-> rest]

NULL == Read([is |-> "NULL"], <<>>)

\* mr_read: the next n bytes, if there are that many.
Short(buf, n) == n > Len(buf)

mr_read(buf, n) == SubSeq(buf, 1, n)

Beyond(buf, n) == SubSeq(buf, n + 1, Len(buf))

\* A C string ends at its first NUL.
CString(chars) ==
    LET ends == {i \in DOMAIN chars : chars[i] = 0} IN
    IF ends = {} THEN chars ELSE SubSeq(chars, 1, Min(ends) - 1)

\* Fault: the length of a string is trusted.
DecodeStrUnchecked(buf, n) ==
    Read(String(CString(SubSeq(buf, 1, Min({n, Len(buf)})))),
         SubSeq(buf, n + 1, Len(buf)))

decode_str(buf, n) ==
    IF Short(buf, n) THEN NULL
                     ELSE Read(String(CString(mr_read(buf, n))), Beyond(buf, n))

\* A length in so many bytes, and the string.
decode_long_str(buf, width) ==
    IF Short(buf, width) THEN NULL
                         ELSE decode_str(Beyond(buf, width), Length(mr_read(buf, width)))

\* A number becomes a double, which has 53 binary digits.  How many more the
\* number has: `High` is what it has beyond 48.
High(raw) ==
    LET high == 256 * raw[2] + raw[3] IN
    IF Negative(raw) THEN 65535 - high ELSE high

Unit(raw) == Min({unit \in {2^k : k \in 0..11} : High(raw) < 32 * unit})

\* They are in its last two bytes: rounded to the nearest, of two to the even
\* one, perhaps to 65536.
Low(raw) == 256 * raw[8] + raw[9]

Round(low, unit) ==
    LET below == low \div unit
        over  == 2 * (low % unit) IN
    unit * (IF over > unit \/ (over = unit /\ below % 2 = 1) THEN below + 1 ELSE below)

Rounded(raw) == Round(Low(raw), Unit(raw))

Double(raw) ==
    [i \in 1..9 |->
        CASE i = 9 -> Rounded(raw) % 256
          [] i = 8 -> (Rounded(raw) \div 256) % 256
          [] i < 8 -> IF Rounded(raw) = 65536 /\ \A j \in i + 1..7 : raw[j] = 255
                      THEN (raw[i] + 1) % 256 ELSE raw[i]]

CreateNumber(raw) == Whole(Double(raw))

\* The bytes of a number, widened to nine.
Unsigned(bytes) == [i \in 1..9 - Len(bytes) |-> 0] \o bytes

Signed(bytes) ==
    [i \in 1..9 - Len(bytes) |-> IF bytes[1] >= 128 THEN 255 ELSE 0] \o bytes

decode_unsigned(buf, n) ==
    IF Short(buf, n) THEN NULL
                     ELSE Read(CreateNumber(Unsigned(mr_read(buf, n))), Beyond(buf, n))

decode_signed(buf, n) ==
    IF Short(buf, n) THEN NULL
                     ELSE Read(CreateNumber(Signed(mr_read(buf, n))), Beyond(buf, n))

decode_float(buf, n) ==
    IF Short(buf, n) THEN NULL ELSE Read(Float(mr_read(buf, n)), Beyond(buf, n))

\* What follows a tag.
Scalar(tag, buf) ==
    CASE tag = 192 -> Read(Nil, buf)
      [] tag = 194 -> Read(False, buf)
      [] tag = 195 -> Read(True, buf)
      [] tag \in 0..127 -> Read(CreateNumber(Unsigned(<<tag>>)), buf)
      [] tag \in 224..255 -> Read(CreateNumber(Signed(<<tag>>)), buf)
      [] tag \in 160..191 -> decode_str(buf, tag - 160)
      [] tag \in DOMAIN Bin -> decode_long_str(buf, Bin[tag])
      [] tag \in DOMAIN Str -> decode_long_str(buf, Str[tag])
      [] tag \in DOMAIN Uint -> decode_unsigned(buf, Uint[tag])
      [] tag \in DOMAIN Sint -> decode_signed(buf, Sint[tag])
      [] tag \in DOMAIN Floating -> decode_float(buf, Floating[tag])
      [] OTHER -> NULL

\* decode_value, of a value that holds no others.
decode_scalar(buf) ==
    IF Short(buf, 1) THEN NULL ELSE Scalar(buf[1], Beyond(buf, 1))
=============================================================================
