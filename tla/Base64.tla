------------------------------- MODULE Base64 -------------------------------
(***************************************************************************)
(* Base64 as src/src/b64.c reads it and as the clients write it.           *)
(***************************************************************************)
EXTENDS Integers, Sequences

\* DTAB: -2 for padding, -1 for what is skipped.
DTAB(char) ==
    CASE char \in 65..90 -> char - 65
      [] char \in 97..122 -> char - 71
      [] char \in 48..57 -> char + 4
      [] char = 43 -> 62
      [] char = 47 -> 63
      [] char = 61 -> -2
      [] OTHER -> -1

\* Fault: a byte that is just complete waits for the next character.
Collect6Late(s, v) ==
    LET acc == s.acc * 64 + v
        bits == s.bits + 6 IN
    IF bits > 8
    THEN [s EXCEPT !.acc = acc % 2^(bits - 8), !.bits = bits - 8,
                   !.out = Append(@, (acc \div 2^(bits - 8)) % 256)]
    ELSE [s EXCEPT !.acc = acc, !.bits = bits]

\* Six bits more.  The bits of acc above the `bits` that are still to be
\* written are never looked at again, so they are dropped here.
Collect6(s, v) ==
    LET acc == s.acc * 64 + v
        bits == s.bits + 6 IN
    IF bits >= 8
    THEN [s EXCEPT !.acc = acc % 2^(bits - 8), !.bits = bits - 8,
                   !.out = Append(@, acc \div 2^(bits - 8))]
    ELSE [s EXCEPT !.acc = acc, !.bits = bits]

\* One turn of the loop: padding ends it, other characters are skipped.
ReadChar(s, char) ==
    CASE s.ended \/ DTAB(char) = -1 -> s
      [] ~s.ended /\ DTAB(char) = -2 -> [s EXCEPT !.ended = TRUE]
      [] OTHER -> Collect6(s, DTAB(char))

Unread == [acc |-> 0, bits |-> 0, out |-> <<>>, ended |-> FALSE]

b64_decode(src) ==
    LET read[k \in 0..Len(src)] ==
            IF k = 0 THEN Unread ELSE ReadChar(read[k - 1], src[k]) IN
    read[Len(src)].out

\* The bytes that b64_decode allocates for its result.
max_out(src) == (Len(src) \div 4) * 3 + 4

(***************************************************************************)
(* Reference: RFC 4648, by bits                                            *)
(***************************************************************************)

Bit(bytes, i) ==
    IF i >= 8 * Len(bytes) THEN 0
    ELSE (bytes[i \div 8 + 1] \div 2^(7 - (i % 8))) % 2

Digit(bytes, k) ==
    LET bit(i) == Bit(bytes, 6 * k + i) IN
    32 * bit(0) + 16 * bit(1) + 8 * bit(2) + 4 * bit(3) + 2 * bit(4) + bit(5)

Letter(v) == CHOOSE char \in 0..127 : DTAB(char) = v

Letters(bytes) ==
    [k \in 1..(8 * Len(bytes) + 5) \div 6 |-> Letter(Digit(bytes, k - 1))]

Padding(bytes) == [i \in 1..(3 - (Len(bytes) % 3)) % 3 |-> 61]
=============================================================================
