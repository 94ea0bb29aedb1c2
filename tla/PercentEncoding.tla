--------------------------- MODULE PercentEncoding --------------------------
(***************************************************************************)
(* percent_decode and percent_encode (src/percent_encoding.cpp).  A string *)
(* is a sequence of bytes.  What may be missing (std::optional) is a set   *)
(* of at most one element.                                                 *)
(***************************************************************************)
EXTENDS Integers, SequencesExt

Byte == 0 .. 255

Percent == 37

Digits  == 48 .. 57
Upper   == 65 .. 90
Lower   == 97 .. 122

IsUnreserved(c) == c \in Digits \cup Upper \cup Lower \cup {45, 46, 95, 126}

IsHex(c) == c \in Digits \cup 65 .. 70 \cup 97 .. 102

\* std::stoi of one digit
HexValue(c) == IF c \in Digits THEN c - 48 ELSE (c % 32) + 9

HexDigit(n) == IF n < 10 THEN n + 48 ELSE n + 55

\* The "%" at position i begins an escape.
Escape(s, i) == i + 2 <= Len(s) /\ IsHex(s[i + 1]) /\ IsHex(s[i + 2])

Escaped(s, i) == 16 * HexValue(s[i + 1]) + HexValue(s[i + 2])

DecodeReadsOn(s) ==
    LET from[i \in 1 .. Len(s) + 1] ==
            IF i > Len(s) THEN {<< >>}
            ELSE IF s[i] # Percent THEN {<<s[i]>> \o rest : rest \in from[i + 1]}
            ELSE IF Escape(s, i) THEN {<<Escaped(s, i)>> \o rest : rest \in from[i + 1]}
            ELSE {}
    IN  from[1]

\* What the loop of percent_decode appends from position i on.
Decode(s) ==
    LET from[i \in 1 .. Len(s) + 1] ==
            IF i > Len(s) THEN {<< >>}
            ELSE IF s[i] # Percent THEN {<<s[i]>> \o rest : rest \in from[i + 1]}
            ELSE IF Escape(s, i) THEN {<<Escaped(s, i)>> \o rest : rest \in from[i + 3]}
            ELSE {}
    IN  from[1]

EncodedByte(c) ==
    IF IsUnreserved(c) THEN <<c>>
    ELSE <<Percent, HexDigit(c \div 16), HexDigit(c % 16)>>

Encode(s) == FlattenSeq([i \in DOMAIN s |-> EncodedByte(s[i])])

-----------------------------------------------------------------------------
(* The reference.                                                          *)

Percents(s) == {i \in DOMAIN s : s[i] = Percent}

\* The positions that an escape before them has taken.
Taken(s) == {i \in DOMAIN s : {i - 1, i - 2} \cap Percents(s) # {}}

\* What the text says at position i.
ByteAt(s, i) == IF s[i] = Percent THEN Escaped(s, i) ELSE s[i]

\* Every "%" begins an escape; each byte that no escape has taken stands for
\* itself, or for what its escape says, in the order of the text.
Says(s, out) ==
    LET left == DOMAIN s \ Taken(s)
        place(i) == Cardinality({j \in left : j <= i})
    IN  /\ \A i \in Percents(s) : Escape(s, i)
        /\ Len(out) = Cardinality(left)
        /\ \A i \in left : out[place(i)] = ByteAt(s, i)

=============================================================================
