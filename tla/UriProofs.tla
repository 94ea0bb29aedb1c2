------------------------------ MODULE UriProofs -----------------------------
(***************************************************************************)
(* What percent_decode, URI::parse and URI::match compute, for all texts   *)
(* and all paths.                                                          *)
(*                                                                         *)
(* A loop of the code is a recursive function of the model.  What it       *)
(* computes is proved by induction on its argument (module LoopLemmas).    *)
(***************************************************************************)
EXTENDS Uri, LoopLemmas

-----------------------------------------------------------------------------
(* percent_decode.                                                         *)

\* Two hex digits are a byte.
LEMMA EscapedIsByte ==
    ASSUME NEW s \in Seq(Byte), NEW i \in Nat, i # 0, Escape(s, i)
    PROVE  /\ Escaped(s, i) \in Byte
           /\ i + 2 \in 1 .. Len(s) /\ s[i + 1] # Percent /\ s[i + 2] # Percent
<1>1. i + 1 \in 1 .. Len(s) /\ i + 2 \in 1 .. Len(s)
    BY LenProperties DEF Escape
<1>2. s[i + 1] \in Byte /\ s[i + 2] \in Byte
    BY <1>1, ElementOfSeq
<1>3. \A c \in Byte : IsHex(c) => HexValue(c) \in 0 .. 15 /\ c # Percent
    BY DEF Byte, IsHex, HexValue, Digits, Percent
<1>4. /\ HexValue(s[i + 1]) \in 0 .. 15 /\ HexValue(s[i + 2]) \in 0 .. 15
      /\ s[i + 1] # Percent /\ s[i + 2] # Percent
    BY <1>2, <1>3 DEF Escape
<1>5. \A x, y \in 0 .. 15 : 16 * x + y \in Byte
    BY DEF Byte
<1>6. QED
    BY <1>1, <1>4, <1>5 DEF Escaped

\* from says what the loop appends from each position of s on.
DecodesBy(s, from) ==
    from = [i \in 1 .. Len(s) + 1 |->
                IF i > Len(s) THEN {<< >>}
                ELSE IF s[i] # Percent THEN {<<s[i]>> \o rest : rest \in from[i + 1]}
                ELSE IF Escape(s, i) THEN {<<Escaped(s, i)>> \o rest : rest \in from[i + 3]}
                ELSE {}]

\* A byte and then one of outs.
Prefixed(c, outs) == {<<c>> \o rest : rest \in outs}

\* What the loop of percent_decode may do at a position: end, copy a byte,
\* take an escape for a byte, or fail.
LEMMA DecodeStep ==
    ASSUME NEW s \in Seq(Byte), NEW from, DecodesBy(s, from), NEW i \in 1 .. Len(s) + 1
    PROVE  \/ i = Len(s) + 1 /\ from[i] = {<< >>}
           \/ /\ i \in 1 .. Len(s) /\ i + 1 \in i + 1 .. Len(s) + 1 /\ s[i] \in Byte
              /\ s[i] # Percent /\ from[i] = Prefixed(s[i], from[i + 1])
           \/ /\ i \in 1 .. Len(s) /\ i + 3 \in i + 1 .. Len(s) + 1 /\ Escaped(s, i) \in Byte
              /\ s[i] = Percent /\ Escape(s, i)
              /\ from[i] = Prefixed(Escaped(s, i), from[i + 3])
           \/ i \in 1 .. Len(s) /\ s[i] = Percent /\ ~Escape(s, i) /\ from[i] = {}
<1>1. Len(s) \in Nat /\ i \in Nat /\ i # 0
    BY LenProperties
<1>2. from[i] = IF i > Len(s) THEN {<< >>}
                ELSE IF s[i] # Percent THEN Prefixed(s[i], from[i + 1])
                ELSE IF Escape(s, i) THEN Prefixed(Escaped(s, i), from[i + 3])
                ELSE {}
    BY DEF DecodesBy, Prefixed
<1>3. CASE i > Len(s)
    BY <1>1, <1>2, <1>3
<1>4. CASE ~(i > Len(s))
    <2>1. i \in 1 .. Len(s) /\ i + 1 \in i + 1 .. Len(s) + 1
        BY <1>1, <1>4
    <2>2. s[i] \in Byte
        BY <2>1, ElementOfSeq
    <2>3. ASSUME Escape(s, i)
          PROVE  Escaped(s, i) \in Byte /\ i + 3 \in i + 1 .. Len(s) + 1
        <3>1. Escaped(s, i) \in Byte /\ i + 2 \in 1 .. Len(s)
            BY <1>1, <2>3, EscapedIsByte
        <3>2. QED
            BY <1>1, <3>1
    <2>4. QED
        BY <1>2, <1>4, <2>1, <2>2, <2>3
<1>5. QED
    BY <1>3, <1>4

\* The loop over the bytes, from position i on.
LEMMA DecodeLoop ==
    ASSUME NEW s \in Seq(Byte)
    PROVE  \E from : DecodesBy(s, from) /\ Decode(s) = from[1]
<1> DEFINE D == 1 .. Len(s) + 1
           T == SUBSET Seq(Byte)
           step(g, i) ==
                IF i > Len(s) THEN {<< >>}
                ELSE IF s[i] # Percent THEN {<<s[i]>> \o rest : rest \in g[i + 1]}
                ELSE IF Escape(s, i) THEN {<<Escaped(s, i)>> \o rest : rest \in g[i + 3]}
                ELSE {}
           rank == [i \in D |-> Len(s) + 1 - i]
           rule == [i \in D |-> [g \in [D -> T] |-> step(g, i)]]
<1>1. Len(s) \in Nat /\ \A i \in 1 .. Len(s) : s[i] \in Byte
    BY ElementOfSeq, LenProperties
<1>2. \A b \in Byte, outs \in T : {<<b>> \o rest : rest \in outs} \in T
    <2>1. ASSUME NEW b \in Byte, NEW rest \in Seq(Byte)
          PROVE  <<b>> \o rest \in Seq(Byte)
        <3>1. <<b>> \in Seq(Byte)
            OBVIOUS
        <3>2. QED
            BY <3>1, ConcatProperties
    <2>2. QED
        BY <2>1
<1>3. ASSUME NEW i \in D, NEW g \in [D -> T]
      PROVE  step(g, i) \in T
    <2>1. CASE i > Len(s)
        BY <2>1, EmptySeq
    <2>2. CASE ~(i > Len(s)) /\ s[i] # Percent
        <3>1. i + 1 \in D /\ s[i] \in Byte
            BY <1>1, <2>2
        <3>2. g[i + 1] \in T
            BY <3>1
        <3>3. step(g, i) = {<<s[i]>> \o rest : rest \in g[i + 1]}
            BY <2>2
        <3> HIDE DEF step, D, T
        <3>4. QED
            BY <1>2, <3>1, <3>2, <3>3
    <2>3. CASE ~(i > Len(s)) /\ s[i] = Percent /\ Escape(s, i)
        <3>1. i + 3 \in D /\ Escaped(s, i) \in Byte
            BY <1>1, <2>3, EscapedIsByte
        <3>2. g[i + 3] \in T
            BY <3>1
        <3>3. step(g, i) = {<<Escaped(s, i)>> \o rest : rest \in g[i + 3]}
            BY <2>3
        <3> HIDE DEF step, D, T
        <3>4. QED
            BY <1>2, <3>1, <3>2, <3>3
    <2>4. CASE ~(i > Len(s)) /\ s[i] = Percent /\ ~Escape(s, i)
        BY <2>4
    <2>5. QED
        BY <2>1, <2>2, <2>3, <2>4
<1>4. ASSUME NEW i \in D, NEW g \in [D -> T], NEW h \in [D -> T],
             \A k \in D : rank[k] < rank[i] => g[k] = h[k]
      PROVE  step(g, i) = step(h, i)
    <2>1. CASE i > Len(s)
        BY <2>1
    <2>2. CASE ~(i > Len(s)) /\ s[i] # Percent
        <3>1. i + 1 \in D /\ rank[i + 1] < rank[i]
            BY <1>1, <2>2
        <3>2. g[i + 1] = h[i + 1]
            BY <1>4, <3>1
        <3>3. QED
            BY <1>1, <2>2, <3>2
    <2>3. CASE ~(i > Len(s)) /\ s[i] = Percent /\ Escape(s, i)
        <3>1. i + 3 \in D /\ rank[i + 3] < rank[i]
            BY <1>1, <2>3, EscapedIsByte
        <3>2. g[i + 3] = h[i + 3]
            BY <1>4, <3>1
        <3>3. QED
            BY <1>1, <2>3, <3>2
    <2>4. CASE ~(i > Len(s)) /\ s[i] = Percent /\ ~Escape(s, i)
        BY <2>4
    <2>5. QED
        BY <2>1, <2>2, <2>3, <2>4
<1>5. /\ rank \in [D -> Nat] /\ \A i \in D : rank[i] < Len(s) + 1
      /\ \A i \in D, g \in [D -> T] : rule[i][g] = step(g, i)
      /\ T # {} /\ Len(s) + 1 \in Nat
    BY <1>1
<1>6. rule \in [D -> [[D -> T] -> T]]
    <2> HIDE DEF step, D, T
    <2>1. QED
        BY <1>3
<1> HIDE DEF rank, rule, step, D, T
<1>7. PICK f \in [D -> T] : \A i \in D : f[i] = rule[i][f]
    <2>1. ASSUME NEW i \in D, NEW g \in [D -> T], NEW h \in [D -> T],
                 \A k \in D : rank[k] < rank[i] => g[k] = h[k]
          PROVE  rule[i][g] = rule[i][h]
        <3>1. step(g, i) = step(h, i)
            BY <1>4, <2>1
        <3>2. QED
            BY <1>5, <3>1
    <2>2. Descends(D, T, rank, Len(s) + 1, rule)
        BY <1>5, <1>6, <2>1 DEF Descends
    <2>3. QED
        BY <2>2, RecursionDefines
<1>8. f = [i \in D |-> step(f, i)]
    BY <1>5, <1>7
<1> DEFINE from == CHOOSE g : g = [i \in D |-> step(g, i)]
<1>9. from = [i \in D |-> step(from, i)]
    BY <1>8
<1>10. Decode(s) = from[1]
    BY DEF Decode, D, step
<1>11. DecodesBy(s, from)
    BY <1>9 DEF DecodesBy, D, step
<1>12. QED
    BY <1>10, <1>11

\* What the text says from position i on, as Says does of the whole of it.
PercentsFrom(s, i) == {j \in i .. Len(s) : s[j] = Percent}

\* The bytes that are not inside an escape.
LeftFrom(s, i) == {k \in i .. Len(s) : {k - 1, k - 2} \cap PercentsFrom(s, i) = {}}

\* Which of them k is.
Place(left, k) == Cardinality({j \in left : j <= k})

\* out is what the text says from i on.
SaysFrom(s, i, out) ==
    /\ out \in Seq(Byte)
    /\ \A j \in PercentsFrom(s, i) : Escape(s, j)
    /\ Len(out) = Cardinality(LeftFrom(s, i))
    /\ \A k \in LeftFrom(s, i) : out[Place(LeftFrom(s, i), k)] = ByteAt(s, k)

\* A first position more moves the others by one place.
LEMMA PlacesMove ==
    ASSUME NEW n \in Nat, NEW i \in Nat, NEW left \in SUBSET (i + 1 .. n)
    PROVE  /\ Cardinality(left) \in Nat /\ Cardinality({i} \cup left) = Cardinality(left) + 1
           /\ Place({i} \cup left, i) = 1
           /\ \A k \in left :
                /\ Place(left, k) \in 1 .. Cardinality(left)
                /\ Place({i} \cup left, k) = Place(left, k) + 1
<1>1. \A S \in SUBSET left :
        /\ IsFiniteSet(S) /\ Cardinality(S) \in Nat /\ Cardinality(S) <= Cardinality(left)
        /\ Cardinality({i} \cup S) = Cardinality(S) + 1
    <2> SUFFICES ASSUME NEW S \in SUBSET left
                 PROVE  /\ IsFiniteSet(S) /\ Cardinality(S) \in Nat
                        /\ Cardinality(S) <= Cardinality(left)
                        /\ Cardinality({i} \cup S) = Cardinality(S) + 1
        OBVIOUS
    <2>1. IsFiniteSet(left)
        <3>1. IsFiniteSet(i + 1 .. n)
            BY FS_Interval
        <3>2. QED
            BY <3>1, FS_Subset
    <2>2. IsFiniteSet(S) /\ Cardinality(S) <= Cardinality(left)
        BY <2>1, FS_Subset
    <2>3. Cardinality(S) \in Nat
        BY <2>2, FS_CardinalityType
    <2>4. i \notin S /\ {i} \cup S = S \cup {i}
        OBVIOUS
    <2>5. QED
        BY <2>2, <2>3, <2>4, FS_AddElement
<1>2. {j \in {i} \cup left : j <= i} = {i}
    <2>1. ASSUME NEW j \in left
          PROVE  ~(j <= i)
        <3>1. j \in i + 1 .. n
            OBVIOUS
        <3>2. QED
            BY <3>1
    <2>2. i <= i
        OBVIOUS
    <2>3. QED
        BY <2>1, <2>2
<1>3. ASSUME NEW k \in left
      PROVE  /\ Place(left, k) \in 1 .. Cardinality(left)
             /\ Place({i} \cup left, k) = Place(left, k) + 1
    <2> DEFINE S == {j \in left : j <= k}
    <2>1. S \in SUBSET left /\ S # {} /\ {j \in {i} \cup left : j <= k} = {i} \cup S
        OBVIOUS
    <2> HIDE DEF S
    <2>2. Cardinality(S) # 0
        BY <1>1, <2>1, FS_EmptySet
    <2>3. Cardinality(S) \in Nat /\ Cardinality(left) \in Nat
        BY <1>1, <2>1
    <2>4. Cardinality(S) \in 1 .. Cardinality(left)
        <3>1. Cardinality(S) <= Cardinality(left)
            BY <1>1, <2>1
        <3>2. \A a, b \in Nat : a # 0 /\ a <= b => a \in 1 .. b
            OBVIOUS
        <3>3. QED
            BY <2>2, <2>3, <3>1, <3>2
    <2>5. QED
        BY <1>1, <2>1, <2>4 DEF Place, S
<1>4. Place({i} \cup left, i) = 1
    BY <1>2, FS_Singleton DEF Place
<1>5. QED
    BY <1>1, <1>3, <1>4

\* The loop goes on behind the byte, or the escape, at position i.
LEMMA SaysOneMore ==
    ASSUME NEW s \in Seq(Byte), NEW i \in 1 .. Len(s), NEW next \in i + 1 .. Len(s) + 1,
           LeftFrom(s, i) = {i} \cup LeftFrom(s, next),
           \A j \in PercentsFrom(s, i) : Escape(s, j), ByteAt(s, i) \in Byte,
           NEW rest, SaysFrom(s, next, rest)
    PROVE  SaysFrom(s, i, <<ByteAt(s, i)>> \o rest)
<1> DEFINE left == LeftFrom(s, next)
           out == <<ByteAt(s, i)>> \o rest
<1>1. /\ Len(s) \in Nat /\ i \in Nat /\ left \in SUBSET (i + 1 .. Len(s))
      /\ rest \in Seq(Byte) /\ Len(rest) = Cardinality(left)
      /\ \A k \in left : rest[Place(left, k)] = ByteAt(s, k)
    BY LenProperties DEF LeftFrom, SaysFrom
<1> HIDE DEF left
<1>2. /\ Cardinality(left) \in Nat /\ Cardinality({i} \cup left) = Cardinality(left) + 1
      /\ Place({i} \cup left, i) = 1
      /\ \A k \in left :
            /\ Place(left, k) \in 1 .. Cardinality(left)
            /\ Place({i} \cup left, k) = Place(left, k) + 1
    BY <1>1, PlacesMove
<1>3. /\ out \in Seq(Byte) /\ Len(out) = Len(rest) + 1 /\ out[1] = ByteAt(s, i)
      /\ \A k \in 1 .. Len(rest) : out[k + 1] = rest[k]
    <2> DEFINE one == <<ByteAt(s, i)>>
    <2>1. one \in Seq(Byte) /\ Len(one) = 1 /\ one[1] = ByteAt(s, i)
        OBVIOUS
    <2> HIDE DEF one
    <2>2. /\ one \o rest \in Seq(Byte) /\ Len(one \o rest) = 1 + Len(rest)
          /\ \A k \in 1 .. 1 + Len(rest) :
                (one \o rest)[k] = IF k <= 1 THEN one[k] ELSE rest[k - 1]
        <3>1. /\ one \o rest \in Seq(Byte) /\ Len(one \o rest) = Len(one) + Len(rest)
              /\ \A k \in 1 .. Len(one) + Len(rest) :
                    (one \o rest)[k] =
                        IF k <= Len(one) THEN one[k] ELSE rest[k - Len(one)]
            <4>1. rest \in Seq(Byte)
                BY <1>1
            <4> HIDE DEF out
            <4>2. QED
                BY <2>1, <4>1, ConcatProperties
        <3>2. Len(one) = 1
            BY <2>1
        <3>3. QED
            BY <3>1, <3>2
    <2>3. Len(rest) \in Nat
        BY <1>1, LenProperties
    <2>4. out = one \o rest
        BY DEF one
    <2> HIDE DEF out
    <2>5. \A k \in 1 .. Len(rest) :
            k + 1 \in 1 .. 1 + Len(rest) /\ ~(k + 1 <= 1) /\ (k + 1) - 1 = k
        BY <2>3
    <2>6. out[1] = ByteAt(s, i)
        BY <2>1, <2>2, <2>3, <2>4
    <2>7. QED
        BY <2>2, <2>3, <2>4, <2>5, <2>6
<1> HIDE DEF out
<1>4. \A k \in {i} \cup left : out[Place({i} \cup left, k)] = ByteAt(s, k)
    BY <1>1, <1>2, <1>3
<1>5. QED
    BY <1>1, <1>2, <1>3, <1>4 DEF SaysFrom, left, out

\* What is left behind a byte that begins no escape, and behind an escape.
LEMMA LeftBehind ==
    ASSUME NEW s \in Seq(Byte), NEW i \in 1 .. Len(s)
    PROVE  /\ s[i] # Percent =>
                /\ PercentsFrom(s, i) = PercentsFrom(s, i + 1)
                /\ LeftFrom(s, i) = {i} \cup LeftFrom(s, i + 1)
           /\ s[i] = Percent /\ Escape(s, i) =>
                /\ PercentsFrom(s, i) = {i} \cup PercentsFrom(s, i + 3)
                /\ LeftFrom(s, i) = {i} \cup LeftFrom(s, i + 3)
<1>1. Len(s) \in Nat /\ i \in Nat
    BY LenProperties
<1>2. ASSUME s[i] # Percent
      PROVE  /\ PercentsFrom(s, i) = PercentsFrom(s, i + 1)
             /\ LeftFrom(s, i) = {i} \cup LeftFrom(s, i + 1)
    <2>1. PercentsFrom(s, i) = PercentsFrom(s, i + 1)
        BY <1>1, <1>2 DEF PercentsFrom
    <2>2. \A j \in PercentsFrom(s, i + 1) : j \in Nat /\ j > i
        BY <1>1 DEF PercentsFrom
    <2> DEFINE P == PercentsFrom(s, i + 1)
    <2> HIDE DEF P
    <2>3. {i - 1, i - 2} \cap P = {}
        BY <1>1, <2>2 DEF P
    <2>4. {k \in i .. Len(s) : {k - 1, k - 2} \cap P = {}}
            = {i} \cup {k \in i + 1 .. Len(s) : {k - 1, k - 2} \cap P = {}}
        BY <1>1, <2>3
    <2>5. QED
        BY <2>1, <2>4 DEF LeftFrom, P
<1>3. ASSUME s[i] = Percent, Escape(s, i)
      PROVE  /\ PercentsFrom(s, i) = {i} \cup PercentsFrom(s, i + 3)
             /\ LeftFrom(s, i) = {i} \cup LeftFrom(s, i + 3)
    <2>1. i + 2 <= Len(s) /\ s[i + 1] # Percent /\ s[i + 2] # Percent
        BY <1>1, <1>3, EscapedIsByte
    <2>2. PercentsFrom(s, i) = {i} \cup PercentsFrom(s, i + 3)
        <3>1. ASSUME NEW j \in i .. Len(s), s[j] = Percent
              PROVE  j = i \/ j \in i + 3 .. Len(s)
            <4>1. j # i + 1 /\ j # i + 2
                BY <2>1, <3>1
            <4>2. QED
                BY <1>1, <4>1
        <3>2. QED
            BY <1>1, <1>3, <2>1, <3>1 DEF PercentsFrom
    <2>3. \A j \in PercentsFrom(s, i + 3) : j \in Nat /\ j > i + 2
        BY <1>1 DEF PercentsFrom
    <2> DEFINE P == PercentsFrom(s, i + 3)
    <2> HIDE DEF P
    <2>4. ASSUME NEW k \in i .. Len(s)
          PROVE  {k - 1, k - 2} \cap ({i} \cup P) = {}
                    <=> k = i \/ (k \in i + 3 .. Len(s) /\ {k - 1, k - 2} \cap P = {})
        <3>1. CASE k = i
            <4>1. k - 1 \notin P /\ k - 2 \notin P
                BY <1>1, <2>3, <3>1 DEF P
            <4>2. k - 1 # i /\ k - 2 # i
                BY <1>1, <3>1
            <4>3. QED
                BY <3>1, <4>1, <4>2
        <3>2. CASE k = i + 1 \/ k = i + 2
            <4>1. k - 1 = i \/ k - 2 = i
                BY <1>1, <3>2
            <4>2. k # i /\ ~(k \in i + 3 .. Len(s))
                BY <1>1, <3>2
            <4>3. QED
                BY <4>1, <4>2
        <3>3. CASE k \in i + 3 .. Len(s)
            <4>1. k - 1 # i /\ k - 2 # i
                BY <1>1, <3>3
            <4>2. QED
                BY <3>3, <4>1
        <3>4. k = i \/ k = i + 1 \/ k = i + 2 \/ k \in i + 3 .. Len(s)
            BY <1>1
        <3>5. QED
            BY <3>1, <3>2, <3>3, <3>4
    <2>5. {k \in i .. Len(s) : {k - 1, k - 2} \cap ({i} \cup P) = {}}
            = {i} \cup {k \in i + 3 .. Len(s) : {k - 1, k - 2} \cap P = {}}
        <3>1. \A k \in i + 3 .. Len(s) : k \in i .. Len(s)
            BY <1>1
        <3>2. i \in i .. Len(s)
            BY <1>1
        <3>3. QED
            BY <2>4, <3>1, <3>2
    <2>6. QED
        BY <2>2, <2>5 DEF LeftFrom, P
<1>4. QED
    BY <1>2, <1>3

\* What the loop appends from position i on is what the text says from there
\* on; and it appends nothing only where the text says nothing.
ReadsFrom(s, i, outs) ==
    /\ \A out \in outs : SaysFrom(s, i, out)
    /\ outs = {} => \E j \in PercentsFrom(s, i) : ~Escape(s, j)

\* One step of the loop reads what the text says, when the rest of it does.
LEMMA ReadsBehind ==
    ASSUME NEW s \in Seq(Byte), NEW i \in 1 .. Len(s), NEW outs, NEW rests,
           \/ /\ s[i] # Percent /\ ReadsFrom(s, i + 1, rests)
              /\ outs = Prefixed(s[i], rests)
           \/ /\ s[i] = Percent /\ Escape(s, i) /\ ReadsFrom(s, i + 3, rests)
              /\ outs = Prefixed(Escaped(s, i), rests)
    PROVE  ReadsFrom(s, i, outs)
<1>1. Len(s) \in Nat /\ i \in Nat /\ i # 0 /\ s[i] \in Byte
    BY ElementOfSeq, LenProperties
<1>2. PICK next \in i + 1 .. Len(s) + 1 :
        /\ ReadsFrom(s, next, rests)
        /\ outs = Prefixed(ByteAt(s, i), rests)
        /\ LeftFrom(s, i) = {i} \cup LeftFrom(s, next) /\ ByteAt(s, i) \in Byte
        /\ PercentsFrom(s, next) \subseteq PercentsFrom(s, i)
        /\ (\A j \in PercentsFrom(s, next) : Escape(s, j)) =>
                \A j \in PercentsFrom(s, i) : Escape(s, j)
    <2>1. CASE s[i] # Percent
        <3>1. i + 1 \in i + 1 .. Len(s) + 1
            BY <1>1
        <3>2. /\ ReadsFrom(s, i + 1, rests)
              /\ outs = Prefixed(ByteAt(s, i), rests)
            BY <2>1 DEF ByteAt
        <3>3. QED
            BY <1>1, <2>1, <3>1, <3>2, LeftBehind DEF ByteAt
    <2>2. CASE s[i] = Percent
        <3>1. Escape(s, i) /\ Escaped(s, i) \in Byte /\ i + 3 \in i + 1 .. Len(s) + 1
            <4>1. Escape(s, i)
                BY <2>2
            <4>2. Escaped(s, i) \in Byte /\ i + 2 \in 1 .. Len(s)
                BY <1>1, <4>1, EscapedIsByte
            <4>3. QED
                BY <1>1, <4>1, <4>2
        <3>2. /\ ReadsFrom(s, i + 3, rests)
              /\ outs = Prefixed(ByteAt(s, i), rests)
            BY <2>2 DEF ByteAt
        <3>3. QED
            BY <1>1, <2>2, <3>1, <3>2, LeftBehind DEF ByteAt
    <2>3. QED
        BY <2>1, <2>2
<1>3. ASSUME NEW rest \in rests
      PROVE  SaysFrom(s, i, <<ByteAt(s, i)>> \o rest)
    <2>1. SaysFrom(s, next, rest)
        BY <1>2 DEF ReadsFrom
    <2>2. \A j \in PercentsFrom(s, i) : Escape(s, j)
        BY <1>2, <2>1 DEF SaysFrom
    <2>3. QED
        BY <1>2, <2>1, <2>2, SaysOneMore
<1>4. ASSUME outs = {}
      PROVE  \E j \in PercentsFrom(s, i) : ~Escape(s, j)
    <2>1. rests = {}
        BY <1>2, <1>4 DEF Prefixed
    <2>2. QED
        BY <1>2, <2>1 DEF ReadsFrom
<1>5. QED
    BY <1>2, <1>3, <1>4 DEF ReadsFrom, Prefixed

\* percent_decode gives what the whole text says, and refuses only a text with a
\* "%" that begins no escape (lines 15-33 of percent_encoding.cpp).
THEOREM DecodeSays ==
    ASSUME NEW s \in Seq(Byte)
    PROVE  /\ \A out \in Decode(s) : out \in Seq(Byte) /\ Says(s, out)
           /\ Decode(s) = {} => \E i \in Percents(s) : ~Escape(s, i)
<1>1. Len(s) \in Nat /\ DOMAIN s = 1 .. Len(s)
    BY LenProperties
<1>2. PICK from : DecodesBy(s, from) /\ Decode(s) = from[1]
    BY DecodeLoop
<1> DEFINE read == {i \in 1 .. Len(s) + 1 : ReadsFrom(s, i, from[i])}
<1>3. ASSUME from[Len(s) + 1] = {<< >>}
      PROVE  ReadsFrom(s, Len(s) + 1, from[Len(s) + 1])
    <2> DEFINE e == Len(s) + 1
    <2>1. PercentsFrom(s, e) = {} /\ LeftFrom(s, e) = {}
        BY <1>1 DEF PercentsFrom, LeftFrom
    <2> HIDE DEF e
    <2>2. << >> \in Seq(Byte) /\ Len(<< >>) = Cardinality({})
        BY EmptySeq, FS_EmptySet
    <2>3. SaysFrom(s, e, << >>)
        BY <2>1, <2>2 DEF SaysFrom
    <2>4. QED
        BY <1>3, <2>3 DEF ReadsFrom, e
<1>4. ASSUME NEW i \in 1 .. Len(s) + 1, \A k \in i + 1 .. Len(s) + 1 : k \in read
      PROVE  ReadsFrom(s, i, from[i])
    <2>1. CASE i = Len(s) + 1 /\ from[i] = {<< >>}
        BY <1>3, <2>1
    <2>2. CASE /\ i \in 1 .. Len(s) /\ i + 1 \in i + 1 .. Len(s) + 1
               /\ s[i] # Percent /\ from[i] = Prefixed(s[i], from[i + 1])
        <3>1. ReadsFrom(s, i + 1, from[i + 1])
            BY <1>4, <2>2
        <3> HIDE DEF read
        <3>2. QED
            BY <2>2, <3>1, ReadsBehind
    <2>3. CASE /\ i \in 1 .. Len(s) /\ i + 3 \in i + 1 .. Len(s) + 1
               /\ s[i] = Percent /\ Escape(s, i)
               /\ from[i] = Prefixed(Escaped(s, i), from[i + 3])
        <3>1. ReadsFrom(s, i + 3, from[i + 3])
            BY <1>4, <2>3
        <3> HIDE DEF read
        <3>2. QED
            BY <2>3, <3>1, ReadsBehind
    <2>4. CASE i \in 1 .. Len(s) /\ s[i] = Percent /\ ~Escape(s, i) /\ from[i] = {}
        <3>1. i \in PercentsFrom(s, i)
            BY <1>1, <2>4 DEF PercentsFrom
        <3>2. QED
            BY <2>4, <3>1 DEF ReadsFrom
    <2> HIDE DEF read
    <2>5. QED
        BY <1>2, <2>1, <2>2, <2>3, <2>4, DecodeStep
<1>5. \A i \in 1 .. Len(s) + 1 : i \in read
    <2>1. Len(s) + 1 \in Nat
        BY <1>1
    <2>2. \A i \in 1 .. Len(s) + 1 : (\A k \in i + 1 .. Len(s) + 1 : k \in read) => i \in read
        BY <1>4
    <2> HIDE DEF read
    <2>3. QED
        BY <2>1, <2>2, DownwardInduction
<1>6. ReadsFrom(s, 1, Decode(s))
    <2>1. 1 \in 1 .. Len(s) + 1
        BY <1>1
    <2>2. QED
        BY <1>2, <1>5, <2>1
<1>7. PercentsFrom(s, 1) = Percents(s) /\ LeftFrom(s, 1) = DOMAIN s \ Taken(s)
    BY <1>1 DEF PercentsFrom, LeftFrom, Percents, Taken
<1>8. ASSUME NEW out \in Decode(s)
      PROVE  out \in Seq(Byte) /\ Says(s, out)
    <2>1. SaysFrom(s, 1, out)
        BY <1>6 DEF ReadsFrom
    <2>2. QED
        BY <1>7, <2>1 DEF SaysFrom, Says, Place
<1>9. QED
    BY <1>6, <1>7, <1>8 DEF ReadsFrom

-----------------------------------------------------------------------------
(* percent_encode.                                                         *)

\* What is left to read in a text behind another one is what the text is read
\* as alone.
LEMMA DecodeBehind ==
    ASSUME NEW u \in Seq(Byte), NEW v \in Seq(Byte),
           NEW fv, DecodesBy(v, fv), NEW fw, DecodesBy(u \o v, fw)
    PROVE  fw[Len(u) + 1] = fv[1]
<1> DEFINE w == u \o v
           n == Len(u)
           m == Len(v)
<1>1. /\ n \in Nat /\ m \in Nat /\ Len(w) = n + m /\ w \in Seq(Byte) /\ DecodesBy(w, fw)
      /\ \A j \in 1 .. m : w[n + j] = v[j]
    <2>1. n \in Nat /\ m \in Nat
        BY LenProperties
    <2>2. /\ Len(w) = n + m /\ w \in Seq(Byte) /\ DecodesBy(w, fw)
          /\ \A j \in 1 .. n + m : w[j] = IF j <= n THEN u[j] ELSE v[j - n]
        BY ConcatProperties
    <2> HIDE DEF n, m, w
    <2>3. \A j \in 1 .. m : n + j \in 1 .. n + m /\ ~(n + j <= n) /\ (n + j) - n = j
        BY <2>1
    <2>4. QED
        BY <2>1, <2>2, <2>3
<1> HIDE DEF n, w
<1>2. ASSUME NEW i \in 1 .. m
      PROVE  /\ Escape(w, n + i) <=> Escape(v, i)
             /\ Escape(v, i) => Escaped(w, n + i) = Escaped(v, i)
    <2>1. CASE i + 2 <= m
        <3>1. w[(n + i) + 1] = v[i + 1] /\ w[(n + i) + 2] = v[i + 2]
            <4>1. i + 1 \in 1 .. m /\ i + 2 \in 1 .. m
                BY <1>1, <2>1
            <4>2. w[n + (i + 1)] = v[i + 1] /\ w[n + (i + 2)] = v[i + 2]
                BY <1>1, <4>1
            <4> HIDE DEF m
            <4>3. n + (i + 1) = (n + i) + 1 /\ n + (i + 2) = (n + i) + 2
                BY <1>1
            <4>4. QED
                BY <4>2, <4>3
        <3>2. (n + i) + 2 <= Len(w)
            BY <1>1, <2>1
        <3>3. Escaped(w, n + i) = Escaped(v, i)
            BY <3>1 DEF Escaped
        <3>4. Escape(w, n + i) <=> Escape(v, i)
            BY <2>1, <3>1, <3>2 DEF Escape
        <3>5. QED
            BY <3>3, <3>4
    <2>2. CASE ~(i + 2 <= m)
        <3>1. ~((n + i) + 2 <= Len(w))
            BY <1>1, <2>2
        <3>2. QED
            BY <2>2, <3>1 DEF Escape
    <2>3. QED
        BY <2>1, <2>2
<1> DEFINE same == {i \in 1 .. m + 1 : fw[n + i] = fv[i]}
<1>3. ASSUME NEW i \in 1 .. m + 1, \A k \in i + 1 .. m + 1 : fw[n + k] = fv[k]
      PROVE  fw[n + i] = fv[i]
    <2>1. n + i \in 1 .. Len(w) + 1
        BY <1>1
    <2>2. CASE i = m + 1 /\ fv[i] = {<< >>}
        <3>1. n + i = Len(w) + 1 /\ ~(n + i \in 1 .. Len(w))
            BY <1>1, <2>2
        <3>2. fw[n + i] = {<< >>}
            BY <1>1, <2>1, <3>1, DecodeStep
        <3>3. QED
            BY <2>2, <3>2
    <2>3. ASSUME i \in 1 .. m
          PROVE  /\ w[n + i] = v[i] /\ n + i # Len(w) + 1
                 /\ (n + i) + 1 = n + (i + 1) /\ (n + i) + 3 = n + (i + 3)
        BY <1>1, <2>3
    <2>4. CASE /\ i \in 1 .. m /\ i + 1 \in i + 1 .. m + 1
               /\ v[i] # Percent /\ fv[i] = Prefixed(v[i], fv[i + 1])
        <3>1. fw[n + i] = Prefixed(w[n + i], fw[(n + i) + 1])
            <4>1. w[n + i] # Percent /\ n + i # Len(w) + 1
                BY <2>3, <2>4
            <4>2. w \in Seq(Byte) /\ DecodesBy(w, fw)
                BY <1>1
            <4>3. QED
                BY <2>1, <4>1, <4>2, DecodeStep
        <3>2. fw[n + (i + 1)] = fv[i + 1]
            BY <1>3, <2>4
        <3>3. QED
            BY <2>3, <2>4, <3>1, <3>2
    <2>5. CASE /\ i \in 1 .. m /\ i + 3 \in i + 1 .. m + 1
               /\ v[i] = Percent /\ Escape(v, i)
               /\ fv[i] = Prefixed(Escaped(v, i), fv[i + 3])
        <3>1. fw[n + i] = Prefixed(Escaped(w, n + i), fw[(n + i) + 3])
            BY <1>1, <1>2, <2>1, <2>3, <2>5, DecodeStep
        <3>2. fw[n + (i + 3)] = fv[i + 3]
            BY <1>3, <2>5
        <3>3. QED
            BY <1>2, <2>3, <2>5, <3>1, <3>2
    <2>6. CASE i \in 1 .. m /\ v[i] = Percent /\ ~Escape(v, i) /\ fv[i] = {}
        <3>1. fw[n + i] = {}
            BY <1>1, <1>2, <2>1, <2>3, <2>6, DecodeStep
        <3>2. QED
            BY <2>6, <3>1
    <2>7. QED
        BY <2>2, <2>4, <2>5, <2>6, DecodeStep
<1>4. \A i \in 1 .. m + 1 : i \in same
    <2>1. m + 1 \in Nat
        BY <1>1
    <2>2. ASSUME NEW i \in 1 .. m + 1, \A k \in i + 1 .. m + 1 : k \in same
          PROVE  i \in same
        BY <1>3, <2>2
    <2> HIDE DEF same
    <2>3. QED
        BY <2>1, <2>2, DownwardInduction
<1>5. 1 \in same
    <2>1. 1 \in 1 .. m + 1
        BY <1>1
    <2>2. QED
        BY <1>4, <2>1
<1>6. QED
    BY <1>5 DEF n

\* Each of the first, and each of the others behind it.
Joined(A, B) == UNION {{a \o b : b \in B} : a \in A}

\* A byte before the first is a byte before both.
LEMMA JoinedPrefixed ==
    ASSUME NEW c \in Byte, NEW A \in SUBSET Seq(Byte), NEW B \in SUBSET Seq(Byte)
    PROVE  /\ Prefixed(c, Joined(A, B)) = Joined(Prefixed(c, A), B)
           /\ Prefixed(c, A) \in SUBSET Seq(Byte)
<1> DEFINE one == <<c>>
<1>1. one \in Seq(Byte)
    OBVIOUS
<1> HIDE DEF one
<1>2. \A a \in A, b \in B : one \o (a \o b) = (one \o a) \o b
    BY <1>1, ConcatAssociative
<1>3. \A outs, x : x \in Prefixed(c, outs) <=> \E rest \in outs : x = one \o rest
    BY DEF Prefixed, one
<1>4. \A S, T, x : x \in Joined(S, T) <=> \E a \in S, b \in T : x = a \o b
    BY DEF Joined
<1>5. ASSUME NEW x
      PROVE  x \in Prefixed(c, Joined(A, B)) <=> x \in Joined(Prefixed(c, A), B)
    <2>1. ASSUME x \in Prefixed(c, Joined(A, B))
          PROVE  x \in Joined(Prefixed(c, A), B)
        <3>1. PICK ab \in Joined(A, B) : x = one \o ab
            BY <1>3, <2>1
        <3>2. PICK a \in A, b \in B : ab = a \o b
            BY <1>4
        <3>3. one \o a \in Prefixed(c, A) /\ x = (one \o a) \o b
            BY <1>2, <1>3, <3>1, <3>2
        <3>4. QED
            BY <1>4, <3>3
    <2>2. ASSUME x \in Joined(Prefixed(c, A), B)
          PROVE  x \in Prefixed(c, Joined(A, B))
        <3>1. PICK ca \in Prefixed(c, A), b \in B : x = ca \o b
            BY <1>4, <2>2
        <3>2. PICK a \in A : ca = one \o a
            BY <1>3
        <3>3. a \o b \in Joined(A, B) /\ x = one \o (a \o b)
            BY <1>2, <1>4, <3>1, <3>2
        <3>4. QED
            BY <1>3, <3>3
    <2>3. QED
        BY <2>1, <2>2
<1>6. Prefixed(c, A) \in SUBSET Seq(Byte)
    <2>1. \A a \in A : one \o a \in Seq(Byte)
        BY <1>1, ConcatProperties
    <2>2. ASSUME NEW x \in Prefixed(c, A)
          PROVE  x \in Seq(Byte)
        <3>1. \E rest \in A : x = one \o rest
            BY <1>3
        <3>2. QED
            BY <2>1, <3>1
    <2>3. QED
        BY <2>2
<1>7. Prefixed(c, Joined(A, B)) = Joined(Prefixed(c, A), B)
    BY <1>5
<1>8. QED
    BY <1>6, <1>7

\* Nothing before the others changes nothing.
LEMMA JoinedNothing ==
    ASSUME NEW B \in SUBSET Seq(Byte)
    PROVE  Joined({<< >>}, B) = B
<1> DEFINE none == << >>
<1>1. \A b \in B : none \o b = b
    BY ConcatEmptySeq
<1> HIDE DEF none
<1>2. \A x : x \in Joined({none}, B) <=> \E a \in {none}, b \in B : x = a \o b
    BY DEF Joined
<1>3. ASSUME NEW x
      PROVE  x \in Joined({none}, B) <=> x \in B
    <2>1. x \in Joined({none}, B) <=> \E b \in B : x = none \o b
        BY <1>2
    <2>2. QED
        BY <1>1, <2>1
<1>4. Joined({none}, B) = B
    BY <1>3
<1>5. QED
    BY <1>4 DEF none

\* A text that decodes, and another one behind it: what they decode to, one
\* behind the other.
LEMMA DecodeConcat ==
    ASSUME NEW u \in Seq(Byte), NEW v \in Seq(Byte), Decode(u) # {}
    PROVE  Decode(u \o v) = Joined(Decode(u), Decode(v))
<1> DEFINE w == u \o v
           n == Len(u)
           B == Decode(v)
<1>1. /\ w \in Seq(Byte) /\ n \in Nat /\ Len(w) \in Nat /\ n <= Len(w)
      /\ \A j \in 1 .. n : w[j] = u[j]
    <2>1. w \in Seq(Byte) /\ Len(w) = n + Len(v) /\ n \in Nat /\ Len(v) \in Nat
        BY LenProperties, ConcatProperties
    <2>2. \A j \in 1 .. n + Len(v) : w[j] = IF j <= n THEN u[j] ELSE v[j - n]
        BY ConcatProperties
    <2> HIDE DEF w, n
    <2>3. QED
        BY <2>1, <2>2
<1>2. PICK fu : DecodesBy(u, fu) /\ Decode(u) = fu[1]
    BY DecodeLoop
<1>3. PICK fv : DecodesBy(v, fv) /\ B = fv[1]
    BY DecodeLoop
<1> HIDE DEF w
<1>4. PICK fw : DecodesBy(w, fw) /\ Decode(w) = fw[1]
    BY <1>1, DecodeLoop
<1>5. fw[n + 1] = B
    <2>1. DecodesBy(v, fv) /\ DecodesBy(u \o v, fw)
        BY <1>3, <1>4 DEF w
    <2> HIDE DEF B, n
    <2>2. fw[Len(u) + 1] = fv[1]
        BY <2>1, DecodeBehind
    <2>3. QED
        BY <1>3, <2>2 DEF n
<1>6. B \in SUBSET Seq(Byte)
    BY DecodeSays
<1> HIDE DEF B, n
<1> DEFINE Through(i) ==
            fu[i] \in SUBSET Seq(Byte) /\ (fu[i] # {} => fw[i] = Joined(fu[i], B))
           through == {i \in 1 .. n + 1 : Through(i)}
<1>7. ASSUME NEW i \in 1 .. n + 1, \A k \in i + 1 .. n + 1 : Through(k)
      PROVE  Through(i)
    <2>1. i \in 1 .. Len(w) + 1 /\ Len(u) = n
        BY <1>1 DEF n
    <2>2. CASE i = n + 1 /\ fu[i] = {<< >>}
        BY <1>5, <1>6, <2>2, EmptySeq, JoinedNothing
    <2>3. ASSUME i \in 1 .. n
          PROVE  w[i] = u[i] /\ i # Len(w) + 1
        BY <1>1, <2>3
    <2>4. CASE /\ i \in 1 .. n /\ i + 1 \in i + 1 .. n + 1 /\ u[i] \in Byte
               /\ u[i] # Percent /\ fu[i] = Prefixed(u[i], fu[i + 1])
        <3>1. fw[i] = Prefixed(u[i], fw[i + 1])
            BY <1>1, <1>4, <2>1, <2>3, <2>4, DecodeStep
        <3>2. Through(i + 1)
            BY <1>7, <2>4
        <3>3. CASE fu[i + 1] = {}
            BY <2>4, <3>3 DEF Prefixed
        <3>4. CASE fu[i + 1] # {}
            BY <1>6, <2>4, <3>1, <3>2, <3>4, JoinedPrefixed
        <3>5. QED
            BY <3>3, <3>4
    <2>5. CASE /\ i \in 1 .. n /\ i + 3 \in i + 1 .. n + 1 /\ Escaped(u, i) \in Byte
               /\ u[i] = Percent /\ Escape(u, i)
               /\ fu[i] = Prefixed(Escaped(u, i), fu[i + 3])
        <3>1. Escape(w, i) /\ Escaped(w, i) = Escaped(u, i)
            <4>1. i + 1 \in 1 .. n /\ i + 2 \in 1 .. n /\ i + 2 <= Len(w)
                BY <1>1, <2>5
            <4>2. w[i + 1] = u[i + 1] /\ w[i + 2] = u[i + 2]
                BY <1>1, <4>1
            <4>3. Escaped(w, i) = Escaped(u, i)
                BY <4>2 DEF Escaped
            <4>4. Escape(w, i)
                BY <2>5, <4>1, <4>2 DEF Escape
            <4>5. QED
                BY <4>3, <4>4
        <3>2. fw[i] = Prefixed(Escaped(u, i), fw[i + 3])
            BY <1>1, <1>4, <2>1, <2>3, <2>5, <3>1, DecodeStep
        <3>3. Through(i + 3)
            BY <1>7, <2>5
        <3>4. CASE fu[i + 3] = {}
            BY <2>5, <3>4 DEF Prefixed
        <3>5. CASE fu[i + 3] # {}
            BY <1>6, <2>5, <3>2, <3>3, <3>5, JoinedPrefixed
        <3>6. QED
            BY <3>4, <3>5
    <2>6. CASE fu[i] = {}
        BY <2>6
    <2> HIDE DEF Through
    <2>7. QED
        BY <1>2, <2>1, <2>2, <2>4, <2>5, <2>6, DecodeStep
<1>8. \A i \in 1 .. n + 1 : i \in through
    <2>1. n + 1 \in Nat
        BY <1>1
    <2>2. ASSUME NEW i \in 1 .. n + 1, \A k \in i + 1 .. n + 1 : k \in through
          PROVE  i \in through
        <3> HIDE DEF Through
        <3>1. QED
            BY <1>7, <2>2
    <2> HIDE DEF through
    <2>3. QED
        BY <2>1, <2>2, DownwardInduction
<1>9. Through(1)
    <2>1. 1 \in 1 .. n + 1
        BY <1>1
    <2> HIDE DEF Through
    <2>2. QED
        BY <1>8, <2>1
<1>10. QED
    BY <1>2, <1>4, <1>9 DEF w, B

\* No byte in it has a meaning in a query.
NoDelimiter(s) == \A j \in 1 .. Len(s) : s[j] # Ampersand /\ s[j] # Equals

\* One byte, encoded, reads back.
LEMMA EncodedByteReadsBack ==
    ASSUME NEW c \in Byte
    PROVE  /\ EncodedByte(c) \in Seq(Byte) /\ NoDelimiter(EncodedByte(c))
           /\ Decode(EncodedByte(c)) = {<<c>>}
<1> DEFINE e == EncodedByte(c)
<1>1. PICK from : e \in Seq(Byte) => DecodesBy(e, from) /\ Decode(e) = from[1]
    BY DecodeLoop
<1>2. Prefixed(c, {<< >>}) = {<<c>>}
    <2>1. <<c>> \in Seq(Byte)
        OBVIOUS
    <2>2. <<c>> \o << >> = <<c>>
        BY <2>1, ConcatEmptySeq
    <2>3. QED
        BY <2>2 DEF Prefixed
<1>3. CASE IsUnreserved(c)
    <2>1. e = <<c>>
        BY <1>3 DEF EncodedByte
    <2>2. c # Percent /\ c # Ampersand /\ c # Equals
        BY <1>3 DEF IsUnreserved, Digits, Upper, Lower, Percent, Ampersand, Equals
    <2>3. e \in Seq(Byte) /\ Len(e) = 1 /\ e[1] = c
        BY <2>1
    <2> HIDE DEF e
    <2>4. from[2] = {<< >>}
        <3>1. 2 \in 1 .. Len(e) + 1 /\ ~(2 \in 1 .. Len(e))
            BY <2>3
        <3>2. QED
            BY <1>1, <2>3, <3>1, DecodeStep
    <2>5. from[1] = Prefixed(c, from[2])
        <3>1. 1 \in 1 .. Len(e) + 1 /\ 1 # Len(e) + 1 /\ e[1] # Percent
            BY <2>2, <2>3
        <3>2. from[1] = Prefixed(e[1], from[1 + 1])
            BY <1>1, <2>3, <3>1, DecodeStep
        <3>3. QED
            BY <2>3, <3>2
    <2>6. Decode(e) = {<<c>>}
        BY <1>1, <1>2, <2>3, <2>4, <2>5
    <2>7. NoDelimiter(e)
        BY <2>2, <2>3 DEF NoDelimiter
    <2>8. QED
        BY <2>3, <2>6, <2>7 DEF e
<1>4. CASE ~IsUnreserved(c)
    <2> DEFINE high == HexDigit(c \div 16)
               low == HexDigit(c % 16)
    <2>1. e = <<Percent, high, low>>
        BY <1>4 DEF EncodedByte
    <2>2. \A n \in 0 .. 15 :
            /\ HexDigit(n) \in Byte /\ IsHex(HexDigit(n)) /\ HexValue(HexDigit(n)) = n
            /\ HexDigit(n) # Ampersand /\ HexDigit(n) # Equals
        BY DEF HexDigit, HexValue, IsHex, Digits, Byte, Ampersand, Equals
    <2>3. c \div 16 \in 0 .. 15 /\ c % 16 \in 0 .. 15 /\ 16 * (c \div 16) + (c % 16) = c
        BY DEF Byte
    <2>4. /\ high \in Byte /\ IsHex(high) /\ high # Ampersand /\ high # Equals
          /\ low \in Byte /\ IsHex(low) /\ low # Ampersand /\ low # Equals
          /\ 16 * HexValue(high) + HexValue(low) = c
        BY <2>2, <2>3
    <2> HIDE DEF high, low
    <2>5. Percent \in Byte /\ Percent # Ampersand /\ Percent # Equals
        BY DEF Percent, Byte, Ampersand, Equals
    <2>6. /\ e \in Seq(Byte) /\ Len(e) = 3
          /\ e[1] = Percent /\ e[2] = high /\ e[3] = low
        BY <2>1, <2>4, <2>5
    <2> HIDE DEF e
    <2>7. Escape(e, 1) /\ Escaped(e, 1) = c
        BY <2>4, <2>6 DEF Escape, Escaped
    <2>8. from[4] = {<< >>}
        <3>1. 4 \in 1 .. Len(e) + 1 /\ ~(4 \in 1 .. Len(e))
            BY <2>6
        <3>2. QED
            BY <1>1, <2>6, <3>1, DecodeStep
    <2>9. from[1] = Prefixed(c, from[4])
        <3>1. 1 \in 1 .. Len(e) + 1 /\ 1 # Len(e) + 1
            BY <2>6
        <3>2. from[1] = Prefixed(Escaped(e, 1), from[1 + 3])
            BY <1>1, <2>6, <2>7, <3>1, DecodeStep
        <3>3. QED
            BY <2>7, <3>2
    <2>10. Decode(e) = {<<c>>}
        BY <1>1, <1>2, <2>6, <2>8, <2>9
    <2>11. NoDelimiter(e)
        <3>1. \A j \in 1 .. Len(e) : j = 1 \/ j = 2 \/ j = 3
            BY <2>6
        <3>2. QED
            BY <2>4, <2>5, <2>6, <3>1 DEF NoDelimiter
    <2>12. QED
        BY <2>6, <2>10, <2>11 DEF e
<1>5. QED
    BY <1>3, <1>4

\* A text is encoded byte by byte.
LEMMA EncodeAppend ==
    /\ Encode(<< >>) = << >>
    /\ \A x \in Seq(Byte), c \in Byte :
            /\ Encode(x) \in Seq(Byte)
            /\ Encode(Append(x, c)) = Encode(x) \o EncodedByte(c)
<1> DEFINE Parts(x) == [i \in DOMAIN x |-> EncodedByte(x[i])]
<1>1. Encode(<< >>) = << >>
    <2>1. Parts(<< >>) = << >>
        OBVIOUS
    <2>2. QED
        BY <2>1, FlattenAppend DEF Encode
<1>2. \A x \in Seq(Byte) : Parts(x) \in Seq(Seq(Byte)) /\ Len(Parts(x)) = Len(x)
    <2>1. ASSUME NEW x \in Seq(Byte)
          PROVE  Parts(x) \in Seq(Seq(Byte)) /\ Len(Parts(x)) = Len(x)
        <3>1. Len(x) \in Nat /\ DOMAIN x = 1 .. Len(x)
            BY LenProperties
        <3>2. \A i \in 1 .. Len(x) : EncodedByte(x[i]) \in Seq(Byte)
            BY ElementOfSeq, EncodedByteReadsBack
        <3>3. QED
            BY <3>1, <3>2
    <2>2. QED
        BY <2>1
<1>3. ASSUME NEW x \in Seq(Byte), NEW c \in Byte
      PROVE  Parts(Append(x, c)) = Append(Parts(x), EncodedByte(c))
    <2> DEFINE more == Append(x, c)
               parts == Parts(x)
               part == EncodedByte(c)
               n == Len(x)
    <2>1. /\ more \in Seq(Byte) /\ Len(more) = n + 1 /\ more[n + 1] = c
          /\ \A i \in 1 .. n : more[i] = x[i]
          /\ n \in Nat /\ DOMAIN x = 1 .. n
        BY AppendProperties, LenProperties
    <2> HIDE DEF more
    <2>2. Parts(more) \in Seq(Seq(Byte)) /\ Len(Parts(more)) = n + 1
        BY <1>2, <2>1
    <2>3. part \in Seq(Byte) /\ parts \in Seq(Seq(Byte)) /\ Len(parts) = n
        BY <1>2, EncodedByteReadsBack
    <2>4. \A i \in 1 .. n : parts[i] = EncodedByte(x[i])
        BY <2>1
    <2>5. \A i \in 1 .. n + 1 : Parts(more)[i] = EncodedByte(more[i])
        <3>1. DOMAIN more = 1 .. n + 1
            BY <2>1, LenProperties
        <3>2. QED
            BY <3>1
    <2>6. /\ Append(parts, part) \in Seq(Seq(Byte)) /\ Len(Append(parts, part)) = n + 1
          /\ \A i \in 1 .. n : Append(parts, part)[i] = parts[i]
          /\ Append(parts, part)[n + 1] = part
        <3> HIDE DEF parts, part, n
        <3>1. QED
            BY <2>3, AppendProperties
    <2>7. ASSUME NEW i \in 1 .. n + 1
          PROVE  Parts(more)[i] = Append(parts, part)[i]
        <3>1. i \in 1 .. n \/ i = n + 1
            BY <2>1
        <3> HIDE DEF parts, n
        <3>2. QED
            BY <2>1, <2>4, <2>5, <2>6, <3>1
    <2> DEFINE left == Parts(more)
               right == Append(parts, part)
    <2>8. left = right
        <3> HIDE DEF left, right, n
        <3>1. QED
            BY <2>2, <2>6, <2>7, SeqEqual DEF left, right
    <2>9. QED
        BY <2>8 DEF more
<1>4. ASSUME NEW x \in Seq(Byte), NEW c \in Byte
      PROVE  /\ Encode(x) \in Seq(Byte)
             /\ Encode(Append(x, c)) = Encode(x) \o EncodedByte(c)
    <2>1. Parts(x) \in Seq(Seq(Byte)) /\ EncodedByte(c) \in Seq(Byte)
        BY <1>2, EncodedByteReadsBack
    <2>2. Parts(Append(x, c)) = Append(Parts(x), EncodedByte(c))
        BY <1>3
    <2>3. /\ FlattenSeq(Parts(x)) \in Seq(Byte)
          /\ FlattenSeq(Append(Parts(x), EncodedByte(c)))
                = FlattenSeq(Parts(x)) \o EncodedByte(c)
        <3> HIDE DEF Parts
        <3>1. QED
            BY <2>1, FlattenAppend
    <2>4. Encode(x) = FlattenSeq(Parts(x)) /\ Encode(Append(x, c)) = FlattenSeq(Parts(Append(x, c)))
        BY DEF Encode
    <2> HIDE DEF Parts
    <2>5. QED
        BY <2>2, <2>3, <2>4
<1>5. QED
    BY <1>1, <1>4

\* What percent_encode writes is bytes without a meaning in a query, and
\* percent_decode reads them back (percent_encoding.cpp:15-45).
THEOREM DecodeEncode ==
    ASSUME NEW x \in Seq(Byte)
    PROVE  /\ Encode(x) \in Seq(Byte) /\ NoDelimiter(Encode(x))
           /\ Decode(Encode(x)) = {x}
<1> DEFINE Good(y) ==
            /\ Encode(y) \in Seq(Byte) /\ NoDelimiter(Encode(y))
            /\ Decode(Encode(y)) = {y}
           good == {n \in Nat : \A y \in Seq(Byte) : Len(y) = n => Good(y)}
<1>1. Good(<< >>)
    <2> DEFINE none == << >>
    <2>1. none \in Seq(Byte) /\ Len(none) = 0
        BY EmptySeq
    <2>2. Encode(none) = none
        BY EncodeAppend
    <2>3. NoDelimiter(none)
        BY <2>1 DEF NoDelimiter
    <2>4. Decode(none) = {none}
        <3>1. PICK from : DecodesBy(none, from) /\ Decode(none) = from[1]
            BY <2>1, DecodeLoop
        <3>2. 1 \in 1 .. Len(none) + 1 /\ ~(1 \in 1 .. Len(none))
            BY <2>1
        <3> HIDE DEF none
        <3>3. from[1] = {<< >>}
            BY <2>1, <3>1, <3>2, DecodeStep
        <3>4. QED
            BY <3>1, <3>3 DEF none
    <2> HIDE DEF none
    <2>5. Good(none)
        BY <2>1, <2>2, <2>3, <2>4
    <2>6. QED
        BY <2>5 DEF none
<1>2. ASSUME NEW y \in Seq(Byte), NEW c \in Byte, Good(y)
      PROVE  Good(Append(y, c))
    <2> DEFINE u == Encode(y)
               e == EncodedByte(c)
    <2>1. /\ u \in Seq(Byte) /\ NoDelimiter(u) /\ Decode(u) = {y}
          /\ e \in Seq(Byte) /\ NoDelimiter(e) /\ Decode(e) = {<<c>>}
          /\ Encode(Append(y, c)) = u \o e
        BY <1>2, EncodeAppend, EncodedByteReadsBack
    <2> HIDE DEF u, e
    <2>2. /\ u \o e \in Seq(Byte) /\ Len(u \o e) = Len(u) + Len(e)
          /\ Len(u) \in Nat /\ Len(e) \in Nat
          /\ \A j \in 1 .. Len(u) + Len(e) :
                (u \o e)[j] = IF j <= Len(u) THEN u[j] ELSE e[j - Len(u)]
        BY <2>1, ConcatProperties, LenProperties
    <2>3. NoDelimiter(u \o e)
        <3> SUFFICES ASSUME NEW j \in 1 .. Len(u \o e)
                     PROVE  (u \o e)[j] # Ampersand /\ (u \o e)[j] # Equals
            BY DEF NoDelimiter
        <3>1. CASE j <= Len(u)
            <4>1. j \in 1 .. Len(u) /\ (u \o e)[j] = u[j]
                BY <2>2, <3>1
            <4>2. QED
                BY <2>1, <4>1 DEF NoDelimiter
        <3>2. CASE ~(j <= Len(u))
            <4>1. j - Len(u) \in 1 .. Len(e) /\ (u \o e)[j] = e[j - Len(u)]
                BY <2>2, <3>2
            <4>2. QED
                BY <2>1, <4>1 DEF NoDelimiter
        <3>3. QED
            BY <3>1, <3>2
    <2>4. Decode(u \o e) = Joined({y}, {<<c>>})
        <3>1. u \in Seq(Byte) /\ e \in Seq(Byte) /\ Decode(u) = {y} /\ Decode(e) = {<<c>>}
            BY <2>1
        <3>2. Decode(u) # {}
            BY <3>1
        <3>3. Decode(u \o e) = Joined(Decode(u), Decode(e))
            BY <3>1, <3>2, DecodeConcat
        <3>4. QED
            BY <3>1, <3>3
    <2>5. Joined({y}, {<<c>>}) = {Append(y, c)}
        <3> DEFINE one == <<c>>
        <3>1. Append(y, c) = y \o one
            BY AppendIsConcat
        <3> HIDE DEF one
        <3>2. Joined({y}, {one}) = {y \o one}
            BY DEF Joined
        <3>3. QED
            BY <3>1, <3>2 DEF one
    <2>6. QED
        BY <2>1, <2>2, <2>3, <2>4, <2>5
<1> HIDE DEF Good
<1>3. 0 \in good
    <2>1. \A y \in Seq(Byte) : Len(y) = 0 => y = << >>
        BY EmptySeq
    <2>2. QED
        BY <1>1, <2>1
<1>4. ASSUME NEW n \in good
      PROVE  n + 1 \in good
    <2> SUFFICES ASSUME NEW y \in Seq(Byte), Len(y) = n + 1
                 PROVE  Good(y)
        OBVIOUS
    <2>1. y # << >>
        BY EmptySeq
    <2>2. PICK z \in Seq(Byte), c \in Byte : y = Append(z, c)
        BY <2>1, SequenceEmptyOrAppend
    <2>3. Len(z) = n
        <3>1. Len(z) \in Nat /\ Len(Append(z, c)) = Len(z) + 1
            BY AppendProperties, LenProperties
        <3>2. QED
            BY <2>2, <3>1
    <2>4. QED
        BY <1>2, <2>2, <2>3
<1>5. Len(x) \in good
    <2>1. good \in SUBSET Nat /\ Len(x) \in Nat
        BY LenProperties
    <2> HIDE DEF good
    <2>2. QED
        BY <1>3, <1>4, <2>1, SetInduction
<1>6. Good(x)
    BY <1>5
<1>7. QED
    BY <1>6 DEF Good

-----------------------------------------------------------------------------
(* parse: the query.                                                       *)

\* find returns the first occurrence, or the end.
LEMMA FoundFrom ==
    ASSUME NEW s \in Seq(Byte), NEW c, NEW start \in 1 .. Len(s) + 1
    PROVE  /\ FindFrom(s, c, start) \in start .. Len(s) + 1
           /\ \A i \in start .. FindFrom(s, c, start) - 1 : s[i] # c
           /\ FindFrom(s, c, start) = Len(s) + 1 \/ s[FindFrom(s, c, start)] = c
<1> DEFINE places == {i \in start .. Len(s) : s[i] = c} \cup {Len(s) + 1}
           found == FindFrom(s, c, start)
<1>1. Len(s) \in Nat /\ places \in SUBSET Nat /\ places # {}
    BY LenProperties
<1>2. found = Min(places)
    BY DEF FindFrom
<1>3. found \in places /\ \A i \in places : found <= i
    <2> HIDE DEF places, found
    <2>1. QED
        BY <1>1, <1>2, LeastPosition
<1> HIDE DEF found
<1>4. found \in start .. Len(s) + 1
    BY <1>1, <1>3
<1>5. ASSUME NEW i \in start .. found - 1
      PROVE  s[i] # c
    <2>1. i \in start .. Len(s) /\ ~(found <= i)
        BY <1>1, <1>4
    <2>2. QED
        BY <1>3, <2>1
<1>6. QED
    BY <1>3, <1>4, <1>5 DEF found

\* There is one such position only.
LEMMA FoundIs ==
    ASSUME NEW s \in Seq(Byte), NEW c, NEW start \in 1 .. Len(s) + 1,
           NEW e \in start .. Len(s) + 1, \A i \in start .. e - 1 : s[i] # c,
           e = Len(s) + 1 \/ s[e] = c
    PROVE  FindFrom(s, c, start) = e
<1> DEFINE found == FindFrom(s, c, start)
<1>1. /\ found \in start .. Len(s) + 1 /\ \A i \in start .. found - 1 : s[i] # c
      /\ found = Len(s) + 1 \/ s[found] = c
    BY FoundFrom
<1> HIDE DEF found
<1>2. Len(s) \in Nat
    BY LenProperties
<1>3. ~(found < e)
    BY <1>1, <1>2
<1>4. ~(e < found)
    BY <1>1, <1>2
<1>5. found = e
    BY <1>1, <1>2, <1>3, <1>4
<1>6. QED
    BY <1>5 DEF found

\* The "=" of a pair, or its end.
Splits(s, start, end, eq) ==
    /\ eq \in start .. end /\ \A i \in start .. eq - 1 : s[i] # Equals
    /\ eq = end \/ s[eq] = Equals

\* A pair is what stands before and behind its first "=", or a key alone.
LEMMA PairSplits ==
    ASSUME NEW s \in Seq(Byte), NEW start \in 1 .. Len(s) + 1,
           NEW end \in start .. Len(s) + 1
    PROVE  /\ \E eq : Splits(s, start, end, eq)
           /\ \A eq : Splits(s, start, end, eq) =>
                /\ Pair(s, start, end) = <<SubSeq(s, start, eq - 1), SubSeq(s, eq + 1, end - 1)>>
                /\ Pair(s, start, end) \in Seq(Byte) \X Seq(Byte)
<1> DEFINE found == FindFrom(s, Equals, start)
           eq == Min({found, end})
<1>1. /\ found \in start .. Len(s) + 1 /\ \A i \in start .. found - 1 : s[i] # Equals
      /\ found = Len(s) + 1 \/ s[found] = Equals
    BY FoundFrom
<1> HIDE DEF found
<1>2. Len(s) \in Nat
    BY LenProperties
<1>3. eq \in {found, end} /\ eq <= found /\ eq <= end
    <2>1. {found, end} \in SUBSET Nat /\ {found, end} # {}
        BY <1>1, <1>2
    <2>2. QED
        BY <2>1, LeastPosition
<1> HIDE DEF eq
<1>4. Splits(s, start, end, eq)
    <2>1. eq \in start .. end /\ eq <= found
        BY <1>1, <1>2, <1>3
    <2>2. \A i \in start .. eq - 1 : s[i] # Equals
        BY <1>1, <1>2, <2>1
    <2>3. eq = end \/ s[eq] = Equals
        BY <1>1, <1>2, <1>3
    <2>4. QED
        BY <2>1, <2>2, <2>3 DEF Splits
<1>5. ASSUME NEW other, Splits(s, start, end, other)
      PROVE  other = eq
    <2>1. /\ other \in start .. end /\ \A i \in start .. other - 1 : s[i] # Equals
          /\ other = end \/ s[other] = Equals
        BY <1>5 DEF Splits
    <2>2. /\ eq \in start .. end /\ \A i \in start .. eq - 1 : s[i] # Equals
          /\ eq = end \/ s[eq] = Equals
        BY <1>4 DEF Splits
    <2>3. ~(other < eq)
        BY <1>2, <2>1, <2>2
    <2>4. ~(eq < other)
        BY <1>2, <2>1, <2>2
    <2>5. QED
        BY <1>2, <2>1, <2>2, <2>3, <2>4
<1>6. Pair(s, start, end) = <<SubSeq(s, start, eq - 1), SubSeq(s, eq + 1, end - 1)>>
    BY DEF Pair, found, eq
<1>7. Pair(s, start, end) \in Seq(Byte) \X Seq(Byte)
    <2>1. eq \in start .. end
        BY <1>4 DEF Splits
    <2>2. \A i \in 1 .. Len(s) : s[i] \in Byte
        BY ElementOfSeq
    <2>3. \A i \in start .. eq - 1 : s[i] \in Byte
        BY <1>2, <2>1, <2>2
    <2>4. \A i \in eq + 1 .. end - 1 : s[i] \in Byte
        BY <1>2, <2>1, <2>2
    <2>5. SubSeq(s, start, eq - 1) \in Seq(Byte)
        <3>1. start \in Int /\ eq - 1 \in Int
            BY <2>1
        <3>2. QED
            BY <2>3, <3>1, SubSeqProperties
    <2>6. SubSeq(s, eq + 1, end - 1) \in Seq(Byte)
        <3>1. eq + 1 \in Int /\ end - 1 \in Int
            BY <2>1
        <3>2. QED
            BY <2>4, <3>1, SubSeqProperties
    <2> DEFINE key == SubSeq(s, start, eq - 1)
               value == SubSeq(s, eq + 1, end - 1)
    <2>7. Pair(s, start, end) = <<key, value>> /\ key \in Seq(Byte) /\ value \in Seq(Byte)
        BY <1>6, <2>5, <2>6
    <2> HIDE DEF key, value
    <2>8. QED
        BY <2>7
<1>8. QED
    BY <1>4, <1>5, <1>6, <1>7

\* A key and a value.
BytePair == Seq(Byte) \X Seq(Byte)

\* from says which pairs the loop appends from each position of s on.
PairsBy(s, from) ==
    from = [start \in 1 .. Len(s) + 1 |->
                IF start > Len(s) THEN << >>
                ELSE <<Pair(s, start, FindFrom(s, Ampersand, start))>>
                     \o (IF FindFrom(s, Ampersand, start) > Len(s) THEN << >>
                         ELSE from[FindFrom(s, Ampersand, start) + 1])]

\* Where the pair at start ends.
EndOf(s, start) == FindFrom(s, Ampersand, start)

\* A pair ends inside the query, or with it.
LEMMA EndsWithin ==
    ASSUME NEW s \in Seq(Byte), NEW start \in 1 .. Len(s) + 1
    PROVE  /\ Len(s) \in Nat /\ EndOf(s, start) \in start .. Len(s) + 1
           /\ EndOf(s, start) \in Nat
           /\ <<Pair(s, start, EndOf(s, start))>> \in Seq(BytePair)
<1>1. Len(s) \in Nat /\ EndOf(s, start) \in start .. Len(s) + 1
    BY FoundFrom, LenProperties DEF EndOf
<1>2. Pair(s, start, EndOf(s, start)) \in BytePair
    <2> DEFINE e == EndOf(s, start)
    <2>1. e \in start .. Len(s) + 1
        BY <1>1
    <2> HIDE DEF e
    <2>2. Pair(s, start, e) \in BytePair
        BY <2>1, PairSplits DEF BytePair
    <2>3. QED
        BY <2>2 DEF e
<1>3. <<Pair(s, start, EndOf(s, start))>> \in Seq(BytePair)
    BY <1>2
<1>4. QED
    BY <1>1, <1>3

\* The loop stops at the end, after the last pair, or goes on behind an "&".
LEMMA PairsStep ==
    ASSUME NEW s \in Seq(Byte), NEW from, PairsBy(s, from), NEW start \in 1 .. Len(s) + 1
    PROVE  /\ start = Len(s) + 1 => from[start] = << >>
           /\ start # Len(s) + 1 /\ EndOf(s, start) = Len(s) + 1 =>
                from[start] = <<Pair(s, start, EndOf(s, start))>>
           /\ start # Len(s) + 1 /\ EndOf(s, start) # Len(s) + 1 =>
                /\ EndOf(s, start) + 1 \in start + 1 .. Len(s) + 1
                /\ from[start] = <<Pair(s, start, EndOf(s, start))>>
                                    \o from[EndOf(s, start) + 1]
<1> DEFINE e == EndOf(s, start)
           one == <<Pair(s, start, e)>>
<1>1. Len(s) \in Nat /\ e \in start .. Len(s) + 1 /\ one \in Seq(BytePair)
    BY EndsWithin
<1>2. from[start] = IF start > Len(s) THEN << >>
                    ELSE one \o (IF e > Len(s) THEN << >> ELSE from[e + 1])
    BY DEF PairsBy, EndOf
<1> HIDE DEF one, e
<1>3. one \o << >> = one
    BY <1>1, ConcatEmptySeq
<1>4. CASE start = Len(s) + 1
    <2>1. start > Len(s)
        BY <1>1, <1>4
    <2>2. QED
        BY <1>2, <1>4, <2>1
<1>5. CASE start # Len(s) + 1
    <2>1. ~(start > Len(s)) /\ (e = Len(s) + 1 <=> e > Len(s))
        BY <1>1, <1>5
    <2>2. from[start] = one \o (IF e > Len(s) THEN << >> ELSE from[e + 1])
        BY <1>2, <2>1
    <2>3. e # Len(s) + 1 => e + 1 \in start + 1 .. Len(s) + 1
        BY <1>1
    <2>4. e = Len(s) + 1 => from[start] = one
        BY <1>3, <2>1, <2>2
    <2>5. e # Len(s) + 1 => from[start] = one \o from[e + 1]
        BY <2>1, <2>2
    <2>6. QED
        BY <1>5, <2>3, <2>4, <2>5 DEF one, e
<1>6. QED
    BY <1>4, <1>5

\* The loop appends pairs of texts.
LEMMA PairsTyped ==
    ASSUME NEW s \in Seq(Byte), NEW from, PairsBy(s, from)
    PROVE  \A start \in 1 .. Len(s) + 1 : from[start] \in Seq(BytePair)
<1> DEFINE typed == {i \in 1 .. Len(s) + 1 : from[i] \in Seq(BytePair)}
<1>1. Len(s) + 1 \in Nat
    BY LenProperties
<1>2. ASSUME NEW i \in 1 .. Len(s) + 1, \A k \in i + 1 .. Len(s) + 1 : k \in typed
      PROVE  from[i] \in Seq(BytePair)
    <2> DEFINE e == EndOf(s, i)
               one == <<Pair(s, i, e)>>
    <2>1. one \in Seq(BytePair)
        BY EndsWithin
    <2>2. CASE i = Len(s) + 1
        <3>1. from[i] = << >>
            BY <2>2, PairsStep
        <3>2. QED
            BY <3>1, EmptySeq
    <2>3. CASE i # Len(s) + 1 /\ e = Len(s) + 1
        <3>1. from[i] = one
            BY <2>3, PairsStep
        <3>2. QED
            BY <2>1, <3>1
    <2>4. CASE i # Len(s) + 1 /\ e # Len(s) + 1
        <3>1. e + 1 \in i + 1 .. Len(s) + 1 /\ from[i] = one \o from[e + 1]
            BY <2>4, PairsStep
        <3>2. from[e + 1] \in Seq(BytePair)
            BY <1>2, <3>1
        <3> HIDE DEF one, e
        <3>3. QED
            BY <2>1, <3>1, <3>2, ConcatProperties
    <2>5. QED
        BY <2>2, <2>3, <2>4
<1>3. \A i \in 1 .. Len(s) + 1 : (\A k \in i + 1 .. Len(s) + 1 : k \in typed) => i \in typed
    BY <1>2
<1>4. \A i \in 1 .. Len(s) + 1 : i \in typed
    <2> HIDE DEF typed
    <2>1. QED
        BY <1>1, <1>3, DownwardInduction
<1>5. QED
    BY <1>4

\* The loop over the query.
LEMMA PairsLoop ==
    ASSUME NEW s \in Seq(Byte)
    PROVE  \E from : PairsBy(s, from) /\ Pairs(s) = from[1]
<1> DEFINE D == 1 .. Len(s) + 1
           T == Seq(BytePair)
           one(i) == <<Pair(s, i, EndOf(s, i))>>
           step(g, i) ==
                IF i > Len(s) THEN << >>
                ELSE one(i) \o (IF EndOf(s, i) > Len(s) THEN << >> ELSE g[EndOf(s, i) + 1])
           rank == [i \in D |-> Len(s) + 1 - i]
           rule == [i \in D |-> [g \in [D -> T] |-> step(g, i)]]
<1>1. /\ Len(s) \in Nat /\ << >> \in T
      /\ \A i \in D : /\ EndOf(s, i) \in i .. Len(s) + 1 /\ one(i) \in T
                      /\ ~(EndOf(s, i) > Len(s)) => EndOf(s, i) + 1 \in i + 1 .. Len(s) + 1
    <2>1. Len(s) \in Nat /\ << >> \in T
        BY EmptySeq, LenProperties
    <2>2. \A i \in D : EndOf(s, i) \in i .. Len(s) + 1 /\ one(i) \in T
        BY EndsWithin
    <2> HIDE DEF one, T
    <2>3. \A i \in D : ~(EndOf(s, i) > Len(s)) => EndOf(s, i) + 1 \in i + 1 .. Len(s) + 1
        BY <2>1, <2>2
    <2>4. QED
        BY <2>1, <2>2, <2>3
<1> HIDE DEF one
<1>2. ASSUME NEW i \in D, NEW g \in [D -> T]
      PROVE  step(g, i) \in T
    <2>1. CASE i > Len(s)
        BY <1>1, <2>1
    <2>2. CASE ~(i > Len(s)) /\ EndOf(s, i) > Len(s)
        <3>1. step(g, i) = one(i) \o << >>
            BY <2>2
        <3>2. one(i) \in T /\ << >> \in T
            BY <1>1
        <3>3. QED
            BY <3>1, <3>2, ConcatProperties
    <2>3. CASE ~(i > Len(s)) /\ ~(EndOf(s, i) > Len(s))
        <3>1. step(g, i) = one(i) \o g[EndOf(s, i) + 1]
            BY <2>3
        <3>2. EndOf(s, i) + 1 \in D /\ one(i) \in T
            BY <1>1, <2>3
        <3>3. g[EndOf(s, i) + 1] \in T
            BY <3>2
        <3>4. QED
            BY <3>1, <3>2, <3>3, ConcatProperties
    <2>4. QED
        BY <2>1, <2>2, <2>3
<1>3. ASSUME NEW i \in D, NEW g \in [D -> T], NEW h \in [D -> T],
             \A k \in D : rank[k] < rank[i] => g[k] = h[k]
      PROVE  step(g, i) = step(h, i)
    <2>1. CASE i > Len(s) \/ EndOf(s, i) > Len(s)
        BY <2>1
    <2>2. CASE ~(i > Len(s)) /\ ~(EndOf(s, i) > Len(s))
        <3>1. EndOf(s, i) + 1 \in D /\ rank[EndOf(s, i) + 1] < rank[i]
            BY <1>1, <2>2
        <3>2. g[EndOf(s, i) + 1] = h[EndOf(s, i) + 1]
            BY <1>3, <3>1
        <3>3. QED
            BY <3>2
    <2>3. QED
        BY <2>1, <2>2
<1>4. /\ rank \in [D -> Nat] /\ \A i \in D : rank[i] < Len(s) + 1
      /\ \A i \in D, g \in [D -> T] : rule[i][g] = step(g, i)
      /\ T # {} /\ Len(s) + 1 \in Nat
    <2>1. rank \in [D -> Nat] /\ Len(s) + 1 \in Nat
        BY <1>1
    <2>2. \A i \in D : rank[i] < Len(s) + 1
        BY <1>1
    <2> HIDE DEF D, T, step
    <2>3. \A i \in D, g \in [D -> T] : rule[i][g] = step(g, i)
        OBVIOUS
    <2>4. QED
        BY <1>1, <2>1, <2>2, <2>3
<1>5. rule \in [D -> [[D -> T] -> T]]
    <2> HIDE DEF step, D, T
    <2>1. QED
        BY <1>2
<1> HIDE DEF rank, rule, step, D, T
<1>6. PICK f \in [D -> T] : \A i \in D : f[i] = rule[i][f]
    <2>1. ASSUME NEW i \in D, NEW g \in [D -> T], NEW h \in [D -> T],
                 \A k \in D : rank[k] < rank[i] => g[k] = h[k]
          PROVE  rule[i][g] = rule[i][h]
        <3>1. step(g, i) = step(h, i)
            BY <1>3, <2>1
        <3>2. QED
            BY <1>4, <3>1
    <2>2. Descends(D, T, rank, Len(s) + 1, rule)
        BY <1>4, <1>5, <2>1 DEF Descends
    <2>3. QED
        BY <2>2, RecursionDefines
<1>7. f = [i \in D |-> step(f, i)]
    BY <1>4, <1>6
<1> DEFINE from == CHOOSE g : g = [i \in D |-> step(g, i)]
<1>8. from = [i \in D |-> step(from, i)]
    BY <1>7
<1>9. Pairs(s) = from[1]
    BY DEF Pairs, D, step, one, EndOf
<1>10. PairsBy(s, from)
    BY <1>8 DEF PairsBy, D, step, one, EndOf
<1>11. QED
    BY <1>9, <1>10

\* t has the bytes that s has from m to n, by k positions further.
Moved(s, m, n, t, k) == \A i \in m .. n : s[i] \in Byte /\ t[i + k] = s[i]

\* Pieces of two texts with the same bytes are the same.
LEMMA SubSeqSame ==
    ASSUME NEW s, NEW t, NEW m \in Int, NEW n \in Int, NEW k \in Int, Moved(s, m, n, t, k),
           NEW a \in Int, a = m + k, NEW b \in Int, b = n + k
    PROVE  SubSeq(t, a, b) = SubSeq(s, m, n)
<1> USE DEF Moved
<1> DEFINE x == SubSeq(s, m, n)
           y == SubSeq(t, a, b)
<1>1. /\ x \in Seq(Byte) /\ Len(x) = IF m <= n THEN n - m + 1 ELSE 0
      /\ \A i \in 1 .. n - m + 1 : x[i] = s[m + i - 1]
    BY SubSeqProperties
<1>2. /\ y \in Seq(Byte) /\ Len(y) = IF a <= b THEN b - a + 1 ELSE 0
      /\ \A i \in 1 .. b - a + 1 : y[i] = t[a + i - 1]
    <2>1. ASSUME NEW i \in a .. b
          PROVE  t[i] \in Byte
        <3>1. i - k \in m .. n /\ (i - k) + k = i
            OBVIOUS
        <3>2. t[(i - k) + k] = s[i - k] /\ s[i - k] \in Byte
            BY <3>1
        <3>3. QED
            BY <3>1, <3>2
    <2>2. QED
        BY <2>1, SubSeqProperties
<1> HIDE DEF x, y
<1>3. Len(x) = Len(y)
    BY <1>1, <1>2
<1>4. ASSUME NEW i \in 1 .. Len(x)
      PROVE  x[i] = y[i]
    <2>1. /\ i \in 1 .. n - m + 1 /\ i \in 1 .. b - a + 1
          /\ m + i - 1 \in m .. n /\ (m + i - 1) + k = a + i - 1
        BY <1>1
    <2>2. x[i] = s[m + i - 1] /\ y[i] = t[a + i - 1]
        BY <1>1, <1>2, <2>1
    <2>3. t[(m + i - 1) + k] = s[m + i - 1]
        BY <2>1
    <2>4. QED
        BY <2>1, <2>2, <2>3
<1>5. x = y
    BY <1>1, <1>2, <1>3, <1>4, SeqEqual
<1>6. QED
    BY <1>5 DEF x, y

\* w goes on behind u and an "&"; u does not end in one.
GoesOn(w, u) ==
    /\ u[Len(u)] # Ampersand
    /\ Len(w) > Len(u) /\ \A j \in 1 .. Len(u) : w[j] = u[j]
    /\ w[Len(u) + 1] = Ampersand

\* What is written from a position of u on, and then what follows u.
Precedes(u, fu, fw) ==
    \A i \in 1 .. Len(u) : fw[i] = fu[i] \o fw[Len(u) + 2]

\* The pairs before the "&" are as if the text ended there, unless it would
\* then end in an "&".
LEMMA PairsBefore ==
    ASSUME NEW u \in Seq(Byte),
           NEW w \in Seq(Byte), GoesOn(w, u),
           NEW fu, PairsBy(u, fu), NEW fw, PairsBy(w, fw)
    PROVE  Precedes(u, fu, fw)
<1> DEFINE n == Len(u)
           R == fw[n + 2]
<1>1. /\ n \in Nat /\ Len(w) \in Nat /\ n + 2 \in 1 .. Len(w) + 1
      /\ \A j \in 1 .. n : w[j] = u[j] /\ u[j] \in Byte
      /\ Len(w) > n /\ w[n + 1] = Ampersand /\ u[n] # Ampersand
    BY LenProperties, ElementOfSeq DEF GoesOn
<1>2. R \in Seq(BytePair) /\ \A i \in 1 .. n + 1 : fu[i] \in Seq(BytePair)
    BY <1>1, PairsTyped
<1> HIDE DEF n, R
<1>3. ASSUME NEW i \in 1 .. n
      PROVE  /\ i \in 1 .. Len(u) + 1 /\ i \in 1 .. Len(w) + 1
             /\ EndOf(u, i) \in i .. n + 1 /\ EndOf(u, i) # n
             /\ EndOf(w, i) = EndOf(u, i)
             /\ Pair(w, i, EndOf(w, i)) = Pair(u, i, EndOf(u, i))
    <2> DEFINE e == EndOf(u, i)
    <2>1. i \in 1 .. Len(u) + 1 /\ i \in 1 .. Len(w) + 1 /\ i \in Nat /\ Len(u) = n
        BY <1>1 DEF n
    <2>2. /\ e \in i .. n + 1 /\ \A k \in i .. e - 1 : u[k] # Ampersand
          /\ e = n + 1 \/ u[e] = Ampersand
        BY <2>1, FoundFrom DEF EndOf
    <2> HIDE DEF e
    <2>3. e # n
        BY <1>1, <2>1, <2>2
    <2>4. /\ e \in i .. Len(w) + 1 /\ \A k \in i .. e - 1 : w[k] # Ampersand
          /\ w[e] = Ampersand
        <3>1. /\ e \in i .. Len(w) + 1 /\ \A k \in i .. e - 1 : k \in 1 .. n
              /\ e # n + 1 => e \in 1 .. n
            BY <1>1, <2>1, <2>2
        <3>2. \A k \in i .. e - 1 : w[k] = u[k]
            BY <1>1, <3>1
        <3>3. w[e] = Ampersand
            <4>1. CASE e = n + 1
                BY <1>1, <4>1
            <4>2. CASE e # n + 1
                BY <1>1, <2>2, <3>1, <4>2
            <4>3. QED
                BY <4>1, <4>2
        <3>4. QED
            BY <2>2, <3>1, <3>2, <3>3
    <2>5. EndOf(w, i) = e
        BY <2>1, <2>4, FoundIs DEF EndOf
    <2>6. PICK eq : Splits(u, i, e, eq)
        <3>1. e \in i .. Len(u) + 1
            BY <2>1, <2>2
        <3>2. QED
            BY <2>1, <3>1, PairSplits
    <2>7. /\ eq \in i .. e
          /\ \A k \in i .. eq - 1 : k \in 1 .. n
          /\ \A k \in eq .. e - 1 : k \in 1 .. n
        <3>1. eq \in i .. e
            BY <2>6 DEF Splits
        <3>2. QED
            BY <1>1, <2>1, <2>2, <3>1
    <2>8. Splits(w, i, e, eq)
        <3>1. /\ eq \in i .. e /\ \A k \in i .. eq - 1 : u[k] # Equals
              /\ eq = e \/ u[eq] = Equals
            BY <2>6 DEF Splits
        <3>2. \A k \in i .. eq - 1 : w[k] # Equals
            BY <1>1, <2>7, <3>1
        <3>3. eq = e \/ w[eq] = Equals
            <4>1. eq # e => eq \in eq .. e - 1
                BY <2>1, <2>2, <2>7
            <4>2. QED
                BY <1>1, <2>7, <3>1, <4>1
        <3>4. QED
            BY <3>1, <3>2, <3>3 DEF Splits
    <2>9. /\ Pair(u, i, e) = <<SubSeq(u, i, eq - 1), SubSeq(u, eq + 1, e - 1)>>
          /\ Pair(w, i, e) = <<SubSeq(w, i, eq - 1), SubSeq(w, eq + 1, e - 1)>>
        <3>1. e \in i .. Len(u) + 1 /\ e \in i .. Len(w) + 1
            BY <2>1, <2>2, <2>4
        <3>2. Pair(u, i, e) = <<SubSeq(u, i, eq - 1), SubSeq(u, eq + 1, e - 1)>>
            BY <2>1, <2>6, <3>1, PairSplits
        <3>3. Pair(w, i, e) = <<SubSeq(w, i, eq - 1), SubSeq(w, eq + 1, e - 1)>>
            BY <2>1, <2>8, <3>1, PairSplits
        <3>4. QED
            BY <3>2, <3>3
    <2>10. SubSeq(w, i, eq - 1) = SubSeq(u, i, eq - 1)
        <3> DEFINE b == eq - 1
        <3>1. /\ i \in Int /\ b \in Int /\ i = i + 0 /\ b = b + 0
              /\ \A k \in i .. b : k + 0 = k
            BY <2>1, <2>7
        <3>2. Moved(u, i, b, w, 0)
            BY <1>1, <2>7, <3>1 DEF Moved
        <3> HIDE DEF b
        <3>3. SubSeq(w, i, b) = SubSeq(u, i, b)
            BY <3>1, <3>2, SubSeqSame
        <3>4. QED
            BY <3>3 DEF b
    <2>11. SubSeq(w, eq + 1, e - 1) = SubSeq(u, eq + 1, e - 1)
        <3> DEFINE a == eq + 1
                   b == e - 1
        <3>1. /\ a \in Int /\ b \in Int /\ a = a + 0 /\ b = b + 0
              /\ \A k \in a .. b : k + 0 = k /\ k \in eq .. e - 1
            BY <2>1, <2>2, <2>7
        <3> HIDE DEF a, b
        <3>2. Moved(u, a, b, w, 0)
            BY <1>1, <2>7, <3>1 DEF Moved
        <3>3. SubSeq(w, a, b) = SubSeq(u, a, b)
            BY <3>1, <3>2, SubSeqSame
        <3>4. QED
            BY <3>3 DEF a, b
    <2>12. QED
        BY <2>1, <2>2, <2>3, <2>5, <2>9, <2>10, <2>11 DEF e
<1> DEFINE goesOn == {i \in 1 .. n : fw[i] = fu[i] \o R}
<1>4. ASSUME NEW i \in 1 .. n, \A k \in i + 1 .. n : fw[k] = fu[k] \o R
      PROVE  fw[i] = fu[i] \o R
    <2> DEFINE e == EndOf(u, i)
               one == <<Pair(u, i, e)>>
    <2>1. /\ e \in i .. n + 1 /\ e # n /\ i # n + 1 /\ i # Len(w) + 1 /\ e # Len(w) + 1
          /\ EndOf(w, i) = e /\ <<Pair(w, i, EndOf(w, i))>> = one
          /\ i \in 1 .. Len(w) + 1 /\ i \in 1 .. Len(u) + 1 /\ Len(u) = n
        <3>1. /\ e \in i .. n + 1 /\ e # n /\ EndOf(w, i) = e
              /\ Pair(w, i, EndOf(w, i)) = Pair(u, i, e)
              /\ i \in 1 .. Len(w) + 1 /\ i \in 1 .. Len(u) + 1
            BY <1>3
        <3> HIDE DEF e
        <3>2. i # n + 1 /\ i # Len(w) + 1 /\ e # Len(w) + 1
            BY <1>1, <3>1
        <3>3. QED
            BY <3>1, <3>2 DEF n
    <2>2. one \in Seq(BytePair)
        BY <2>1, EndsWithin
    <2>3. fw[i] = one \o fw[e + 1]
        <3> HIDE DEF one, e
        <3>1. i # Len(w) + 1 /\ EndOf(w, i) # Len(w) + 1
            BY <2>1
        <3>2. fw[i] = <<Pair(w, i, EndOf(w, i))>> \o fw[EndOf(w, i) + 1]
            BY <2>1, <3>1, PairsStep
        <3>3. QED
            BY <2>1, <3>2
    <2>4. CASE e = n + 1
        <3>1. fu[i] = one
            BY <2>1, <2>4, PairsStep
        <3>2. e + 1 = n + 2
            BY <1>1, <2>4
        <3>3. QED
            BY <2>3, <3>1, <3>2 DEF R
    <2>5. CASE e # n + 1
        <3>1. fu[i] = one \o fu[e + 1]
            BY <2>1, <2>5, PairsStep
        <3>2. e + 1 \in i + 1 .. n /\ e + 1 \in 1 .. n + 1
            BY <1>1, <2>1, <2>5
        <3>3. fw[e + 1] = fu[e + 1] \o R /\ fu[e + 1] \in Seq(BytePair)
            BY <1>2, <1>4, <3>2
        <3> DEFINE more == fu[e + 1]
        <3>4. /\ fw[i] = one \o (more \o R) /\ fu[i] = one \o more
              /\ one \in Seq(BytePair) /\ more \in Seq(BytePair) /\ R \in Seq(BytePair)
            BY <1>2, <2>2, <2>3, <3>1, <3>3
        <3>5. one \in Seq(BytePair) /\ more \in Seq(BytePair) /\ R \in Seq(BytePair)
            BY <3>4
        <3> HIDE DEF one, more, goesOn
        <3>6. one \o (more \o R) = (one \o more) \o R
            <4>1. \A x, y, z \in Seq(BytePair) : x \o (y \o z) = (x \o y) \o z
                BY ConcatAssociative
            <4>2. QED
                BY <3>5, <4>1
        <3>7. QED
            BY <3>4, <3>6
    <2>6. QED
        BY <2>4, <2>5
<1>5. \A i \in 1 .. n : i \in goesOn
    <2>1. \A i \in 1 .. n : (\A k \in i + 1 .. n : k \in goesOn) => i \in goesOn
        BY <1>4
    <2> HIDE DEF goesOn
    <2>2. QED
        BY <1>1, <2>1, DownwardInduction
<1>6. \A i \in 1 .. n : fw[i] = fu[i] \o R
    BY <1>5
<1>7. QED
    BY <1>6 DEF Precedes, R, n

\* A key, a "=" and a value stand behind position n, and nothing behind them.
Writes(w, n, key, value) ==
    /\ Len(w) = n + Len(key) + 1 + Len(value)
    /\ \A j \in 1 .. Len(key) : w[n + j] = key[j]
    /\ w[n + Len(key) + 1] = Equals
    /\ \A j \in 1 .. Len(value) : w[n + Len(key) + 1 + j] = value[j]

\* Then they are the last pair.
LEMMA LastPair ==
    ASSUME NEW w \in Seq(Byte), NEW n \in Nat,
           NEW key \in Seq(Byte), NEW value \in Seq(Byte), Writes(w, n, key, value),
           NoDelimiter(key), NoDelimiter(value), NEW fw, PairsBy(w, fw)
    PROVE  fw[n + 1] = <<<<key, value>>>> /\ w[Len(w)] # Ampersand
<1> DEFINE k == Len(key)
           v == Len(value)
           e == Len(w) + 1
           eq == n + k + 1
<1>1. /\ k \in Nat /\ v \in Nat /\ Len(w) = n + k + 1 + v
      /\ \A j \in 1 .. k : key[j] \in Byte /\ key[j] # Ampersand /\ key[j] # Equals
      /\ \A j \in 1 .. v : value[j] \in Byte /\ value[j] # Ampersand /\ value[j] # Equals
      /\ \A j \in 1 .. k : w[n + j] = key[j]
      /\ w[n + k + 1] = Equals
      /\ \A j \in 1 .. v : w[n + k + 1 + j] = value[j]
    BY ElementOfSeq, LenProperties DEF Writes, NoDelimiter
<1> HIDE DEF k, v
<1>2. ASSUME NEW i \in n + 1 .. Len(w)
      PROVE  w[i] # Ampersand /\ (i < eq => w[i] # Equals)
    <2>1. CASE i < eq
        <3> DEFINE j == i - n
        <3>1. j \in 1 .. k /\ n + j = i
            BY <1>1, <2>1
        <3> HIDE DEF j, eq
        <3>2. w[i] = key[j]
            BY <1>1, <3>1
        <3>3. QED
            BY <1>1, <3>1, <3>2
    <2>2. CASE i = eq
        BY <1>1, <2>2 DEF Ampersand, Equals
    <2>3. CASE i > eq
        <3> DEFINE j == i - (n + k + 1)
        <3>1. j \in 1 .. v /\ n + k + 1 + j = i /\ ~(i < eq)
            BY <1>1, <2>3
        <3> HIDE DEF j, eq
        <3>2. w[i] = value[j]
            BY <1>1, <3>1
        <3>3. QED
            BY <1>1, <3>1, <3>2
    <2>4. eq \in Int /\ i \in Int
        BY <1>1
    <2>5. QED
        BY <2>1, <2>2, <2>3, <2>4
<1>3. /\ n + 1 \in 1 .. Len(w) + 1 /\ e \in n + 1 .. Len(w) + 1 /\ n + 1 # Len(w) + 1
      /\ eq \in n + 1 .. e /\ Len(w) \in n + 1 .. Len(w)
    BY <1>1
<1>4. EndOf(w, n + 1) = e
    <2>1. \A i \in n + 1 .. e - 1 : w[i] # Ampersand
        BY <1>1, <1>2
    <2> HIDE DEF e
    <2>2. e = Len(w) + 1
        BY DEF e
    <2>3. QED
        BY <1>3, <2>1, <2>2, FoundIs DEF EndOf
<1>5. Splits(w, n + 1, e, eq)
    <2>1. \A i \in n + 1 .. eq - 1 : w[i] # Equals
        BY <1>1, <1>2
    <2>2. w[eq] = Equals
        BY <1>1
    <2>3. QED
        BY <1>3, <2>1, <2>2 DEF Splits
<1>6. Pair(w, n + 1, e) = <<SubSeq(w, n + 1, eq - 1), SubSeq(w, eq + 1, e - 1)>>
    <2> HIDE DEF e, eq
    <2>1. QED
        BY <1>3, <1>5, PairSplits
<1>7. SubSeq(w, n + 1, eq - 1) = key
    <2> DEFINE a == n + 1
               b == eq - 1
    <2>1. \A i \in 1 .. k : i + n = n + i
        BY <1>1
    <2>2. /\ k \in Int /\ 1 \in Int /\ n \in Int
          /\ a \in Int /\ b \in Int /\ a = 1 + n /\ b = k + n
        BY <1>1
    <2> HIDE DEF a, b
    <2>3. Moved(key, 1, k, w, n)
        BY <1>1, <2>1 DEF Moved
    <2>4. SubSeq(w, a, b) = SubSeq(key, 1, k)
        BY <2>2, <2>3, SubSeqSame
    <2>5. SubSeq(key, 1, k) = key
        BY SubSeqFull DEF k
    <2>6. QED
        BY <2>4, <2>5 DEF a, b
<1>8. SubSeq(w, eq + 1, e - 1) = value
    <2> DEFINE a == eq + 1
               b == e - 1
    <2>1. \A i \in 1 .. v : i + eq = n + k + 1 + i
        BY <1>1
    <2>2. /\ v \in Int /\ 1 \in Int /\ eq \in Int
          /\ a \in Int /\ b \in Int /\ a = 1 + eq /\ b = v + eq
        BY <1>1
    <2> HIDE DEF a, b, eq
    <2>3. Moved(value, 1, v, w, eq)
        BY <1>1, <2>1 DEF Moved
    <2>4. SubSeq(w, a, b) = SubSeq(value, 1, v)
        BY <2>2, <2>3, SubSeqSame
    <2>5. SubSeq(value, 1, v) = value
        BY SubSeqFull DEF v
    <2>6. QED
        BY <2>4, <2>5 DEF a, b
<1>9. fw[n + 1] = <<Pair(w, n + 1, e)>>
    <2>1. EndOf(w, n + 1) = Len(w) + 1
        BY <1>4
    <2>2. fw[n + 1] = <<Pair(w, n + 1, EndOf(w, n + 1))>>
        BY <1>3, <2>1, PairsStep
    <2>3. QED
        BY <1>4, <2>2
<1>10. QED
    BY <1>2, <1>3, <1>6, <1>7, <1>8, <1>9

\* Where the parts of a piece stand.
LEMMA PieceWrites ==
    ASSUME NEW before \in Seq(Byte), NEW key \in Seq(Byte), NEW value \in Seq(Byte)
    PROVE  LET w == before \o key \o <<Equals>> \o value
           IN  /\ w \in Seq(Byte) /\ Writes(w, Len(before), key, value)
               /\ \A j \in 1 .. Len(before) : w[j] = before[j]
<1> DEFINE w == before \o key \o <<Equals>> \o value
           n == Len(before)
           k == Len(key)
           v == Len(value)
           eq == <<Equals>>
           a == before \o key
           b == a \o eq
<1>1. n \in Nat /\ k \in Nat /\ v \in Nat
    BY LenProperties
<1>2. eq \in Seq(Byte) /\ Len(eq) = 1 /\ eq[1] = Equals
    <2>1. Equals \in Byte
        BY DEF Equals, Byte
    <2>2. QED
        BY <2>1
<1> HIDE DEF eq
<1>3. /\ a \in Seq(Byte) /\ Len(a) = n + k
      /\ \A j \in 1 .. n + k : a[j] = IF j <= n THEN before[j] ELSE key[j - n]
    BY ConcatProperties
<1> HIDE DEF a
<1>4. /\ b \in Seq(Byte) /\ Len(b) = n + k + 1
      /\ \A j \in 1 .. n + k + 1 : b[j] = IF j <= n + k THEN a[j] ELSE eq[j - (n + k)]
    <2>1. /\ b \in Seq(Byte) /\ Len(b) = Len(a) + Len(eq)
          /\ \A j \in 1 .. Len(a) + Len(eq) :
                b[j] = IF j <= Len(a) THEN a[j] ELSE eq[j - Len(a)]
        <3>1. a \in Seq(Byte) /\ eq \in Seq(Byte)
            BY <1>2, <1>3
        <3> HIDE DEF n, k, v, w
        <3>2. QED
            BY <3>1, ConcatProperties
    <2> HIDE DEF b, n, k
    <2>2. QED
        BY <1>2, <1>3, <2>1
<1> HIDE DEF b
<1>5. /\ w \in Seq(Byte) /\ Len(w) = n + k + 1 + v
      /\ \A j \in 1 .. n + k + 1 + v :
            w[j] = IF j <= n + k + 1 THEN b[j] ELSE value[j - (n + k + 1)]
    <2> DEFINE all == b \o value
    <2>1. w = all
        BY DEF a, b, eq
    <2>2. /\ all \in Seq(Byte) /\ Len(all) = Len(b) + Len(value)
          /\ \A j \in 1 .. Len(b) + Len(value) :
                all[j] = IF j <= Len(b) THEN b[j] ELSE value[j - Len(b)]
        <3>1. b \in Seq(Byte)
            BY <1>4
        <3> HIDE DEF n, k, v, w
        <3>2. QED
            BY <3>1, ConcatProperties
    <2> HIDE DEF all, n, k, v, w
    <2>3. QED
        BY <1>4, <2>1, <2>2 DEF v
<1> HIDE DEF n, k, v, w
<1>6. ASSUME NEW j \in 1 .. n
      PROVE  w[j] = before[j]
    <2>1. /\ j \in 1 .. n + k /\ j \in 1 .. n + k + 1 /\ j \in 1 .. n + k + 1 + v
          /\ j <= n /\ j <= n + k /\ j <= n + k + 1
        BY <1>1
    <2>2. QED
        BY <1>3, <1>4, <1>5, <2>1
<1>7. ASSUME NEW i \in 1 .. k
      PROVE  w[n + i] = key[i]
    <2> DEFINE j == n + i
    <2>1. /\ j \in 1 .. n + k /\ j \in 1 .. n + k + 1 /\ j \in 1 .. n + k + 1 + v
          /\ ~(j <= n) /\ j <= n + k /\ j <= n + k + 1 /\ j - n = i
        BY <1>1
    <2> HIDE DEF j
    <2>2. w[j] = key[j - n]
        BY <1>3, <1>4, <1>5, <2>1
    <2>3. QED
        BY <2>1, <2>2 DEF j
<1>8. w[n + k + 1] = Equals
    <2> DEFINE j == n + k + 1
    <2>1. /\ j \in 1 .. n + k + 1 /\ j \in 1 .. n + k + 1 + v
          /\ ~(j <= n + k) /\ j <= n + k + 1 /\ j - (n + k) = 1
        BY <1>1
    <2> HIDE DEF j
    <2>2. w[j] = eq[j - (n + k)]
        BY <1>4, <1>5, <2>1
    <2>3. QED
        BY <1>2, <2>1, <2>2 DEF j
<1>9. ASSUME NEW i \in 1 .. v
      PROVE  w[n + k + 1 + i] = value[i]
    <2> DEFINE j == n + k + 1 + i
    <2>1. /\ j \in 1 .. n + k + 1 + v /\ ~(j <= n + k + 1) /\ j - (n + k + 1) = i
        BY <1>1
    <2> HIDE DEF j
    <2>2. w[j] = value[j - (n + k + 1)]
        BY <1>5, <2>1
    <2>3. QED
        BY <2>1, <2>2 DEF j
<1>10. QED
    BY <1>5, <1>6, <1>7, <1>8, <1>9 DEF Writes, n, k, v, w

\* The i-th pair as somebody writes it into a query.
Piece(i, pair) ==
    (IF i = 1 THEN << >> ELSE <<Ampersand>>)
    \o Encode(pair[1]) \o <<Equals>> \o Encode(pair[2])

\* The query somebody writes for the pairs.
Written(pairs) == FlattenSeq([i \in DOMAIN pairs |-> Piece(i, pairs[i])])

\* A piece is a text: an "&" unless it is the first, a key, a "=", a value.
LEMMA PieceTyped ==
    ASSUME NEW i, NEW pair \in BytePair
    PROVE  /\ Piece(i, pair) \in Seq(Byte)
           /\ i # 1 => /\ Piece(i, pair)[1] = Ampersand
                       /\ Writes(Piece(i, pair), 1, Encode(pair[1]), Encode(pair[2]))
           /\ i = 1 => Writes(Piece(i, pair), 0, Encode(pair[1]), Encode(pair[2]))
<1> DEFINE before == IF i = 1 THEN << >> ELSE <<Ampersand>>
           key == Encode(pair[1])
           value == Encode(pair[2])
           w == Piece(i, pair)
<1>1. key \in Seq(Byte) /\ value \in Seq(Byte)
    BY DecodeEncode DEF BytePair
<1>2. /\ before \in Seq(Byte) /\ Len(before) = IF i = 1 THEN 0 ELSE 1
      /\ i # 1 => before[1] = Ampersand
    <2>1. Ampersand \in Byte
        BY DEF Ampersand, Byte
    <2>2. CASE i = 1
        <3>1. before = << >>
            BY <2>2
        <3>2. QED
            BY <2>2, <3>1, EmptySeq
    <2>3. CASE i # 1
        <3>1. before = <<Ampersand>>
            BY <2>3
        <3>2. <<Ampersand>> \in Seq(Byte) /\ Len(<<Ampersand>>) = 1
            BY <2>1
        <3>3. QED
            BY <2>3, <3>1, <3>2
    <2>4. QED
        BY <2>2, <2>3
<1>3. w = before \o key \o <<Equals>> \o value
    BY DEF Piece
<1> HIDE DEF before, key, value, w
<1>4. /\ w \in Seq(Byte) /\ Writes(w, Len(before), key, value)
      /\ \A j \in 1 .. Len(before) : w[j] = before[j]
    <2>1. LET x == before \o key \o <<Equals>> \o value
          IN  /\ x \in Seq(Byte) /\ Writes(x, Len(before), key, value)
              /\ \A j \in 1 .. Len(before) : x[j] = before[j]
        BY <1>1, <1>2, PieceWrites
    <2>2. QED
        BY <1>3, <2>1
<1>5. i # 1 => w[1] = Ampersand
    BY <1>2, <1>4
<1>6. QED
    BY <1>2, <1>4, <1>5 DEF w, key, value

\* The query for one more pair goes on with one more piece.
LEMMA WrittenAppend ==
    /\ Written(<< >>) = << >>
    /\ \A pairs \in Seq(BytePair), pair \in BytePair :
            /\ Written(pairs) \in Seq(Byte)
            /\ Written(Append(pairs, pair)) = Written(pairs) \o Piece(Len(pairs) + 1, pair)
<1> DEFINE Parts(x) == [i \in DOMAIN x |-> Piece(i, x[i])]
<1>1. Written(<< >>) = << >>
    <2>1. Parts(<< >>) = << >>
        OBVIOUS
    <2>2. QED
        BY <2>1, FlattenAppend DEF Written
<1>2. \A x \in Seq(BytePair) : Parts(x) \in Seq(Seq(Byte)) /\ Len(Parts(x)) = Len(x)
    <2>1. ASSUME NEW x \in Seq(BytePair)
          PROVE  Parts(x) \in Seq(Seq(Byte)) /\ Len(Parts(x)) = Len(x)
        <3>1. Len(x) \in Nat /\ DOMAIN x = 1 .. Len(x)
            BY LenProperties
        <3>2. \A i \in 1 .. Len(x) : Piece(i, x[i]) \in Seq(Byte)
            BY ElementOfSeq, PieceTyped
        <3>3. QED
            BY <3>1, <3>2
    <2>2. QED
        BY <2>1
<1>3. ASSUME NEW x \in Seq(BytePair), NEW c \in BytePair
      PROVE  Parts(Append(x, c)) = Append(Parts(x), Piece(Len(x) + 1, c))
    <2> DEFINE more == Append(x, c)
               parts == Parts(x)
               n == Len(x)
               part == Piece(n + 1, c)
    <2>1. /\ more \in Seq(BytePair) /\ Len(more) = n + 1 /\ more[n + 1] = c
          /\ \A i \in 1 .. n : more[i] = x[i]
          /\ n \in Nat /\ DOMAIN x = 1 .. n
        BY AppendProperties, LenProperties
    <2> HIDE DEF more
    <2>2. Parts(more) \in Seq(Seq(Byte)) /\ Len(Parts(more)) = n + 1
        BY <1>2, <2>1
    <2>3. part \in Seq(Byte) /\ parts \in Seq(Seq(Byte)) /\ Len(parts) = n
        BY <1>2, PieceTyped
    <2>4. \A i \in 1 .. n : parts[i] = Piece(i, x[i])
        BY <2>1
    <2>5. \A i \in 1 .. n + 1 : Parts(more)[i] = Piece(i, more[i])
        <3>1. DOMAIN more = 1 .. n + 1
            BY <2>1, LenProperties
        <3>2. QED
            BY <3>1
    <2>6. /\ Append(parts, part) \in Seq(Seq(Byte)) /\ Len(Append(parts, part)) = n + 1
          /\ \A i \in 1 .. n : Append(parts, part)[i] = parts[i]
          /\ Append(parts, part)[n + 1] = part
        <3> HIDE DEF parts, part, n
        <3>1. QED
            BY <2>3, AppendProperties
    <2>7. ASSUME NEW i \in 1 .. n + 1
          PROVE  Parts(more)[i] = Append(parts, part)[i]
        <3>1. i \in 1 .. n \/ i = n + 1
            BY <2>1
        <3> HIDE DEF parts, n
        <3>2. QED
            BY <2>1, <2>4, <2>5, <2>6, <3>1
    <2> DEFINE left == Parts(more)
               right == Append(parts, part)
    <2>8. left = right
        <3> HIDE DEF left, right, n
        <3>1. QED
            BY <2>2, <2>6, <2>7, SeqEqual DEF left, right
    <2>9. QED
        BY <2>8 DEF more
<1>4. ASSUME NEW x \in Seq(BytePair), NEW c \in BytePair
      PROVE  /\ Written(x) \in Seq(Byte)
             /\ Written(Append(x, c)) = Written(x) \o Piece(Len(x) + 1, c)
    <2> DEFINE piece == Piece(Len(x) + 1, c)
    <2>1. Parts(x) \in Seq(Seq(Byte)) /\ piece \in Seq(Byte)
        BY <1>2, PieceTyped
    <2>2. Parts(Append(x, c)) = Append(Parts(x), piece)
        BY <1>3
    <2> HIDE DEF piece
    <2>3. /\ FlattenSeq(Parts(x)) \in Seq(Byte)
          /\ FlattenSeq(Append(Parts(x), piece)) = FlattenSeq(Parts(x)) \o piece
        <3> HIDE DEF Parts
        <3>1. QED
            BY <2>1, FlattenAppend
    <2>4. Written(x) = FlattenSeq(Parts(x)) /\ Written(Append(x, c)) = FlattenSeq(Parts(Append(x, c)))
        BY DEF Written
    <2> HIDE DEF Parts
    <2>5. QED
        BY <2>2, <2>3, <2>4 DEF piece
<1>5. QED
    BY <1>1, <1>4

\* A pair as the query holds it.
Coded(pair) == <<Encode(pair[1]), Encode(pair[2])>>

\* The query is taken apart where it was put together.
PairsOf(pairs) ==
    LET w == Written(pairs)
    IN  /\ Pairs(w) \in Seq(BytePair) /\ Len(Pairs(w)) = Len(pairs)
        /\ \A i \in 1 .. Len(pairs) : Pairs(w)[i] = Coded(pairs[i])
        /\ pairs # << >> => Len(w) # 0 /\ w[Len(w)] # Ampersand

\* One pair more.
LEMMA PairsAppend ==
    ASSUME NEW pairs \in Seq(BytePair), NEW pair \in BytePair, PairsOf(pairs)
    PROVE  /\ Pairs(Written(Append(pairs, pair))) =
                IF pairs = << >> THEN <<Coded(pair)>>
                ELSE Pairs(Written(pairs)) \o <<Coded(pair)>>
           /\ LET w == Written(Append(pairs, pair)) IN Len(w) # 0 /\ w[Len(w)] # Ampersand
<1> DEFINE u == Written(pairs)
           w == Written(Append(pairs, pair))
           piece == Piece(Len(pairs) + 1, pair)
           key == Encode(pair[1])
           value == Encode(pair[2])
<1>1. /\ u \in Seq(Byte) /\ piece \in Seq(Byte) /\ w = u \o piece
      /\ key \in Seq(Byte) /\ NoDelimiter(key) /\ value \in Seq(Byte) /\ NoDelimiter(value)
    BY DecodeEncode, PieceTyped, WrittenAppend DEF BytePair
<1> HIDE DEF w
<1>2. /\ w \in Seq(Byte) /\ Len(w) = Len(u) + Len(piece)
      /\ \A j \in 1 .. Len(u) + Len(piece) :
            w[j] = IF j <= Len(u) THEN u[j] ELSE piece[j - Len(u)]
    <2> HIDE DEF u, piece
    <2>1. QED
        BY <1>1, ConcatProperties
<1>3. PICK fw : PairsBy(w, fw) /\ Pairs(w) = fw[1]
    BY <1>2, PairsLoop
<1>4. CASE pairs = << >>
    <2>1. u = << >> /\ Len(pairs) + 1 = 1
        BY <1>4, WrittenAppend
    <2>2. Writes(piece, 0, key, value)
        BY <2>1, PieceTyped
    <2>3. w = piece
        <3> HIDE DEF piece
        <3>1. QED
            BY <1>1, <2>1, ConcatEmptySeq
    <2> HIDE DEF key, value, piece, u
    <2>4. fw[0 + 1] = <<<<key, value>>>> /\ w[Len(w)] # Ampersand
        <3> DEFINE zero == 0
        <3>1. /\ zero \in Nat /\ Writes(w, zero, key, value)
              /\ w \in Seq(Byte) /\ key \in Seq(Byte) /\ value \in Seq(Byte)
              /\ NoDelimiter(key) /\ NoDelimiter(value) /\ PairsBy(w, fw)
            BY <1>1, <1>2, <1>3, <2>2, <2>3
        <3> HIDE DEF zero
        <3>2. fw[zero + 1] = <<<<key, value>>>> /\ w[Len(w)] # Ampersand
            BY <3>1, LastPair
        <3>3. QED
            BY <3>2 DEF zero
    <2>5. Len(w) # 0
        <3>1. Len(w) = 0 + Len(key) + 1 + Len(value)
            BY <2>2, <2>3 DEF Writes
        <3>2. Len(key) \in Nat /\ Len(value) \in Nat
            BY <1>1, LenProperties
        <3>3. QED
            BY <3>1, <3>2
    <2>6. Pairs(w) = <<Coded(pair)>>
        BY <1>3, <2>4 DEF Coded, key, value
    <2>7. QED
        BY <1>4, <2>4, <2>5, <2>6 DEF w
<1>5. CASE pairs # << >>
    <2> DEFINE n == Len(u)
    <2>1. Len(pairs) + 1 # 1
        <3>1. Len(pairs) \in Nat \ {0}
            BY <1>5, EmptySeq
        <3>2. QED
            BY <3>1
    <2>2. Writes(piece, 1, key, value) /\ piece[1] = Ampersand
        BY <2>1, PieceTyped
    <2>3. n # 0 /\ u[n] # Ampersand
        BY <1>5 DEF PairsOf
    <2> HIDE DEF key, value, piece, u
    <2>4. /\ n \in Nat /\ Len(key) \in Nat /\ Len(value) \in Nat
          /\ Len(piece) = 1 + Len(key) + 1 + Len(value)
        BY <1>1, <2>2, LenProperties DEF Writes
    <2>5. \A j \in 1 .. n : w[j] = u[j]
        <3>1. \A j \in 1 .. n : j \in 1 .. n + Len(piece) /\ j <= n
            BY <2>4
        <3>2. QED
            BY <1>2, <3>1
    <2>6. \A i \in 1 .. Len(piece) : w[n + i] = piece[i]
        <3> SUFFICES ASSUME NEW i \in 1 .. Len(piece)
                     PROVE  w[n + i] = piece[i]
            OBVIOUS
        <3> DEFINE j == n + i
        <3>1. j \in 1 .. n + Len(piece) /\ ~(j <= n) /\ j - n = i
            BY <2>4
        <3> HIDE DEF j, n
        <3>2. w[j] = piece[j - n]
            BY <1>2, <3>1 DEF n
        <3>3. QED
            BY <3>1, <3>2 DEF j
    <2>7. w[n + 1] = Ampersand /\ Len(w) > n
        <3>1. 1 \in 1 .. Len(piece)
            BY <2>4
        <3>2. Len(w) > n
            BY <1>2, <2>4
        <3>3. QED
            BY <2>2, <2>6, <3>1, <3>2
    <2>8. Writes(w, n + 1, key, value)
        <3>1. Len(w) = (n + 1) + Len(key) + 1 + Len(value)
            BY <1>2, <2>4
        <3>2. ASSUME NEW j \in 1 .. Len(key)
              PROVE  w[(n + 1) + j] = key[j]
            <4>1. 1 + j \in 1 .. Len(piece) /\ n + (1 + j) = (n + 1) + j
                BY <2>4
            <4>2. piece[1 + j] = key[j]
                BY <2>2 DEF Writes
            <4>3. w[n + (1 + j)] = piece[1 + j]
                BY <2>6, <4>1
            <4>4. QED
                BY <4>1, <4>2, <4>3
        <3>3. w[(n + 1) + Len(key) + 1] = Equals
            <4> DEFINE i == 1 + Len(key) + 1
            <4>1. i \in 1 .. Len(piece) /\ n + i = (n + 1) + Len(key) + 1
                BY <2>4
            <4>2. piece[i] = Equals
                BY <2>2 DEF Writes
            <4> HIDE DEF i
            <4>3. w[n + i] = piece[i]
                BY <2>6, <4>1
            <4>4. QED
                BY <4>1, <4>2, <4>3
        <3>4. ASSUME NEW j \in 1 .. Len(value)
              PROVE  w[(n + 1) + Len(key) + 1 + j] = value[j]
            <4> DEFINE i == 1 + Len(key) + 1 + j
            <4>1. i \in 1 .. Len(piece) /\ n + i = (n + 1) + Len(key) + 1 + j
                BY <2>4
            <4>2. piece[i] = value[j]
                BY <2>2 DEF Writes
            <4> HIDE DEF i
            <4>3. w[n + i] = piece[i]
                BY <2>6, <4>1
            <4>4. QED
                BY <4>1, <4>2, <4>3
        <3>5. QED
            BY <3>1, <3>2, <3>3, <3>4 DEF Writes
    <2>9. n + 1 \in Nat /\ (n + 1) + 1 = n + 2 /\ 1 \in 1 .. n
        BY <2>3, <2>4
    <2>10. fw[(n + 1) + 1] = <<<<key, value>>>> /\ w[Len(w)] # Ampersand
        <3> DEFINE at == n + 1
        <3>1. /\ at \in Nat /\ Writes(w, at, key, value)
              /\ w \in Seq(Byte) /\ key \in Seq(Byte) /\ value \in Seq(Byte)
              /\ NoDelimiter(key) /\ NoDelimiter(value) /\ PairsBy(w, fw)
            BY <1>1, <1>2, <1>3, <2>8, <2>9
        <3> HIDE DEF at, n
        <3>2. fw[at + 1] = <<<<key, value>>>> /\ w[Len(w)] # Ampersand
            BY <3>1, LastPair
        <3>3. QED
            BY <3>2 DEF at
    <2>11. PICK fu : PairsBy(u, fu) /\ Pairs(u) = fu[1]
        BY <1>1, PairsLoop
    <2>12. fw[1] = fu[1] \o fw[n + 2]
        <3>1. /\ GoesOn(w, u) /\ u \in Seq(Byte) /\ w \in Seq(Byte) /\ PairsBy(u, fu) /\ PairsBy(w, fw)
            BY <1>1, <1>2, <1>3, <2>3, <2>5, <2>7, <2>11 DEF GoesOn
        <3> HIDE DEF n
        <3>2. Precedes(u, fu, fw)
            BY <3>1, PairsBefore
        <3>3. QED
            BY <2>9, <3>2 DEF n, Precedes
    <2>13. Pairs(w) = Pairs(u) \o <<Coded(pair)>>
        <3>1. fw[n + 2] = <<Coded(pair)>>
            BY <2>9, <2>10 DEF Coded, key, value
        <3>2. QED
            BY <1>3, <2>11, <2>12, <3>1
    <2>14. Len(w) # 0
        BY <1>2, <2>4
    <2>15. QED
        BY <1>5, <2>10, <2>13, <2>14 DEF w, u
<1>6. QED
    BY <1>4, <1>5

\* Every list of pairs is taken apart where it was put together.
LEMMA PairsWritten ==
    ASSUME NEW pairs \in Seq(BytePair)
    PROVE  PairsOf(pairs)
<1> DEFINE good == {n \in Nat : \A x \in Seq(BytePair) : Len(x) = n => PairsOf(x)}
<1>1. PairsOf(<< >>)
    <2> DEFINE none == << >>
    <2>1. none \in Seq(Byte) /\ none \in Seq(BytePair) /\ Len(none) = 0
        BY EmptySeq
    <2>2. Written(none) = none
        BY WrittenAppend
    <2> HIDE DEF none
    <2>3. Pairs(none) = << >>
        <3>1. PICK from : PairsBy(none, from) /\ Pairs(none) = from[1]
            BY <2>1, PairsLoop
        <3>2. 1 \in 1 .. Len(none) + 1 /\ 1 = Len(none) + 1
            BY <2>1
        <3>3. from[1] = << >>
            BY <2>1, <3>1, <3>2, PairsStep
        <3>4. QED
            BY <3>1, <3>3
    <2>4. PairsOf(none)
        <3>1. Pairs(Written(none)) = none
            BY <2>2, <2>3 DEF none
        <3>2. none = << >>
            BY DEF none
        <3>3. \A i \in 1 .. Len(none) : FALSE
            BY <2>1
        <3>4. QED
            BY <2>1, <3>1, <3>2, <3>3 DEF PairsOf
    <2>5. QED
        BY <2>4 DEF none
<1>2. ASSUME NEW x \in Seq(BytePair), NEW c \in BytePair, PairsOf(x)
      PROVE  PairsOf(Append(x, c))
    <2> DEFINE more == Append(x, c)
               n == Len(x)
               was == Pairs(Written(x))
               is == Pairs(Written(more))
               one == <<Coded(c)>>
    <2>1. /\ n \in Nat /\ Len(more) = n + 1 /\ more[n + 1] = c
          /\ \A i \in 1 .. n : more[i] = x[i]
        BY AppendProperties, LenProperties
    <2>2. /\ was \in Seq(BytePair) /\ Len(was) = n
          /\ \A i \in 1 .. n : was[i] = Coded(x[i])
        BY <1>2 DEF PairsOf
    <2>3. /\ is = IF x = << >> THEN one ELSE was \o one
          /\ Len(Written(more)) # 0 /\ Written(more)[Len(Written(more))] # Ampersand
        BY <1>2, PairsAppend
    <2>4. one \in Seq(BytePair) /\ Len(one) = 1 /\ one[1] = Coded(c)
        <3>1. Coded(c) \in BytePair
            <4> DEFINE key == Encode(c[1])
                       value == Encode(c[2])
            <4>1. key \in Seq(Byte) /\ value \in Seq(Byte)
                BY DecodeEncode DEF BytePair
            <4>2. Coded(c) = <<key, value>>
                BY DEF Coded
            <4> HIDE DEF key, value
            <4>3. QED
                BY <4>1, <4>2 DEF BytePair
        <3>2. QED
            BY <3>1
    <2> HIDE DEF more, was, one, is, n
    <2>5. is = was \o one
        <3>1. CASE x = << >>
            <4>1. was = << >>
                <5>1. n = 0
                    BY <3>1, EmptySeq DEF n
                <5>2. QED
                    BY <2>2, <5>1, EmptySeq
            <4>2. QED
                BY <2>3, <2>4, <3>1, <4>1, ConcatEmptySeq
        <3>2. CASE x # << >>
            BY <2>3, <3>2
        <3>3. QED
            BY <3>1, <3>2
    <2>6. /\ is \in Seq(BytePair) /\ Len(is) = Len(was) + Len(one)
          /\ \A i \in 1 .. Len(was) + Len(one) :
                is[i] = IF i <= Len(was) THEN was[i] ELSE one[i - Len(was)]
        <3>1. was \in Seq(BytePair) /\ one \in Seq(BytePair)
            BY <2>2, <2>4
        <3>2. QED
            BY <2>5, <3>1, ConcatProperties
    <2>7. ASSUME NEW i \in 1 .. n + 1
          PROVE  is[i] = Coded(more[i])
        <3>1. CASE i \in 1 .. n
            <4>1. i <= n /\ i \in 1 .. n + 1
                BY <2>1, <3>1
            <4>2. QED
                BY <2>1, <2>2, <2>4, <2>6, <3>1, <4>1
        <3>2. CASE i = n + 1
            <4>1. ~(i <= n) /\ i - n = 1
                BY <2>1, <3>2
            <4>2. QED
                BY <2>1, <2>2, <2>4, <2>6, <3>2, <4>1
        <3>3. QED
            BY <2>1, <3>1, <3>2
    <2>8. Len(is) = Len(more)
        BY <2>1, <2>2, <2>4, <2>6
    <2>9. is = Pairs(Written(more))
        BY DEF is
    <2>10. PairsOf(more)
        BY <2>1, <2>3, <2>6, <2>7, <2>8, <2>9 DEF PairsOf
    <2>11. QED
        BY <2>10 DEF more
<1>3. 0 \in good
    <2>1. \A x \in Seq(BytePair) : Len(x) = 0 => x = << >>
        BY EmptySeq
    <2>2. QED
        BY <1>1, <2>1
<1>4. ASSUME NEW n \in good
      PROVE  n + 1 \in good
    <2> SUFFICES ASSUME NEW x \in Seq(BytePair), Len(x) = n + 1
                 PROVE  PairsOf(x)
        OBVIOUS
    <2>1. x # << >>
        BY EmptySeq
    <2>2. PICK z \in Seq(BytePair), c \in BytePair : x = Append(z, c)
        BY <2>1, SequenceEmptyOrAppend
    <2>3. Len(z) = n
        <3>1. Len(z) \in Nat /\ Len(Append(z, c)) = Len(z) + 1
            BY AppendProperties, LenProperties
        <3>2. QED
            BY <2>2, <3>1
    <2>4. QED
        BY <1>2, <2>2, <2>3
<1>5. Len(pairs) \in good
    <2>1. good \in SUBSET Nat /\ Len(pairs) \in Nat
        BY LenProperties
    <2> HIDE DEF good
    <2>2. QED
        BY <1>3, <1>4, <2>1, SetInduction
<1>6. QED
    BY <1>5

\* A query of percent-encoded keys and values reads back as the same pairs
\* (uri.cpp:50-90), for all lists of pairs of strings of bytes.
THEOREM QueryDecodes ==
    ASSUME NEW pairs \in Seq(BytePair)
    PROVE  Query(Written(pairs)) = {pairs}
<1> DEFINE coded == Pairs(Written(pairs))
           n == Len(pairs)
<1>1. /\ DOMAIN coded = 1 .. n /\ DOMAIN pairs = 1 .. n
      /\ \A i \in 1 .. n : coded[i] = Coded(pairs[i]) /\ pairs[i] \in BytePair
    <2>1. coded \in Seq(BytePair) /\ Len(coded) = n /\ \A i \in 1 .. n : coded[i] = Coded(pairs[i])
        BY PairsWritten DEF PairsOf
    <2> HIDE DEF coded
    <2>2. QED
        BY <2>1, ElementOfSeq, LenProperties
<1> HIDE DEF coded, n
<1>2. \A i \in 1 .. n : /\ Decode(coded[i][1]) = {pairs[i][1]}
                        /\ Decode(coded[i][2]) = {pairs[i][2]}
    BY <1>1, DecodeEncode DEF BytePair, Coded
<1>3. ~\E i \in DOMAIN coded : {} \in {Decode(coded[i][1]), Decode(coded[i][2])}
    BY <1>1, <1>2
<1>4. \A i \in 1 .. n : /\ (CHOOSE k \in Decode(coded[i][1]) : TRUE) = pairs[i][1]
                        /\ (CHOOSE v \in Decode(coded[i][2]) : TRUE) = pairs[i][2]
    <2>1. \A S, x : S = {x} => (CHOOSE k \in S : TRUE) = x
        OBVIOUS
    <2>2. QED
        BY <1>2, <2>1
<1>5. \A i \in 1 .. n : <<pairs[i][1], pairs[i][2]>> = pairs[i]
    BY <1>1 DEF BytePair
<1>6. [i \in DOMAIN coded |->
        <<CHOOSE k \in Decode(coded[i][1]) : TRUE, CHOOSE v \in Decode(coded[i][2]) : TRUE>>]
            = [i \in 1 .. n |-> pairs[i]]
    BY <1>1, <1>4, <1>5
<1>7. [i \in 1 .. n |-> pairs[i]] = pairs
    BY <1>1, LenProperties DEF n
<1>8. QED
    BY <1>3, <1>6, <1>7 DEF Query, DecodedPairs, coded

\* query_param finds the value that was written first.
LEMMA FirstValueFound ==
    ASSUME NEW pairs \in Seq(BytePair), NEW i \in DOMAIN pairs
    PROVE  \/ QueryParam(pairs, pairs[i][1]) = {pairs[i][2]}
           \/ \E j \in 1 .. i - 1 : pairs[j][1] = pairs[i][1]
<1> DEFINE found == {j \in DOMAIN pairs : pairs[j][1] = pairs[i][1]}
<1>1. DOMAIN pairs = 1 .. Len(pairs) /\ Len(pairs) \in Nat
    BY LenProperties
<1>2. found \in SUBSET Nat /\ found # {} /\ i \in found
    BY <1>1
<1>3. QueryParam(pairs, pairs[i][1]) = {pairs[Min(found)][2]}
    BY <1>2 DEF QueryParam
<1> DEFINE m == Min(found)
<1>4. m \in found /\ m <= i
    <2> HIDE DEF found
    <2>1. QED
        BY <1>2, LeastPosition
<1> HIDE DEF m
<1>5. CASE m = i
    BY <1>3, <1>5 DEF m
<1>6. CASE m # i
    <2>1. m \in 1 .. i - 1
        BY <1>1, <1>4, <1>6
    <2>2. QED
        BY <1>4, <2>1
<1>7. QED
    BY <1>5, <1>6

-----------------------------------------------------------------------------
(* parse: the path.                                                        *)

\* The loop over the segments, up to the n-th.
LEMMA KeptLoop ==
    ASSUME NEW segs \in Seq(TextSegment), segs # << >>
    PROVE  \E kept :
            /\ kept = [n \in 0 .. Len(segs) - 1 |->
                        IF n = 0 THEN << >>
                        ELSE IF segs[n] = Empty THEN kept[n - 1]
                             ELSE Append(kept[n - 1], segs[n])]
            /\ Kept(segs) = Append(kept[Len(segs) - 1], segs[Len(segs)])
<1> DEFINE D == 0 .. Len(segs) - 1
           T == Seq(TextSegment)
           step(g, n) ==
                IF n = 0 THEN << >>
                ELSE IF segs[n] = Empty THEN g[n - 1] ELSE Append(g[n - 1], segs[n])
           rank == [n \in D |-> n]
           rule == [n \in D |-> [g \in [D -> T] |-> step(g, n)]]
<1>1. Len(segs) \in Nat \ {0} /\ \A n \in 1 .. Len(segs) : segs[n] \in TextSegment
    BY EmptySeq, ElementOfSeq, LenProperties
<1>2. ASSUME NEW n \in D, NEW g \in [D -> T]
      PROVE  step(g, n) \in T
    <2>1. CASE n = 0
        BY <2>1
    <2>2. CASE n # 0
        <3>1. n - 1 \in D /\ segs[n] \in TextSegment
            BY <1>1, <2>2
        <3>2. g[n - 1] \in T
            BY <3>1
        <3>3. Append(g[n - 1], segs[n]) \in T
            BY <3>1, <3>2, AppendProperties
        <3>4. QED
            BY <2>2, <3>2, <3>3
    <2>3. QED
        BY <2>1, <2>2
<1>3. ASSUME NEW n \in D, NEW g \in [D -> T], NEW h \in [D -> T],
             \A k \in D : rank[k] < rank[n] => g[k] = h[k]
      PROVE  step(g, n) = step(h, n)
    <2>1. n # 0 => n - 1 \in D /\ rank[n - 1] < rank[n]
        BY <1>1
    <2>2. n # 0 => g[n - 1] = h[n - 1]
        BY <1>3, <2>1
    <2>3. QED
        BY <2>2
<1>4. /\ rank \in [D -> Nat] /\ \A n \in D : rank[n] < Len(segs)
      /\ \A n \in D, g \in [D -> T] : rule[n][g] = step(g, n)
      /\ T # {} /\ Len(segs) \in Nat
    BY <1>1
<1>5. rule \in [D -> [[D -> T] -> T]]
    <2> HIDE DEF step, D, T
    <2>1. QED
        BY <1>2
<1> HIDE DEF rank, rule, step, D, T
<1>6. PICK f \in [D -> T] : \A n \in D : f[n] = rule[n][f]
    <2>1. \A n \in D, g \in [D -> T], h \in [D -> T] :
            (\A k \in D : rank[k] < rank[n] => g[k] = h[k]) => rule[n][g] = rule[n][h]
        BY <1>3, <1>4
    <2>2. Descends(D, T, rank, Len(segs), rule)
        BY <1>4, <1>5, <2>1 DEF Descends
    <2>3. QED
        BY <2>2, RecursionDefines
<1>7. f = [n \in D |-> step(f, n)]
    BY <1>4, <1>6
<1> DEFINE kept == CHOOSE k : k = [n \in D |-> step(k, n)]
<1>8. kept = [n \in D |-> step(kept, n)]
    BY <1>7
<1>9. Kept(segs) = Append(kept[Len(segs) - 1], segs[Len(segs)])
    BY DEF Kept, D, step
<1>10. QED
    BY <1>8, <1>9 DEF D, step

\* What is kept of the segments of a text: some of them, and empty only the
\* last.
LEMMA KeptIsNotEmpty ==
    ASSUME NEW segs \in Seq(TextSegment), segs # << >>
    PROVE  LET seen == {segs[i] : i \in 1 .. Len(segs)}
           IN  /\ Kept(segs) \in Seq(seen) /\ Kept(segs) # << >>
               /\ \A i \in 1 .. Len(Kept(segs)) - 1 : Kept(segs)[i] # Empty
<1> DEFINE seen == {segs[i] : i \in 1 .. Len(segs)}
           full == seen \ {Empty}
           last == Len(segs)
<1>1. PICK kept :
        /\ kept = [n \in 0 .. last - 1 |->
                    IF n = 0 THEN << >>
                    ELSE IF segs[n] = Empty THEN kept[n - 1]
                         ELSE Append(kept[n - 1], segs[n])]
        /\ Kept(segs) = Append(kept[last - 1], segs[last])
    BY KeptLoop
<1>2. last \in Nat \ {0} /\ \A n \in 1 .. last : segs[n] \in seen
    BY EmptySeq, LenProperties
<1> DEFINE S == {n \in Nat : n <= last - 1 => kept[n] \in Seq(full)}
<1> HIDE DEF seen, last
<1>3. 0 \in S
    <2>1. kept[0] = << >>
        BY <1>1, <1>2
    <2>2. QED
        BY <2>1, EmptySeq
<1>4. ASSUME NEW n \in S
      PROVE  n + 1 \in S
    <2> SUFFICES ASSUME n + 1 <= last - 1
                 PROVE  kept[n + 1] \in Seq(full)
        OBVIOUS
    <2>1. n \in Nat /\ n + 1 \in 0 .. last - 1 /\ n + 1 \in 1 .. last /\ n + 1 # 0
        BY <1>2
    <2>2. kept[n] \in Seq(full)
        BY <1>2, <2>1
    <2>3. kept[n + 1] = IF segs[n + 1] = Empty THEN kept[n] ELSE Append(kept[n], segs[n + 1])
        <3>1. (n + 1) - 1 = n
            BY <2>1
        <3>2. QED
            BY <1>1, <2>1, <3>1
    <2>4. segs[n + 1] # Empty => segs[n + 1] \in full
        BY <1>2, <2>1
    <2>5. QED
        BY <2>2, <2>3, <2>4, AppendProperties
<1>5. kept[last - 1] \in Seq(full)
    <2> HIDE DEF S
    <2>1. S \in SUBSET Nat
        BY DEF S
    <2>2. last - 1 \in S /\ last - 1 \in Nat
        BY <1>2, <1>3, <1>4, <2>1, SetInduction
    <2>3. QED
        BY <2>2 DEF S
<1> DEFINE rest == kept[last - 1]
<1>6. rest \in Seq(full) /\ full \subseteq seen
    BY <1>5
<1> HIDE DEF rest, full
<1>7. rest \in Seq(seen) /\ segs[last] \in seen
    BY <1>2, <1>6, SeqMonotonic
<1>8. /\ Kept(segs) \in Seq(seen) /\ Kept(segs) # << >> /\ Len(Kept(segs)) = Len(rest) + 1
      /\ \A i \in 1 .. Len(rest) : Kept(segs)[i] = rest[i]
    <2> DEFINE one == segs[last]
    <2>1. Kept(segs) = Append(rest, one)
        BY <1>1 DEF rest
    <2>2. one \in seen
        BY <1>7
    <2> HIDE DEF one
    <2>3. QED
        BY <1>7, <2>1, <2>2, AppendProperties
<1>9. ASSUME NEW i \in 1 .. Len(Kept(segs)) - 1
      PROVE  Kept(segs)[i] # Empty
    <2>1. i \in 1 .. Len(rest)
        BY <1>6, <1>8, LenProperties
    <2>2. rest[i] \in full
        BY <1>6, <2>1, ElementOfSeq
    <2>3. QED
        BY <1>8, <2>1, <2>2 DEF full
<1>10. QED
    BY <1>8, <1>9 DEF seen

\* parse makes a path of a text that it does not refuse, and only the last
\* segment of a path can be empty (lines 10-46 of uri.cpp).
THEOREM ParseMakesPaths ==
    ASSUME NEW text \in UriText
    PROVE  /\ Parse(text) \in Seq(Segment)
           /\ \A i \in DOMAIN Parse(text) : i < Len(Parse(text)) => Parse(text)[i] # Empty
<1>1. CASE Parse(text) = Invalid
    BY <1>1, EmptySeq DEF Invalid
<1>2. CASE Parse(text) # Invalid
    <2> DEFINE segs == text.segs
               kept == Kept(segs)
               seen == {segs[i] : i \in 1 .. Len(segs)}
    <2>1. segs \in Seq(TextSegment)
        BY DEF UriText
    <2>2. /\ segs # << >> /\ \A i \in DOMAIN segs : segs[i] # Bad
          /\ Parse(text) = [i \in DOMAIN kept |-> Decoded(kept[i])]
        BY <1>2 DEF Parse
    <2> HIDE DEF segs
    <2>3. seen \subseteq TextSegment \ {Bad}
        <3>1. DOMAIN segs = 1 .. Len(segs) /\ \A i \in 1 .. Len(segs) : segs[i] \in TextSegment
            BY <2>1, LenProperties, ElementOfSeq
        <3>2. QED
            BY <2>2, <3>1
    <2>4. kept \in Seq(seen) /\ \A i \in 1 .. Len(kept) - 1 : kept[i] # Empty
        BY <2>1, <2>2, KeptIsNotEmpty
    <2> HIDE DEF kept, seen
    <2>5. /\ DOMAIN kept = 1 .. Len(kept) /\ Len(kept) \in Nat
          /\ \A i \in 1 .. Len(kept) : kept[i] \in TextSegment \ {Bad}
        BY <2>3, <2>4, LenProperties, ElementOfSeq
    <2>6. ASSUME NEW seg \in TextSegment \ {Bad}
          PROVE  Decoded(seg) \in Segment /\ (Decoded(seg) = Empty => seg = Empty)
        <3>1. Wild.kind = "wild" /\ Empty.kind = "empty"
            <4>1. Wild.kind = "wild"
                BY DEF Wild, Seg
            <4>2. Empty.kind = "empty"
                BY DEF Empty, Seg
            <4>3. QED
                BY <4>1, <4>2
        <3>2. Hidden.kind = "hidden" /\ Wild # Empty
            BY <3>1 DEF Hidden, Seg
        <3>3. CASE seg \in [kind : {"lit", "param"}, name : STRING]
            BY <3>3 DEF Decoded, Segment
        <3>4. CASE seg \in {Wild, Empty, Hidden}
            BY <3>1, <3>2, <3>4 DEF Decoded, Segment
        <3>5. QED
            BY <3>3, <3>4 DEF TextSegment, Segment
    <2> DEFINE n == Len(kept)
    <2>7. /\ Parse(text) = [i \in 1 .. n |-> Decoded(kept[i])] /\ n \in Nat
          /\ \A i \in 1 .. n : Decoded(kept[i]) \in Segment
        BY <2>2, <2>5, <2>6
    <2>8. Parse(text) \in Seq(Segment) /\ Len(Parse(text)) = n
        <3> HIDE DEF n
        <3>1. Parse(text) \in [1 .. n -> Segment]
            BY <2>7
        <3>2. Parse(text) \in Seq(Segment)
            BY <2>7, <3>1, SeqDef
        <3>3. Len(Parse(text)) \in Nat /\ DOMAIN Parse(text) = 1 .. Len(Parse(text))
            BY <3>2, LenProperties
        <3>4. 1 .. Len(Parse(text)) = 1 .. n
            BY <3>1, <3>3
        <3>5. QED
            BY <2>7, <3>2, <3>3, <3>4
    <2>9. ASSUME NEW i \in DOMAIN Parse(text), i < Len(Parse(text))
          PROVE  Parse(text)[i] # Empty
        <3>1. i \in 1 .. n - 1 /\ i \in 1 .. n
            BY <2>7, <2>8, <2>9
        <3>2. QED
            BY <2>4, <2>5, <2>6, <2>7, <3>1
    <2>10. QED
        BY <2>8, <2>9
<1>3. QED
    BY <1>1, <1>2

-----------------------------------------------------------------------------
(* match.                                                                  *)

\* match does not tell its two paths apart (the code compares position by
\* position and asks each question of both sides).
THEOREM MatchSymmetric ==
    ASSUME NEW p \in Seq(Segment), NEW q \in Seq(Segment)
    PROVE  Match(p, q) = Match(q, p)
<1>1. Shorter(p, q) = Shorter(q, p)
    BY LenProperties DEF Shorter
<1>2. \A a, b : Settles(a, b) <=> Settles(b, a)
    BY DEF Settles
<1>3. Settled(p, q) = Settled(q, p)
    BY <1>1, <1>2 DEF Settled
<1>4. Verdict(p, q, Settled(p, q)) = Verdict(q, p, Settled(q, p))
    BY <1>3 DEF Verdict
<1>5. Params(p, q) = Params(q, p)
    BY DEF Params, HasParam
<1>6. QED
    BY <1>3, <1>4, <1>5 DEF Match

\* A position leaves the matter open exactly if the pattern's segment is no
\* "*" and fits the text there.
LEMMA OpenIsFit ==
    ASSUME NEW a \in Segment, NEW b \in Segment, b.kind \in {"lit", "empty"}
    PROVE  /\ ~Settles(a, b) <=> a # Wild /\ Fits(a, b)
           /\ b # Wild /\ b.kind # "param"
<1>0. Wild.kind = "wild" /\ Empty.kind = "empty"
    BY DEF Wild, Empty, Seg
<1>1. b # Wild /\ b.kind # "param" /\ (a.kind = "param" => a # Empty)
    BY <1>0
<1>2. Fits(a, b) <=> a = b \/ (a.kind = "param" /\ b # Empty)
    BY DEF Fits
<1>3. Settles(a, b) <=>
        \/ a = Wild
        \/ a # b /\ (a = Empty \/ b = Empty \/ a.kind # "param")
    BY <1>1 DEF Settles
<1>4. QED
    BY <1>1, <1>2, <1>3

\* The stem of a pattern is what stands before its first "*".
LEMMA StemBeforeStar ==
    ASSUME NEW p \in Seq(Segment), Stars(p) # {}
    PROVE  /\ Min(Stars(p)) \in 1 .. Len(p) /\ p[Min(Stars(p))] = Wild
           /\ \A i \in 1 .. Len(p) : i < Min(Stars(p)) => p[i] # Wild
           /\ Len(Stem(p)) = Min(Stars(p)) - 1
           /\ DOMAIN Stem(p) = 1 .. Min(Stars(p)) - 1
           /\ \A i \in 1 .. Min(Stars(p)) - 1 : Stem(p)[i] = p[i]
<1> DEFINE w == Min(Stars(p))
<1>1. DOMAIN p = 1 .. Len(p) /\ Len(p) \in Nat /\ \A i \in 1 .. Len(p) : p[i] \in Segment
    BY LenProperties, ElementOfSeq
<1>2. w \in Stars(p) /\ \A i \in Stars(p) : w <= i
    <2>1. Stars(p) \in SUBSET Nat
        BY <1>1 DEF Stars
    <2>2. QED
        BY <2>1, LeastPosition
<1>3. w \in 1 .. Len(p) /\ p[w] = Wild /\ \A i \in 1 .. Len(p) : i < w => p[i] # Wild
    <2> HIDE DEF w
    <2>1. \A i : i \in Stars(p) <=> i \in 1 .. Len(p) /\ p[i] = Wild
        BY <1>1 DEF Stars
    <2>2. QED
        BY <1>1, <1>2, <2>1
<1>4. Stem(p) = SubSeq(p, 1, w - 1)
    BY DEF Stem
<1> HIDE DEF w
<1>5. /\ SubSeq(p, 1, w - 1) \in Seq(Segment) /\ Len(SubSeq(p, 1, w - 1)) = w - 1
      /\ \A i \in 1 .. w - 1 : SubSeq(p, 1, w - 1)[i] = p[i]
    BY <1>1, <1>3, SubSeqProperties
<1>6. DOMAIN Stem(p) = 1 .. w - 1
    BY <1>4, <1>5, LenProperties
<1>7. QED
    BY <1>3, <1>4, <1>5, <1>6 DEF w

\* The pattern says yes as long as it says nothing else.
LEMMA OpenToTheEnd ==
    ASSUME NEW p \in Seq(Segment), NEW r \in Seq(Segment), IsPlain(r), Settled(p, r) = {}
    PROVE  Match(p, r) = Meaning(p, r)
<1>1. /\ DOMAIN p = 1 .. Len(p) /\ Len(p) \in Nat /\ \A i \in 1 .. Len(p) : p[i] \in Segment
      /\ DOMAIN r = 1 .. Len(r) /\ Len(r) \in Nat /\ \A i \in 1 .. Len(r) : r[i] \in Segment
      /\ \A i \in 1 .. Len(r) : r[i].kind \in {"lit", "empty"}
    BY LenProperties, ElementOfSeq DEF IsPlain
<1>2. \A i \in 1 .. Len(p) : i <= Len(r) => p[i] # Wild /\ Fits(p[i], r[i])
    <2> SUFFICES ASSUME NEW i \in 1 .. Len(p), i <= Len(r)
                 PROVE  p[i] # Wild /\ Fits(p[i], r[i])
        OBVIOUS
    <2>1. ~Settles(p[i], r[i])
        BY <1>1 DEF Settled, Shorter
    <2>2. i \in 1 .. Len(r)
        BY <1>1
    <2>3. QED
        BY <1>1, <2>1, <2>2, OpenIsFit
<1>3. \A i \in 1 .. Len(r) : r[i] # Wild /\ r[i].kind # "param"
    BY <1>1, OpenIsFit
<1>4. CASE Len(p) = Len(r)
    <2>1. Stars(p) = {}
        BY <1>1, <1>2, <1>4 DEF Stars
    <2>2. Covers(p, r)
        BY <1>1, <1>2, <1>4 DEF Covers
    <2>3. Match(p, r) = Params(p, r) /\ ~HasParam(r, p)
        BY <1>1, <1>3, <1>4 DEF Match, HasParam, Shorter
    <2>4. CASE p = r
        BY <2>1, <2>3, <2>4 DEF Params, Meaning
    <2>5. CASE p # r
        <3>1. PICK i \in 1 .. Len(p) : p[i] # r[i]
            BY <1>1, <1>4, <2>5, SeqEqual
        <3>2. p[i].kind = "param"
            BY <1>1, <1>2, <1>4, <3>1 DEF Fits
        <3>3. HasParam(p, r)
            BY <1>1, <1>4, <3>1, <3>2 DEF HasParam, Shorter
        <3>4. QED
            BY <1>4, <2>1, <2>2, <2>3, <2>5, <3>3 DEF Params, Meaning
    <2>6. QED
        BY <2>4, <2>5
<1>5. CASE Len(p) # Len(r)
    <2>1. Match(p, r) = IF WildBase(p, r) THEN "WILD" ELSE "NO"
        <3>1. Len(r) = Len(p) + 1 => r[Len(r)] # Wild
            BY <1>1, <1>3
        <3>2. ~WildBase(r, p)
            BY <3>1 DEF WildBase
        <3>3. QED
            BY <1>5, <3>2 DEF Match
    <2>2. CASE Stars(p) = {}
        <3>1. \A i \in 1 .. Len(p) : p[i] # Wild
            BY <1>1, <2>2 DEF Stars
        <3>2. Len(p) = Len(r) + 1 => p[Len(p)] # Wild
            BY <1>1, <3>1
        <3>3. ~WildBase(p, r)
            BY <3>2 DEF WildBase
        <3>4. QED
            BY <1>5, <2>1, <2>2, <3>3 DEF Meaning
    <2>3. CASE Stars(p) # {}
        <3> DEFINE w == Min(Stars(p))
        <3>1. /\ w \in 1 .. Len(p) /\ p[w] = Wild
              /\ \A i \in 1 .. Len(p) : i < w => p[i] # Wild
              /\ Len(Stem(p)) = w - 1 /\ DOMAIN Stem(p) = 1 .. w - 1
              /\ \A i \in 1 .. w - 1 : Stem(p)[i] = p[i]
            BY <2>3, StemBeforeStar
        <3> HIDE DEF w
        <3>2. w > Len(r)
            BY <1>1, <1>2, <3>1
        <3>3. Covers(Stem(p), r) /\ RestTaken(p, r) <=> w = Len(r) + 1 /\ w = Len(p)
            <4>1. ASSUME w = Len(r) + 1, NEW i \in 1 .. w - 1
                  PROVE  Fits(Stem(p)[i], r[i])
                BY <1>1, <1>2, <3>1, <4>1
            <4>2. Covers(Stem(p), r) <=> w = Len(r) + 1
                BY <1>1, <3>1, <3>2, <4>1 DEF Covers
            <4>3. RestTaken(p, r) <=> w = Len(p)
                <5>1. RestTaken(p, r) <=> Len(r) > w - 1 \/ Len(p) = (w - 1) + 1
                    BY <3>1 DEF RestTaken
                <5>2. w \in Nat /\ Len(r) \in Nat /\ Len(p) \in Nat
                    BY <1>1, <3>1
                <5>3. QED
                    BY <3>2, <5>1, <5>2
            <4>4. QED
                BY <4>2, <4>3
        <3>4. WildBase(p, r) <=> w = Len(r) + 1 /\ w = Len(p)
            <4>1. ASSUME Len(p) = Len(r) + 1
                  PROVE  p[Len(p)] = Wild <=> w = Len(p)
                BY <1>1, <3>1, <3>2, <4>1
            <4>2. QED
                BY <4>1 DEF WildBase
        <3>5. QED
            BY <2>1, <2>3, <3>3, <3>4 DEF Meaning
    <2>4. QED
        BY <2>2, <2>3
<1>6. QED
    BY <1>4, <1>5

\* A position that settles the matter settles it as the pattern means it.
LEMMA SettledAsMeant ==
    ASSUME NEW p \in Seq(Segment), NEW r \in Seq(Segment), IsPlain(r), Settled(p, r) # {}
    PROVE  Match(p, r) = Meaning(p, r)
<1> DEFINE s == Min(Settled(p, r))
           w == Min(Stars(p))
<1>1. /\ DOMAIN p = 1 .. Len(p) /\ Len(p) \in Nat /\ \A i \in 1 .. Len(p) : p[i] \in Segment
      /\ DOMAIN r = 1 .. Len(r) /\ Len(r) \in Nat /\ \A i \in 1 .. Len(r) : r[i] \in Segment
      /\ \A i \in 1 .. Len(r) : r[i].kind \in {"lit", "empty"}
    BY LenProperties, ElementOfSeq DEF IsPlain
<1>2. /\ s \in 1 .. Len(p) /\ s \in 1 .. Len(r) /\ Settles(p[s], r[s])
      /\ \A i \in 1 .. Len(p) : i < s => ~Settles(p[i], r[i])
    <2>1. Settled(p, r) \in SUBSET Nat
        BY <1>1 DEF Settled, Shorter
    <2>2. s \in Settled(p, r) /\ \A i \in Settled(p, r) : s <= i
        BY <2>1, LeastPosition
    <2> HIDE DEF s
    <2>3. QED
        BY <1>1, <2>2 DEF Settled, Shorter
<1>3. Match(p, r) = IF Wild \in {p[s], r[s]} THEN "WILD" ELSE "NO"
    BY DEF Match, Verdict
<1> HIDE DEF s
<1>4. \A i \in 1 .. Len(p) : i < s => p[i] # Wild /\ Fits(p[i], r[i])
    <2> SUFFICES ASSUME NEW i \in 1 .. Len(p), i < s
                 PROVE  p[i] # Wild /\ Fits(p[i], r[i])
        OBVIOUS
    <2>1. i \in 1 .. Len(r)
        BY <1>1, <1>2
    <2>2. QED
        BY <1>1, <1>2, <2>1, OpenIsFit
<1>5. r[s] # Wild
    BY <1>1, <1>2, OpenIsFit
<1>6. CASE p[s] = Wild
    <2>1. Stars(p) # {}
        BY <1>1, <1>2, <1>6 DEF Stars
    <2>2. /\ w \in 1 .. Len(p) /\ p[w] = Wild
          /\ \A i \in 1 .. Len(p) : i < w => p[i] # Wild
          /\ Len(Stem(p)) = w - 1 /\ DOMAIN Stem(p) = 1 .. w - 1
          /\ \A i \in 1 .. w - 1 : Stem(p)[i] = p[i]
        BY <2>1, StemBeforeStar
    <2> HIDE DEF w
    <2>3. w = s
        BY <1>1, <1>2, <1>4, <1>6, <2>2
    <2>4. Covers(Stem(p), r) /\ RestTaken(p, r)
        <3>1. ASSUME NEW i \in 1 .. w - 1
              PROVE  Fits(Stem(p)[i], r[i])
            BY <1>1, <1>4, <2>2, <2>3
        <3>2. w - 1 <= Len(r) /\ Len(r) > w - 1
            BY <1>1, <1>2, <2>3
        <3>3. QED
            BY <2>2, <3>1, <3>2 DEF Covers, RestTaken
    <2>5. QED
        BY <1>3, <1>6, <2>1, <2>4 DEF Meaning
<1>7. CASE p[s] # Wild
    <2>1. ~Fits(p[s], r[s])
        BY <1>1, <1>2, <1>7, OpenIsFit
    <2>2. CASE Stars(p) = {}
        <3>1. ~Covers(p, r)
            BY <1>1, <1>2, <2>1 DEF Covers
        <3>2. p # r
            BY <2>1 DEF Fits
        <3>3. QED
            BY <1>3, <1>5, <1>7, <2>2, <3>1, <3>2 DEF Meaning
    <2>3. CASE Stars(p) # {}
        <3>1. /\ w \in 1 .. Len(p) /\ p[w] = Wild
              /\ \A i \in 1 .. Len(p) : i < w => p[i] # Wild
              /\ Len(Stem(p)) = w - 1 /\ DOMAIN Stem(p) = 1 .. w - 1
              /\ \A i \in 1 .. w - 1 : Stem(p)[i] = p[i]
            BY <2>3, StemBeforeStar
        <3> HIDE DEF w
        <3>2. s < w
            BY <1>1, <1>2, <1>4, <1>7, <3>1
        <3>3. ~Covers(Stem(p), r)
            BY <1>1, <1>2, <2>1, <3>1, <3>2 DEF Covers
        <3>4. QED
            BY <1>3, <1>5, <1>7, <2>3, <3>3 DEF Meaning
    <2>4. QED
        BY <2>2, <2>3
<1>8. QED
    BY <1>6, <1>7

\* For every pattern and every plain path, whatever their lengths, match
\* answers what uri.hpp says (lines 11-16 there; match in uri.cpp).
THEOREM MatchMeans ==
    ASSUME NEW p \in Seq(Segment), NEW r \in Seq(Segment), IsPlain(r)
    PROVE  Match(p, r) = Meaning(p, r)
BY OpenToTheEnd, SettledAsMeant

\* What a FULL and a PARAM match with a plain path say of the pattern.
LEMMA MatchSays ==
    ASSUME NEW p \in Seq(Segment), NEW r \in Seq(Segment), IsPlain(r)
    PROVE  /\ Match(p, r) = "FULL" <=> p = r
           /\ Match(p, r) = "PARAM" => Stars(p) = {} /\ Covers(p, r)
           /\ Match(p, r) = "WILD" => Stars(p) # {} /\ Covers(Stem(p), r)
<1>1. Match(p, r) = Meaning(p, r)
    BY MatchMeans
<1>2. p = r => Stars(p) = {}
    <2>1. Wild.kind = "wild"
        BY DEF Wild, Seg
    <2>2. QED
        BY <2>1 DEF IsPlain, Stars
<1>3. QED
    BY <1>1, <1>2 DEF Meaning

=============================================================================
