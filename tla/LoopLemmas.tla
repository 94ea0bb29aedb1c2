--------------------------- MODULE LoopLemmas ---------------------------
(***************************************************************************)
(* Loops of the code are recursive functions of the models.  What such a   *)
(* function is, and what FlattenSeq makes of its parts, by induction in    *)
(* the form of a set of numbers that has zero and every successor.         *)
(***************************************************************************)
EXTENDS Integers, SequencesExt, SequenceTheorems, FiniteSetTheorems,
        WellFoundedInduction, TLAPS

\* Min picks the least of a non-empty set of positions.
LEMMA LeastPosition ==
    ASSUME NEW S \in SUBSET Nat, S # {}
    PROVE  Min(S) \in S /\ \A i \in S : Min(S) <= i
<1>1. PICK m \in S : \A i \in S : <<i, m>> \notin OpToRel(<, Nat)
    BY NatLessThanWellFounded, WFMin
<1>2. ASSUME NEW i \in S
      PROVE  m <= i
    <2>1. <<i, m>> \in Nat \X Nat
        OBVIOUS
    <2>2. ~(<<i, m>>[1] < <<i, m>>[2])
        BY <1>1, <2>1 DEF OpToRel
    <2>3. QED
        BY <2>2
<1>3. QED
    BY <1>2 DEF Min

\* Induction: a set of numbers that has zero and every successor is Nat.
LEMMA SetInduction ==
    ASSUME NEW S \in SUBSET Nat, 0 \in S, \A n \in S : n + 1 \in S
    PROVE  \A n \in Nat : n \in S
<1> SUFFICES ASSUME Nat \ S # {}
             PROVE  FALSE
    OBVIOUS
<1> DEFINE least == Min(Nat \ S)
<1>1. least \in Nat \ S /\ \A i \in Nat \ S : least <= i
    BY LeastPosition
<1> HIDE DEF least
<1>2. least # 0 /\ least - 1 \in Nat
    BY <1>1
<1>3. least - 1 \in S
    BY <1>1, <1>2
<1>4. least \in S
    BY <1>1, <1>2, <1>3
<1>5. QED
    BY <1>1, <1>4

\* The same downwards: a set that has a position whenever it has all behind it.
LEMMA DownwardInduction ==
    ASSUME NEW m \in Nat, NEW S,
           \A i \in 1 .. m : (\A k \in i + 1 .. m : k \in S) => i \in S
    PROVE  \A i \in 1 .. m : i \in S
<1> DEFINE reached == {n \in Nat : \A i \in 1 .. m : m - i < n => i \in S}
<1>1. 0 \in reached
    OBVIOUS
<1>2. ASSUME NEW n \in reached
      PROVE  n + 1 \in reached
    <2> SUFFICES ASSUME NEW i \in 1 .. m, m - i < n + 1
                 PROVE  i \in S
        OBVIOUS
    <2>1. \A k \in i + 1 .. m : k \in 1 .. m /\ m - k < n
        OBVIOUS
    <2>2. QED
        BY <2>1
<1>3. m \in reached
    <2>1. reached \in SUBSET Nat
        OBVIOUS
    <2> HIDE DEF reached
    <2>2. QED
        BY <1>1, <1>2, <2>1, SetInduction
<1>4. QED
    BY <1>3

\* What a recursive definition says of an argument, as rule[n][f], depends on f
\* below n only.
Descends(D, T, rank, bound, rule) ==
    /\ T # {} /\ bound \in Nat /\ rank \in [D -> Nat] /\ \A n \in D : rank[n] < bound
    /\ rule \in [D -> [[D -> T] -> T]]
    /\ \A n \in D, g \in [D -> T], h \in [D -> T] :
            (\A k \in D : rank[k] < rank[n] => g[k] = h[k]) => rule[n][g] = rule[n][h]

\* Then there is a function as it asks for.
LEMMA RecursionDefines ==
    ASSUME NEW D, NEW T, NEW rank, NEW bound, NEW rule, Descends(D, T, rank, bound, rule)
    PROVE  \E f \in [D -> T] : \A n \in D : f[n] = rule[n][f]
<1> USE DEF Descends
<1> DEFINE Upto(f, m) == \A n \in D : rank[n] < m => f[n] = rule[n][f]
           S == {m \in Nat : \E f \in [D -> T] : Upto(f, m)}
<1>1. 0 \in S
    <2>1. PICK t : t \in T
        OBVIOUS
    <2>2. [n \in D |-> t] \in [D -> T] /\ Upto([n \in D |-> t], 0)
        BY <2>1
    <2>3. QED
        BY <2>2
<1>2. ASSUME NEW m \in S
      PROVE  m + 1 \in S
    <2>1. PICK f \in [D -> T] : Upto(f, m)
        OBVIOUS
    <2> DEFINE g == [n \in D |-> IF rank[n] = m THEN rule[n][f] ELSE f[n]]
    <2>2. g \in [D -> T]
        OBVIOUS
    <2>3. ASSUME NEW n \in D, rank[n] < m + 1
          PROVE  g[n] = rule[n][g]
        <3>1. rule[n][g] = rule[n][f]
            <4>1. \A k \in D : rank[k] < rank[n] => g[k] = f[k]
                BY <2>3
            <4> HIDE DEF g
            <4>2. QED
                BY <2>2, <4>1
        <3>2. CASE rank[n] = m
            BY <3>1, <3>2
        <3>3. CASE rank[n] # m
            <4>1. rank[n] \in Nat /\ m \in Nat
                OBVIOUS
            <4>2. rank[n] < m
                <5>1. \A a, b \in Nat : a < b + 1 /\ a # b => a < b
                    OBVIOUS
                <5> HIDE DEF Descends
                <5>2. QED
                    BY <2>3, <3>3, <4>1, <5>1
            <4>3. g[n] = f[n]
                BY <3>3
            <4>4. QED
                BY <2>1, <3>1, <4>2, <4>3
        <3>4. QED
            BY <3>2, <3>3
    <2> HIDE DEF g
    <2>4. QED
        BY <2>2, <2>3
<1> HIDE DEF S
<1>3. bound \in S
    <2>1. S \in SUBSET Nat
        BY DEF S
    <2>2. QED
        BY <1>1, <1>2, <2>1, SetInduction
<1>4. PICK f \in [D -> T] : Upto(f, bound)
    BY <1>3 DEF S
<1>5. QED
    BY <1>4

-----------------------------------------------------------------------------
(* FlattenSeq.                                                             *)

\* How FlattenSeq goes through the parts.
LEMMA FlattenLoop ==
    ASSUME NEW S, NEW parts \in Seq(Seq(S)), parts # << >>
    PROVE  \E flatten \in [1 .. Len(parts) -> Seq(S)] :
            /\ flatten = [i \in 1 .. Len(parts) |->
                    IF i = 1 THEN parts[i] ELSE flatten[i - 1] \o parts[i]]
            /\ FlattenSeq(parts) = flatten[Len(parts)]
<1> DEFINE D == 1 .. Len(parts)
           T == Seq(S)
           step(g, i) == IF i = 1 THEN parts[i] ELSE g[i - 1] \o parts[i]
           rank == [i \in D |-> i]
           rule == [i \in D |-> [g \in [D -> T] |-> step(g, i)]]
<1>1. Len(parts) \in Nat \ {0} /\ \A i \in D : parts[i] \in T
    BY EmptySeq, ElementOfSeq, LenProperties
<1>2. ASSUME NEW i \in D, NEW g \in [D -> T]
      PROVE  step(g, i) \in T
    <2>1. CASE i = 1
        BY <1>1, <2>1
    <2>2. CASE i # 1
        <3>1. i - 1 \in D
            BY <1>1, <2>2
        <3>2. g[i - 1] \in T /\ parts[i] \in T
            BY <1>1, <3>1
        <3>3. g[i - 1] \o parts[i] \in T
            BY <3>2, ConcatProperties
        <3>4. QED
            BY <2>2, <3>3
    <2>3. QED
        BY <2>1, <2>2
<1>3. ASSUME NEW i \in D, NEW g \in [D -> T], NEW h \in [D -> T],
             \A k \in D : rank[k] < rank[i] => g[k] = h[k]
      PROVE  step(g, i) = step(h, i)
    <2>1. CASE i = 1
        BY <2>1
    <2>2. CASE i # 1
        <3>1. i - 1 \in D /\ rank[i - 1] < rank[i]
            BY <1>1, <2>2
        <3>2. g[i - 1] = h[i - 1]
            BY <1>3, <3>1
        <3>3. QED
            BY <2>2, <3>2
    <2>3. QED
        BY <2>1, <2>2
<1>4. /\ rank \in [D -> Nat] /\ \A i \in D : rank[i] < Len(parts) + 1
      /\ \A i \in D, g \in [D -> T] : rule[i][g] = step(g, i)
      /\ Len(parts) + 1 \in Nat
    <2>1. rank \in [D -> Nat] /\ Len(parts) + 1 \in Nat
        BY <1>1
    <2>2. \A i \in D : rank[i] < Len(parts) + 1
        BY <1>1
    <2> HIDE DEF D, T, step
    <2>3. \A i \in D, g \in [D -> T] : rule[i][g] = step(g, i)
        OBVIOUS
    <2>4. QED
        BY <2>1, <2>2, <2>3
<1>5. T # {}
    BY EmptySeq
<1>6. rule \in [D -> [[D -> T] -> T]]
    <2> HIDE DEF step, D, T
    <2>1. QED
        BY <1>2
<1> HIDE DEF rank, rule, step, D, T
<1>7. PICK f \in [D -> T] : \A i \in D : f[i] = rule[i][f]
    <2>1. ASSUME NEW i \in D, NEW g \in [D -> T], NEW h \in [D -> T],
                 \A k \in D : rank[k] < rank[i] => g[k] = h[k]
          PROVE  rule[i][g] = rule[i][h]
        <3>1. step(g, i) = step(h, i)
            BY <1>3, <2>1
        <3>2. QED
            BY <1>4, <3>1
    <2>2. Descends(D, T, rank, Len(parts) + 1, rule)
        BY <1>4, <1>5, <1>6, <2>1 DEF Descends
    <2>3. QED
        BY <2>2, RecursionDefines
<1>8. f = [i \in D |-> step(f, i)]
    BY <1>4, <1>7
<1> DEFINE flatten == CHOOSE g : g = [i \in D |-> step(g, i)]
<1>9. flatten = [i \in D |-> step(flatten, i)]
    BY <1>8
<1>10. FlattenSeq(parts) = flatten[Len(parts)]
    BY <1>1 DEF FlattenSeq, D, step
<1>11. flatten \in [D -> T]
    <2> DEFINE good == {n \in Nat : n \in D => flatten[n] \in T}
    <2> HIDE DEF flatten
    <2>1. 0 \in good
        BY <1>1 DEF D
    <2>2. ASSUME NEW n \in good
          PROVE  n + 1 \in good
        <3> SUFFICES ASSUME n + 1 \in D
                     PROVE  flatten[n + 1] \in T
            OBVIOUS
        <3>1. flatten[n + 1] = step(flatten, n + 1) /\ parts[n + 1] \in T
            BY <1>1, <1>9
        <3>2. CASE n = 0
            BY <3>1, <3>2 DEF step
        <3>3. CASE n # 0
            <4>1. n \in D /\ (n + 1) - 1 = n /\ n + 1 # 1
                BY <1>1, <3>3 DEF D
            <4>2. flatten[n] \in T /\ flatten[n + 1] = flatten[n] \o parts[n + 1]
                BY <3>1, <4>1 DEF step
            <4>3. QED
                BY <3>1, <4>2, ConcatProperties DEF T
        <3>4. QED
            BY <3>2, <3>3
    <2>3. good \in SUBSET Nat
        OBVIOUS
    <2> HIDE DEF good
    <2>4. \A n \in Nat : n \in good
        BY <2>1, <2>2, <2>3, SetInduction
    <2>5. \A n \in D : n \in Nat /\ flatten[n] \in T
        BY <1>1, <2>4 DEF D, good
    <2>6. QED
        BY <1>9, <2>5
<1> HIDE DEF flatten
<1>12. QED
    BY <1>9, <1>10, <1>11 DEF D, T, step

\* One part more is one part behind the others.
LEMMA FlattenAppend ==
    ASSUME NEW S
    PROVE  /\ FlattenSeq(<< >>) = << >>
           /\ \A parts \in Seq(Seq(S)), part \in Seq(S) :
                /\ FlattenSeq(parts) \in Seq(S)
                /\ FlattenSeq(Append(parts, part)) = FlattenSeq(parts) \o part
<1>1. FlattenSeq(<< >>) = << >>
    BY DEF FlattenSeq
<1>2. \A parts \in Seq(Seq(S)) : FlattenSeq(parts) \in Seq(S)
    <2>1. ASSUME NEW parts \in Seq(Seq(S)), parts # << >>
          PROVE  FlattenSeq(parts) \in Seq(S)
        <3>1. Len(parts) \in 1 .. Len(parts)
            <4>1. Len(parts) \in Nat \ {0}
                BY <2>1, EmptySeq
            <4>2. QED
                BY <4>1
        <3>2. PICK flatten \in [1 .. Len(parts) -> Seq(S)] :
                FlattenSeq(parts) = flatten[Len(parts)]
            BY <2>1, FlattenLoop
        <3>3. QED
            BY <3>1, <3>2
    <2>2. QED
        BY <1>1, <2>1, EmptySeq
<1>3. ASSUME NEW parts \in Seq(Seq(S)), NEW part \in Seq(S)
      PROVE  FlattenSeq(Append(parts, part)) = FlattenSeq(parts) \o part
    <2> DEFINE more == Append(parts, part)
               n == Len(parts)
    <2>1. /\ more \in Seq(Seq(S)) /\ more # << >> /\ Len(more) = n + 1 /\ n \in Nat
          /\ \A i \in 1 .. n : more[i] = parts[i]
          /\ more[n + 1] = part
        BY AppendProperties, LenProperties
    <2> HIDE DEF more
    <2>2. PICK flatten \in [1 .. n + 1 -> Seq(S)] :
            /\ flatten = [i \in 1 .. n + 1 |->
                    IF i = 1 THEN more[i] ELSE flatten[i - 1] \o more[i]]
            /\ FlattenSeq(more) = flatten[n + 1]
        <3>1. PICK flatten \in [1 .. Len(more) -> Seq(S)] :
                /\ flatten = [i \in 1 .. Len(more) |->
                        IF i = 1 THEN more[i] ELSE flatten[i - 1] \o more[i]]
                /\ FlattenSeq(more) = flatten[Len(more)]
            BY <2>1, FlattenLoop
        <3> HIDE DEF n
        <3>2. QED
            BY <2>1, <3>1
    <2>3. CASE parts = << >>
        <3>1. n = 0
            BY <2>3
        <3>2. FlattenSeq(more) = part
            BY <2>1, <2>2, <3>1
        <3>3. QED
            BY <1>1, <2>3, <3>2, ConcatEmptySeq DEF more
    <2>4. CASE parts # << >>
        <3>1. PICK shorter \in [1 .. n -> Seq(S)] :
                /\ shorter = [i \in 1 .. n |->
                        IF i = 1 THEN parts[i] ELSE shorter[i - 1] \o parts[i]]
                /\ FlattenSeq(parts) = shorter[n]
            BY <2>4, FlattenLoop
        <3> DEFINE same == {k \in Nat : k \in 1 .. n => flatten[k] = shorter[k]}
        <3> HIDE DEF n
        <3>2. 0 \in same /\ same \in SUBSET Nat
            BY <2>1
        <3>3. ASSUME NEW k \in same
              PROVE  k + 1 \in same
            <4> SUFFICES ASSUME k + 1 \in 1 .. n
                         PROVE  flatten[k + 1] = shorter[k + 1]
                OBVIOUS
            <4>1. more[k + 1] = parts[k + 1] /\ k + 1 \in 1 .. n + 1
                BY <2>1
            <4>2. CASE k = 0
                BY <2>2, <3>1, <4>1, <4>2
            <4>3. CASE k # 0
                <5>1. k \in 1 .. n /\ (k + 1) - 1 = k /\ k + 1 # 1
                    BY <2>1, <4>3
                <5>2. flatten[k + 1] = flatten[k] \o more[k + 1]
                    BY <2>2, <4>1, <5>1
                <5>3. shorter[k + 1] = shorter[k] \o parts[k + 1]
                    BY <3>1, <5>1
                <5>4. QED
                    BY <4>1, <5>1, <5>2, <5>3
            <4>4. QED
                BY <4>2, <4>3
        <3> HIDE DEF same
        <3>4. n \in same /\ n # 0
            <4>1. \A k \in Nat : k \in same
                BY <3>2, <3>3, SetInduction
            <4>2. QED
                BY <2>1, <2>4, <4>1, EmptySeq DEF n
        <3>5. flatten[n] = FlattenSeq(parts)
            BY <2>1, <3>1, <3>4 DEF same
        <3>6. flatten[n + 1] = flatten[n] \o more[n + 1]
            <4>1. n + 1 \in 1 .. n + 1 /\ n + 1 # 1 /\ (n + 1) - 1 = n
                BY <2>1, <3>4
            <4>2. QED
                BY <2>2, <4>1
        <3>7. QED
            BY <2>1, <2>2, <3>5, <3>6 DEF more
    <2>5. QED
        BY <2>3, <2>4
<1>4. QED
    BY <1>1, <1>2, <1>3

\* Max picks the greatest of some positions.
LEMMA GreatestPosition ==
    ASSUME NEW n \in Nat, NEW S \in SUBSET (0 .. n), S # {}
    PROVE  /\ Max(S) \in S /\ \A i \in S : i <= Max(S)
           /\ \A g \in S : (\A i \in S : i <= g) => Max(S) = g
<1> DEFINE T == {k \in Nat : n - k \in S}
           m == Min(T)
           top == n - m
<1>1. T \in SUBSET Nat /\ T # {}
    <2>1. PICK i \in S : TRUE
        OBVIOUS
    <2>2. n - i \in Nat /\ n - (n - i) = i
        BY <2>1
    <2>3. QED
        BY <2>1, <2>2
<1>2. m \in T /\ \A k \in T : m <= k
    BY <1>1, LeastPosition
<1> HIDE DEF m
<1>3. top \in S /\ m \in Nat
    BY <1>2
<1>4. ASSUME NEW i \in S
      PROVE  i <= top
    <2>1. n - i \in Nat /\ n - (n - i) = i
        OBVIOUS
    <2>2. n - i \in T
        BY <2>1
    <2>3. m <= n - i
        BY <1>2, <2>2
    <2>4. QED
        BY <1>3, <2>1, <2>3
<1>5. \A g \in S, h \in S : (\A i \in S : i <= g) /\ (\A i \in S : i <= h) => g = h
    OBVIOUS
<1>6. Max(S) \in S /\ \A i \in S : i <= Max(S)
    <2> HIDE DEF top
    <2>1. \E x \in S : \A y \in S : y <= x
        BY <1>3, <1>4
    <2>2. Max(S) = CHOOSE x \in S : \A y \in S : x >= y
        BY DEF Max
    <2>3. \E x \in S : \A y \in S : x >= y
        BY <2>1
    <2>4. Max(S) \in S /\ \A y \in S : Max(S) >= y
        BY <2>2, <2>3
    <2>5. QED
        BY <2>4
<1>7. QED
    <2> DEFINE g0 == Max(S)
    <2> HIDE DEF g0
    <2>1. g0 \in S /\ \A i \in S : i <= g0
        BY <1>6 DEF g0
    <2>2. QED
        BY <1>5, <2>1 DEF g0

\* Induction on sequences: a set of them that has the empty one and, with each,
\* those of one element more.
LEMMA SequenceInduction ==
    ASSUME NEW S, NEW T, << >> \in T, \A s \in Seq(S), e \in S : s \in T => Append(s, e) \in T
    PROVE  \A s \in Seq(S) : s \in T
<1> DEFINE good == {n \in Nat : \A s \in Seq(S) : Len(s) = n => s \in T}
<1>1. 0 \in good
    <2>1. ASSUME NEW s \in Seq(S), Len(s) = 0
          PROVE  s = << >>
        <3>1. s # << >> => Len(s) \in Nat \ {0}
            BY EmptySeq
        <3>2. QED
            BY <2>1, <3>1
    <2>2. QED
        BY <2>1
<1>2. ASSUME NEW n \in good
      PROVE  n + 1 \in good
    <2> SUFFICES ASSUME NEW s \in Seq(S), Len(s) = n + 1
                 PROVE  s \in T
        OBVIOUS
    <2>1. n \in Nat /\ \A t \in Seq(S) : Len(t) = n => t \in T
        OBVIOUS
    <2> HIDE DEF good
    <2>2. s # << >>
        BY <2>1, EmptySeq
    <2>3. PICK t \in Seq(S), e \in S : s = Append(t, e)
        BY <2>2, SequenceEmptyOrAppend
    <2>4. Len(s) = Len(t) + 1 /\ Len(t) \in Nat
        BY <2>3, AppendProperties, LenProperties
    <2>5. t \in T
        BY <2>1, <2>4
    <2>6. QED
        BY <2>3, <2>5
<1>3. good \in SUBSET Nat
    OBVIOUS
<1>4. ASSUME NEW s \in Seq(S)
      PROVE  s \in T
    <2>1. Len(s) \in Nat
        BY LenProperties
    <2>2. \A n \in Nat : n \in good
        <3> HIDE DEF good
        <3>1. QED
            BY <1>1, <1>2, <1>3, SetInduction
    <2>3. QED
        BY <2>1, <2>2
<1>5. QED
    BY <1>4

\* The parts of two lists, one list behind the other.
LEMMA FlattenConcat ==
    ASSUME NEW S, NEW p \in Seq(Seq(S)), NEW q \in Seq(Seq(S))
    PROVE  FlattenSeq(p \o q) = FlattenSeq(p) \o FlattenSeq(q)
<1> DEFINE T == {t \in Seq(Seq(S)) : FlattenSeq(p \o t) = FlattenSeq(p) \o FlattenSeq(t)}
<1>1. << >> \in T
    <2>1. p \o << >> = p /\ << >> \in Seq(Seq(S))
        BY ConcatEmptySeq, EmptySeq
    <2>2. FlattenSeq(p) \in Seq(S) /\ FlattenSeq(<< >>) = << >>
        BY FlattenAppend
    <2> DEFINE all == FlattenSeq(p)
    <2>3. all \o << >> = all
        <3> HIDE DEF all
        <3>1. all \in Seq(S)
            BY <2>2 DEF all
        <3>2. QED
            BY <3>1, ConcatEmptySeq
    <2>4. QED
        BY <2>1, <2>2, <2>3
<1>2. ASSUME NEW t \in Seq(Seq(S)), NEW e \in Seq(S), t \in T
      PROVE  Append(t, e) \in T
    <2> DEFINE more == Append(t, e)
               both == p \o t
               a == FlattenSeq(p)
               b == FlattenSeq(t)
    <2>1. more \in Seq(Seq(S)) /\ more = t \o <<e>> /\ both \in Seq(Seq(S))
        BY AppendProperties, AppendIsConcat, ConcatProperties
    <2>2. p \o more = Append(both, e)
        <3> DEFINE one == <<e>>
        <3>1. one \in Seq(Seq(S))
            OBVIOUS
        <3> HIDE DEF one
        <3>2. (p \o t) \o one = p \o (t \o one)
            BY <3>1, ConcatAssociative
        <3>3. Append(both, e) = both \o one
            <4> HIDE DEF both
            <4>1. QED
                BY <2>1, AppendIsConcat DEF one
        <3>4. QED
            BY <2>1, <3>2, <3>3 DEF one
    <2>3. FlattenSeq(Append(both, e)) = FlattenSeq(both) \o e
        <3> HIDE DEF both
        <3>1. QED
            BY <2>1, FlattenAppend
    <2>4. FlattenSeq(both) = a \o b
        BY <1>2
    <2>5. a \in Seq(S) /\ b \in Seq(S) /\ FlattenSeq(more) = b \o e
        BY FlattenAppend
    <2>6. (a \o b) \o e = a \o (b \o e)
        <3>1. a \in Seq(S) /\ b \in Seq(S) /\ e \in Seq(S)
            BY <2>5
        <3>2. \A x, y, z \in Seq(S) : (x \o y) \o z = x \o (y \o z)
            BY ConcatAssociative
        <3> HIDE DEF a, b, T, more, both
        <3>3. QED
            BY <3>1, <3>2
    <2>7. FlattenSeq(p \o more) = a \o FlattenSeq(more)
        <3> HIDE DEF a, b, both, more
        <3>1. QED
            BY <2>2, <2>3, <2>4, <2>5, <2>6
    <2>8. QED
        BY <2>1, <2>7
<1>3. q \in T
    <2> HIDE DEF T
    <2>1. QED
        BY <1>1, <1>2, SequenceInduction
<1>4. QED
    BY <1>3

\* What is left of the parts behind the first i.
Flat(parts, i) == FlattenSeq(SubSeq(parts, i + 1, Len(parts)))

\* It begins with the next part.
LEMMA FlatStep ==
    ASSUME NEW S, NEW parts \in Seq(Seq(S)), NEW i \in 0 .. Len(parts)
    PROVE  /\ Flat(parts, i) \in Seq(S) /\ FlattenSeq(parts) \in Seq(S)
           /\ Flat(parts, 0) = FlattenSeq(parts)
           /\ i = Len(parts) => Flat(parts, i) = << >>
           /\ i # Len(parts) =>
                /\ i + 1 \in 0 .. Len(parts) /\ parts[i + 1] \in Seq(S)
                /\ Flat(parts, i) = parts[i + 1] \o Flat(parts, i + 1)
           /\ FlattenSeq(SubSeq(parts, 1, i)) \in Seq(S)
           /\ FlattenSeq(parts) = FlattenSeq(SubSeq(parts, 1, i)) \o Flat(parts, i)
<1> DEFINE n == Len(parts)
           before == SubSeq(parts, 1, i)
           behind == SubSeq(parts, i + 1, n)
<1>1. n \in Nat /\ i \in Nat /\ i <= n /\ \A k \in 1 .. n : parts[k] \in Seq(S)
    BY LenProperties, ElementOfSeq
<1>2. before \in Seq(Seq(S)) /\ behind \in Seq(Seq(S))
    <2>1. \A k \in 1 .. i : parts[k] \in Seq(S)
        BY <1>1
    <2>2. \A k \in i + 1 .. n : parts[k] \in Seq(S)
        BY <1>1
    <2> DEFINE at == i + 1
    <2>3. at \in Int /\ 1 \in Int /\ i \in Int /\ n \in Int
        BY <1>1
    <2> HIDE DEF n, at
    <2>4. SubSeq(parts, at, n) \in Seq(Seq(S))
        BY <2>2, <2>3, SubSeqProperties DEF at
    <2>5. QED
        BY <2>1, <2>3, <2>4, SubSeqProperties DEF at
<1>3. Flat(parts, i) = FlattenSeq(behind)
    BY DEF Flat
<1>4. Flat(parts, i) \in Seq(S) /\ FlattenSeq(parts) \in Seq(S) /\ FlattenSeq(before) \in Seq(S)
    <2> HIDE DEF before, behind
    <2>1. QED
        BY <1>2, <1>3, FlattenAppend
<1>5. Flat(parts, 0) = FlattenSeq(parts)
    <2>1. SubSeq(parts, 0 + 1, n) = parts
        BY SubSeqFull
    <2>2. QED
        BY <2>1 DEF Flat
<1>6. before \o behind = parts
    <2>1. 1 \in 1 .. Len(parts) + 1 /\ i \in 1 - 1 .. Len(parts) /\ n \in i .. Len(parts)
        BY <1>1
    <2>2. SubSeq(parts, 1, i) \o SubSeq(parts, i + 1, n) = SubSeq(parts, 1, n)
        <3> HIDE DEF n
        <3>1. QED
            BY <2>1, ConcatAdjacentSubSeq
    <2>3. SubSeq(parts, 1, n) = parts
        BY SubSeqFull
    <2>4. QED
        BY <2>2, <2>3
<1>7. FlattenSeq(parts) = FlattenSeq(before) \o Flat(parts, i)
    <2> HIDE DEF before, behind
    <2>1. FlattenSeq(before \o behind) = FlattenSeq(before) \o FlattenSeq(behind)
        BY <1>2, FlattenConcat
    <2>2. QED
        BY <1>3, <1>6, <2>1
<1>8. CASE i = n
    <2>1. behind = << >>
        <3>1. i + 1 \in Int /\ n \in Int /\ n < i + 1
            BY <1>1, <1>8
        <3>2. QED
            BY <3>1, SubSeqEmpty
    <2>2. Flat(parts, i) = << >>
        BY <1>3, <2>1, FlattenAppend
    <2>3. QED
        BY <1>4, <1>5, <1>7, <1>8, <2>2
<1>9. CASE i # n
    <2> DEFINE part == parts[i + 1]
               one == <<part>>
               rest == SubSeq(parts, (i + 1) + 1, n)
    <2>1. i + 1 \in 1 .. n /\ part \in Seq(S)
        BY <1>1, <1>9
    <2>2. behind = one \o rest
        <3>1. i + 1 \in 1 .. Len(parts) /\ n \in i + 1 .. Len(parts)
            BY <1>1, <2>1
        <3> DEFINE at == i + 1
        <3> HIDE DEF n, at
        <3>2. SubSeq(parts, at, n) = <<parts[at]>> \o SubSeq(parts, at + 1, n)
            BY <3>1, SubSeqRecursiveFirst DEF at
        <3>3. QED
            BY <3>2 DEF at
    <2>3. one \in Seq(Seq(S)) /\ rest \in Seq(Seq(S))
        <3>1. one \in Seq(Seq(S))
            BY <2>1
        <3>2. \A k \in (i + 1) + 1 .. n : parts[k] \in Seq(S)
            BY <1>1
        <3> DEFINE at == (i + 1) + 1
        <3>3. at \in Int /\ n \in Int
            BY <1>1
        <3> HIDE DEF n, at
        <3>4. SubSeq(parts, at, n) \in Seq(Seq(S))
            BY <3>2, <3>3, SubSeqProperties DEF at
        <3>5. QED
            BY <3>1, <3>4 DEF at
    <2>4. FlattenSeq(one) = part
        <3> DEFINE none == << >>
        <3>1. none \in Seq(Seq(S)) /\ none \in Seq(S) /\ FlattenSeq(none) = none /\ one = Append(none, part)
            BY FlattenAppend
        <3> HIDE DEF none, one, part
        <3>2. FlattenSeq(Append(none, part)) = FlattenSeq(none) \o part
            BY <2>1, <3>1, FlattenAppend
        <3>3. none \o part = part
            BY <2>1, ConcatEmptySeq DEF none
        <3>4. QED
            BY <3>1, <3>2, <3>3
    <2>5. FlattenSeq(one \o rest) = FlattenSeq(one) \o FlattenSeq(rest)
        <3> HIDE DEF one, rest
        <3>1. QED
            BY <2>3, FlattenConcat
    <2>6. Flat(parts, i + 1) = FlattenSeq(rest)
        BY DEF Flat
    <2>7. Flat(parts, i) = part \o Flat(parts, i + 1)
        <3> HIDE DEF one, rest, part, behind
        <3>1. QED
            BY <1>3, <2>2, <2>4, <2>5, <2>6
    <2>8. i + 1 \in 0 .. n
        BY <1>1, <2>1
    <2>9. QED
        BY <1>4, <1>5, <1>7, <1>9, <2>1, <2>7, <2>8
<1>10. QED
    BY <1>8, <1>9

=============================================================================
