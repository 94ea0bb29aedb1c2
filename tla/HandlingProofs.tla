--------------------------- MODULE HandlingProofs ---------------------------
(***************************************************************************)
(* What module Handling says of handlers, middleware and file handlers     *)
(* together, for every set of sizes, any number of members, of calls of    *)
(* next and of responses: the chain keeps to itself, whatever they do is a *)
(* behaviour of Response, and files are served whole.                      *)
(***************************************************************************)
EXTENDS Handling, ResponseProofs, SequenceTheorems

\* The members up to idx have been called once, the others not at all, and
\* the calls that run are of the former.
CountedOnce ==
    /\ \A m \in 1 .. N : entered[m] = IF m <= idx THEN 1 ELSE 0
    /\ \A k \in 1 .. Len(stack) : stack[k].who = Handler \/ stack[k].who <= idx
    /\ \A k \in 1 .. Len(stack) - 1 : stack[k].who < stack[k + 1].who

\* While nobody has called next twice, the calls beneath the innermost have
\* each called it once; an innermost that has not is the last one called.
OneByOne ==
    ~again =>
        /\ \A k \in 1 .. Len(stack) : stack[k].who = k
        /\ \A k \in 1 .. Len(stack) - 1 : stack[k].calls > 0
        /\ entered[Handler] <= 1
        /\ stack # <<>> /\ Top.who # Handler /\ Top.calls = 0 =>
                idx = Len(stack) /\ entered[Handler] = 0

\* As long as nobody gave up, the chain has not begun, or has reached the
\* handler, or the member it has come to is the innermost call, and may yet
\* call next.
StillOnItsWay ==
    /\ thrown => gaveUp
    /\ ~gaveUp =>
        \/ idx = N /\ entered[Handler] > 0
        \/ idx = 0 /\ entered[Handler] = 0 /\ stack = <<>>
        \/ /\ stack # <<>> /\ Top.who = idx /\ Top.who # Handler /\ Top.calls = 0
           /\ entered[Handler] = 0

ChainInv == ChainTypeOK /\ CountedOnce /\ OneByOne /\ StillOnItsWay

\* How far a file that nothing disturbed was served, and that a file handler
\* runs only beneath a call of the chain.
ServedWhole ==
    /\ at # "no" => stack # <<>>
    /\ at \in {"no", "send"} \cup ByName => pos = 0
    /\ up /\ ~touched /\ ~disturbed =>
        /\ ~misused
        /\ at \in {"open", "send", "read"} => thing = size
        /\ at = "read" => pos <= size /\ owed = size - pos
        /\ at # "read" => owed = 0

HandlingInv == Inv /\ HandlingTypeOK /\ ChainInv /\ ServedWhole

-----------------------------------------------------------------------------
(* The chain, for any number of members and any number of calls of next.   *)

\* Front drops the last element of a sequence, and leaves the others.
LEMMA FrontOfSeq ==
    ASSUME NEW S, NEW s \in Seq(S), s # <<>>
    PROVE  /\ Front(s) \in Seq(S)
           /\ Len(Front(s)) = Len(s) - 1
           /\ \A k \in 1 .. Len(s) - 1 : Front(s)[k] = s[k]
           /\ Len(s) \in Nat \ {0}
<1>1. PICK n \in Nat \ {0} : n = Len(s)
    OBVIOUS
<1>2. \A k \in 1 .. n - 1 : s[k] \in S
    BY <1>1, ElementOfSeq
<1> DEFINE f == SubSeq(s, 1, n - 1)
<1>3. /\ f \in Seq(S)
      /\ Len(f) = IF 1 <= n - 1 THEN n - 1 - 1 + 1 ELSE 0
      /\ \A k \in 1 .. n - 1 - 1 + 1 : f[k] = s[1 + k - 1]
    BY <1>2, SubSeqProperties
<1>4. f = Front(s)
    BY <1>1 DEF Front
<1> HIDE DEF f
<1>5. Len(f) = n - 1 /\ \A k \in 1 .. n - 1 : f[k] = s[k]
    BY <1>3
<1>6. QED
    BY <1>1, <1>3, <1>4, <1>5

\* Append adds a call behind the others.
LEMMA AppendCall ==
    ASSUME NEW s \in Seq(Frame), NEW f \in Frame
    PROVE  /\ Append(s, f) \in Seq(Frame)
           /\ Len(Append(s, f)) = Len(s) + 1
           /\ \A k \in 1 .. Len(s) : Append(s, f)[k] = s[k]
           /\ Append(s, f)[Len(s) + 1] = f
           /\ Append(s, f) # <<>>
OBVIOUS

\* What run_middleware() adds to the calls in s.
LEMMA RunsNext ==
    ASSUME ChainTypeOK, NEW s \in Seq(Frame), RunMiddleware(s)
    PROVE  /\ Following \in Members
           /\ idx' = (IF idx < N THEN Following ELSE idx) /\ idx' \in 0 .. N
           /\ stack' \in Seq(Frame) /\ stack' # <<>> /\ Len(stack') = Len(s) + 1
           /\ \A k \in 1 .. Len(s) : stack'[k] = s[k]
           /\ stack'[Len(s) + 1] = [who |-> Following, calls |-> 0]
           /\ entered' \in [Members -> Nat]
           /\ entered'[Following] = entered[Following] + 1
           /\ \A m \in Members \ {Following} : entered'[m] = entered[m]
<1>1. Following \in Members /\ idx \in 0 .. N /\ N \in Nat
    BY ChainAssumption DEF ChainTypeOK, Members, Handler, Following
<1>2. [who |-> Following, calls |-> 0] \in Frame
    BY <1>1, ChainAssumption DEF Frame
<1>3. /\ stack' = Append(s, [who |-> Following, calls |-> 0])
      /\ idx' = IF idx < N THEN idx + 1 ELSE idx
      /\ entered' = [entered EXCEPT ![Following] = @ + 1]
    BY DEF RunMiddleware
<1>4. entered \in [Members -> Nat]
    BY DEF ChainTypeOK
<1>5. idx' = (IF idx < N THEN Following ELSE idx) /\ idx' \in 0 .. N
    BY <1>1, <1>3 DEF Following
<1>6. /\ entered' \in [Members -> Nat] /\ entered'[Following] = entered[Following] + 1
      /\ \A m \in Members \ {Following} : entered'[m] = entered[m]
    BY <1>1, <1>3, <1>4
<1>7. QED
    BY <1>1, <1>2, <1>3, <1>5, <1>6, AppendCall

\* The first call of a request keeps the invariant.
LEMMA StartStep == ChainInv /\ Start => ChainInv'
<1> SUFFICES ASSUME ChainInv, Start
             PROVE  ChainInv'
    OBVIOUS
<1>1. ChainTypeOK /\ StillOnItsWay
    BY DEF ChainInv
<1>2. /\ stack = <<>> /\ idx = 0 /\ RunMiddleware(<<>>)
      /\ thrown' = thrown /\ again' = again /\ gaveUp' = gaveUp
      /\ \A m \in Members : entered[m] = 0
    BY DEF Start
<1>3. <<>> \in Seq(Frame) /\ Len(<<>>) = 0
    OBVIOUS
<1>4. /\ Following \in Members
      /\ idx' = (IF idx < N THEN Following ELSE idx) /\ idx' \in 0 .. N
      /\ stack' \in Seq(Frame) /\ stack' # <<>> /\ Len(stack') = 0 + 1
      /\ stack'[0 + 1] = [who |-> Following, calls |-> 0]
      /\ entered' \in [Members -> Nat]
      /\ entered'[Following] = entered[Following] + 1
      /\ \A m \in Members \ {Following} : entered'[m] = entered[m]
    BY <1>1, <1>2, <1>3, RunsNext
<1>5. /\ Following = (IF 0 < N THEN 1 ELSE Handler)
      /\ N \in Nat /\ Handler = N + 1 /\ Members = 1 .. N + 1
    BY <1>2, ChainAssumption DEF Handler, Members, Following
<1>6. ChainTypeOK'
    BY <1>1, <1>2, <1>4 DEF ChainTypeOK
<1>7. CountedOnce'
    BY <1>2, <1>4, <1>5 DEF CountedOnce
<1>8. OneByOne'
    BY <1>2, <1>4, <1>5 DEF OneByOne, Top
<1>9. StillOnItsWay'
    BY <1>1, <1>2, <1>4, <1>5 DEF StillOnItsWay, Top
<1>10. QED
    BY <1>6, <1>7, <1>8, <1>9 DEF ChainInv

\* The innermost call, and the calls beneath it, as a sequence.
LEMMA Innermost ==
    ASSUME ChainTypeOK, stack # <<>>
    PROVE  \E n \in Nat \ {0} :
              /\ n = Len(stack) /\ Top = stack[n] /\ Top \in Frame
              /\ Front(stack) \in Seq(Frame) /\ Len(Front(stack)) = n - 1
              /\ \A k \in 1 .. n - 1 : Front(stack)[k] = stack[k]
<1>1. stack \in Seq(Frame)
    BY DEF ChainTypeOK
<1>2. PICK n \in Nat \ {0} : n = Len(stack)
    BY <1>1
<1>3. stack[n] \in Frame
    BY <1>1, <1>2, ElementOfSeq
<1>4. QED
    BY <1>1, <1>2, <1>3, FrontOfSeq DEF Top

\* A call of next keeps the invariant.
LEMMA CallNextStep == ChainInv /\ CallNext => ChainInv'
<1> SUFFICES ASSUME ChainInv, CallNext
             PROVE  ChainInv'
    OBVIOUS
<1>1. ChainTypeOK /\ CountedOnce /\ OneByOne /\ StillOnItsWay
    BY DEF ChainInv
<1> DEFINE g == [Top EXCEPT !.calls = @ + 1]
           s == Append(Front(stack), g)
<1>2. /\ stack # <<>> /\ ~thrown /\ Top.who # Handler /\ Top.calls < MaxNext
      /\ RunMiddleware(s)
      /\ again' = (again \/ Top.calls > 0)
      /\ thrown' = thrown /\ gaveUp' = gaveUp
    BY DEF CallNext
<1>3. PICK n \in Nat \ {0} :
              /\ n = Len(stack) /\ Top = stack[n] /\ Top \in Frame
              /\ Front(stack) \in Seq(Frame) /\ Len(Front(stack)) = n - 1
              /\ \A k \in 1 .. n - 1 : Front(stack)[k] = stack[k]
    BY <1>1, <1>2, Innermost
<1>4. /\ g \in Frame /\ g.who = Top.who /\ g.calls = Top.calls + 1
      /\ Top.calls \in Nat /\ Top.who \in 1 .. N
    <2> DEFINE t == Top
    <2>1. t \in [who : Members, calls : 0 .. MaxNext] /\ t.who # Handler /\ t.calls < MaxNext
        BY <1>2, <1>3 DEF Frame
    <2>2. N \in Nat /\ MaxNext \in Nat /\ Members = 1 .. N + 1 /\ Handler = N + 1
        BY ChainAssumption DEF Members, Handler
    <2>3. g = [t EXCEPT !.calls = @ + 1]
        OBVIOUS
    <2> HIDE DEF t, g
    <2>4. t.calls \in 0 .. MaxNext /\ t.who \in 1 .. N + 1
        BY <2>1, <2>2
    <2>5. t.calls + 1 \in 0 .. MaxNext /\ t.calls \in Nat /\ t.who \in 1 .. N
        BY <2>1, <2>2, <2>4
    <2>6. g \in [who : Members, calls : 0 .. MaxNext] /\ g.who = t.who
          /\ g.calls = t.calls + 1
        BY <2>1, <2>3, <2>5
    <2>7. QED
        BY <2>5, <2>6 DEF t, Frame
<1> HIDE DEF g
<1>5. /\ s \in Seq(Frame) /\ Len(s) = n /\ s[n] = g
      /\ \A k \in 1 .. n - 1 : s[k] = stack[k]
    <2>1. /\ s \in Seq(Frame) /\ Len(s) = n - 1 + 1 /\ s[n - 1 + 1] = g
          /\ \A k \in 1 .. n - 1 : s[k] = Front(stack)[k]
        BY <1>3, <1>4, AppendCall
    <2>2. QED
        BY <1>3, <2>1
<1> HIDE DEF s
<1>6. /\ Following \in Members
      /\ idx' = (IF idx < N THEN Following ELSE idx) /\ idx' \in 0 .. N
      /\ stack' \in Seq(Frame) /\ stack' # <<>> /\ Len(stack') = n + 1
      /\ \A k \in 1 .. n : stack'[k] = s[k]
      /\ stack'[n + 1] = [who |-> Following, calls |-> 0]
      /\ entered' \in [Members -> Nat]
      /\ entered'[Following] = entered[Following] + 1
      /\ \A m \in Members \ {Following} : entered'[m] = entered[m]
    BY <1>1, <1>2, <1>5, RunsNext
<1>7. /\ idx \in 0 .. N /\ N \in Nat /\ Handler = N + 1 /\ Members = 1 .. N + 1
      /\ Following = (IF idx < N THEN idx + 1 ELSE Handler)
      /\ entered \in [Members -> Nat] /\ again \in BOOLEAN /\ gaveUp \in BOOLEAN
      /\ thrown \in BOOLEAN
    BY <1>1, ChainAssumption DEF ChainTypeOK, Handler, Members, Following
<1>8. /\ \A k \in 1 .. n : stack'[k].who = stack[k].who
      /\ \A k \in 1 .. n - 1 : stack'[k].calls = stack[k].calls
      /\ stack'[n].calls = Top.calls + 1
      /\ stack'[n + 1].who = Following /\ stack'[n + 1].calls = 0
    <2>1. stack'[n] = g /\ \A k \in 1 .. n - 1 : stack'[k] = stack[k]
        BY <1>5, <1>6
    <2>2. \A k \in 1 .. n : stack'[k].who = stack[k].who
        <3> SUFFICES ASSUME NEW k \in 1 .. n
                     PROVE  stack'[k].who = stack[k].who
            OBVIOUS
        <3>1. CASE k = n
            BY <1>3, <1>4, <2>1, <3>1
        <3>2. CASE k # n
            <4>1. k \in 1 .. n - 1
                BY <3>2
            <4>2. QED
                BY <2>1, <4>1
        <3>3. QED
            BY <3>1, <3>2
    <2>3. stack'[n].calls = Top.calls + 1
        BY <1>4, <2>1
    <2>4. QED
        BY <1>6, <2>1, <2>2, <2>3
<1>9. ChainTypeOK'
    BY <1>2, <1>6, <1>7 DEF ChainTypeOK
<1>10. CountedOnce'
    <2>1. \A m \in 1 .. N : entered'[m] = IF m <= idx' THEN 1 ELSE 0
        BY <1>1, <1>6, <1>7 DEF CountedOnce
    <2>2. /\ \A k \in 1 .. n : stack[k].who = Handler \/ stack[k].who <= idx
          /\ \A k \in 1 .. n - 1 : stack[k].who < stack[k + 1].who
          /\ stack[n].who <= idx
        BY <1>1, <1>2, <1>3 DEF CountedOnce
    <2>3. \A k \in 1 .. n + 1 : stack'[k].who = Handler \/ stack'[k].who <= idx'
        <3> SUFFICES ASSUME NEW k \in 1 .. n + 1
                     PROVE  stack'[k].who = Handler \/ stack'[k].who <= idx'
            OBVIOUS
        <3>1. CASE k = n + 1
            BY <3>1, <1>6, <1>7, <1>8
        <3>2. CASE k \in 1 .. n
            <4>1. stack'[k].who = stack[k].who
                BY <1>8, <3>2
            <4>2. CASE stack[k].who = Handler
                BY <4>1, <4>2
            <4>3. CASE stack[k].who <= idx
                <5>1. stack[k].who \in Nat
                    <6>1. stack[k] \in Frame
                        BY <1>1, <1>3, <3>2, ElementOfSeq DEF ChainTypeOK
                    <6>2. QED
                        BY <1>7, <6>1 DEF Frame
                <5>2. idx <= idx'
                    BY <1>6, <1>7
                <5>3. QED
                    BY <4>1, <4>3, <5>1, <5>2, <1>6, <1>7
            <4>4. QED
                BY <2>2, <3>2, <4>2, <4>3
        <3>3. QED
            BY <3>1, <3>2
    <2>4. \A k \in 1 .. n : stack'[k].who < stack'[k + 1].who
        <3> SUFFICES ASSUME NEW k \in 1 .. n
                     PROVE  stack'[k].who < stack'[k + 1].who
            OBVIOUS
        <3>1. CASE k = n
            BY <3>1, <2>2, <1>3, <1>4, <1>7, <1>8
        <3>2. CASE k \in 1 .. n - 1
            BY <3>2, <2>2, <1>8
        <3>3. QED
            BY <3>1, <3>2
    <2>5. QED
        BY <1>6, <2>1, <2>3, <2>4 DEF CountedOnce
<1>11. OneByOne'
    <2> SUFFICES ASSUME ~again'
                 PROVE  /\ \A k \in 1 .. Len(stack') : stack'[k].who = k
                        /\ \A k \in 1 .. Len(stack') - 1 : stack'[k].calls > 0
                        /\ entered'[Handler] <= 1
                        /\ stack' # <<>> /\ Top'.who # Handler /\ Top'.calls = 0 =>
                              idx' = Len(stack') /\ entered'[Handler] = 0
        BY DEF OneByOne
    <2>0. Top' = stack'[n + 1] /\ Len(stack') - 1 = n
        BY <1>6 DEF Top
    <2>1. ~again /\ Top.calls = 0
        <3>1. ~again /\ ~(Top.calls > 0)
            BY <1>2
        <3>2. QED
            BY <1>4, <3>1
    <2>2. /\ \A k \in 1 .. n : stack[k].who = k
          /\ \A k \in 1 .. n - 1 : stack[k].calls > 0
          /\ idx = n /\ entered[Handler] = 0
        BY <1>1, <1>2, <1>3, <2>1 DEF OneByOne
    <2>3. \A k \in 1 .. n + 1 : stack'[k].who = k
        <3> SUFFICES ASSUME NEW k \in 1 .. n + 1
                     PROVE  stack'[k].who = k
            OBVIOUS
        <3>1. CASE k = n + 1
            <4>1. Following = n + 1
                BY <1>7, <2>2
            <4>2. QED
                BY <1>8, <3>1, <4>1
        <3>2. CASE k \in 1 .. n
            BY <1>8, <2>2, <3>2
        <3>3. QED
            BY <3>1, <3>2
    <2>4. \A k \in 1 .. n : stack'[k].calls > 0
        <3> SUFFICES ASSUME NEW k \in 1 .. n
                     PROVE  stack'[k].calls > 0
            OBVIOUS
        <3>1. CASE k = n
            BY <1>8, <2>1, <3>1
        <3>2. CASE k \in 1 .. n - 1
            BY <1>8, <2>2, <3>2
        <3>3. QED
            BY <3>1, <3>2
    <2>5. entered'[Handler] <= 1 /\ (Following # Handler => entered'[Handler] = 0)
        BY <1>6, <1>7, <2>2
    <2>6. Following # Handler => idx' = n + 1
        BY <1>6, <1>7, <2>2
    <2>7. QED
        BY <1>6, <1>8, <2>0, <2>3, <2>4, <2>5, <2>6
<1>12. StillOnItsWay'
    <2>1. Top' = stack'[n + 1] /\ stack' # <<>>
        BY <1>6 DEF Top
    <2>2. CASE gaveUp
        BY <1>2, <2>2 DEF StillOnItsWay
    <2>3. CASE ~gaveUp /\ idx = N /\ entered[Handler] > 0
        BY <1>2, <1>6, <1>7, <2>3 DEF StillOnItsWay
    <2>4. CASE ~gaveUp /\ Top.who = idx /\ Top.calls = 0 /\ entered[Handler] = 0
        <3>1. CASE idx < N
            BY <1>2, <1>6, <1>7, <1>8, <2>1, <2>4, <3>1 DEF StillOnItsWay
        <3>2. CASE idx = N
            BY <1>2, <1>6, <1>7, <2>4, <3>2 DEF StillOnItsWay
        <3>3. QED
            BY <1>7, <3>1, <3>2
    <2>5. QED
        BY <1>1, <1>2, <2>2, <2>3, <2>4 DEF StillOnItsWay
<1>13. QED
    BY <1>9, <1>10, <1>11, <1>12 DEF ChainInv

\* What the invariant says of the calls beneath the innermost, which are left
\* when that one ends.
LEMMA EndsInnermost ==
    ASSUME ChainInv, stack # <<>>, stack' = Front(stack),
           idx' = idx, entered' = entered, again' = again
    PROVE  stack' \in Seq(Frame) /\ CountedOnce' /\ OneByOne'
<1>1. ChainTypeOK /\ CountedOnce /\ OneByOne
    BY DEF ChainInv
<1>2. PICK n \in Nat \ {0} :
              /\ n = Len(stack) /\ Top = stack[n] /\ Top \in Frame
              /\ Front(stack) \in Seq(Frame) /\ Len(Front(stack)) = n - 1
              /\ \A k \in 1 .. n - 1 : Front(stack)[k] = stack[k]
    BY <1>1, Innermost
<1>3. /\ stack' \in Seq(Frame) /\ Len(stack') = n - 1
      /\ \A k \in 1 .. n - 1 : stack'[k] = stack[k]
    BY <1>2
<1>4. CountedOnce'
    <2>1. /\ \A m \in 1 .. N : entered[m] = IF m <= idx THEN 1 ELSE 0
          /\ \A k \in 1 .. n : stack[k].who = Handler \/ stack[k].who <= idx
          /\ \A k \in 1 .. n - 1 : stack[k].who < stack[k + 1].who
        BY <1>1, <1>2 DEF CountedOnce
    <2>2. \A k \in 1 .. n - 1 : stack'[k].who = Handler \/ stack'[k].who <= idx
        BY <1>3, <2>1
    <2>3. \A k \in 1 .. n - 1 - 1 : stack'[k].who < stack'[k + 1].who
        BY <1>3, <2>1
    <2>4. QED
        BY <1>3, <2>1, <2>2, <2>3 DEF CountedOnce
<1>5. OneByOne'
    <2> SUFFICES ASSUME ~again
                 PROVE  /\ \A k \in 1 .. n - 1 : stack'[k].who = k
                        /\ \A k \in 1 .. n - 1 - 1 : stack'[k].calls > 0
                        /\ entered[Handler] <= 1
                        /\ stack' # <<>> => stack'[n - 1].calls # 0
        BY <1>3 DEF OneByOne, Top
    <2>1. /\ \A k \in 1 .. n : stack[k].who = k
          /\ \A k \in 1 .. n - 1 : stack[k].calls > 0
          /\ entered[Handler] <= 1
        BY <1>1, <1>2 DEF OneByOne
    <2>2. stack' # <<>> => n - 1 \in 1 .. n - 1
        BY <1>2, <1>3
    <2>3. stack' # <<>> => stack'[n - 1].calls > 0
        BY <1>3, <2>1, <2>2
    <2>4. QED
        BY <1>3, <2>1, <2>3
<1>6. QED
    BY <1>3, <1>4, <1>5

\* A return keeps the invariant.
LEMMA ReturnStep == ChainInv /\ Return => ChainInv'
<1> SUFFICES ASSUME ChainInv, Return
             PROVE  ChainInv'
    OBVIOUS
<1>1. ChainTypeOK /\ StillOnItsWay
    BY DEF ChainInv
<1>2. /\ stack # <<>> /\ ~thrown /\ stack' = Front(stack)
      /\ gaveUp' = (gaveUp \/ (Top.who # Handler /\ Top.calls = 0))
      /\ idx' = idx /\ thrown' = thrown /\ again' = again /\ entered' = entered
    BY DEF Return
<1>3. stack' \in Seq(Frame) /\ CountedOnce' /\ OneByOne'
    BY <1>2, EndsInnermost
<1>4. ChainTypeOK'
    BY <1>1, <1>2, <1>3 DEF ChainTypeOK
<1>5. StillOnItsWay'
    BY <1>1, <1>2 DEF StillOnItsWay
<1>6. QED
    BY <1>3, <1>4, <1>5 DEF ChainInv

\* An exception keeps it.
LEMMA ThrowStep == ChainInv /\ Throw => ChainInv'
<1> SUFFICES ASSUME ChainInv, Throw
             PROVE  ChainInv'
    OBVIOUS
<1>1. ChainTypeOK
    BY DEF ChainInv
<1>2. /\ stack # <<>> /\ stack' = Front(stack)
      /\ thrown' = TRUE /\ gaveUp' = TRUE
      /\ idx' = idx /\ again' = again /\ entered' = entered
    BY DEF Throw
<1>3. stack' \in Seq(Frame) /\ CountedOnce' /\ OneByOne'
    BY <1>2, EndsInnermost
<1>4. ChainTypeOK'
    BY <1>1, <1>2, <1>3 DEF ChainTypeOK
<1>5. StillOnItsWay'
    BY <1>2 DEF StillOnItsWay
<1>6. QED
    BY <1>3, <1>4, <1>5 DEF ChainInv

\* So does catching it.
LEMMA CatchStep == ChainInv /\ Catch => ChainInv'
<1> SUFFICES ASSUME ChainInv, Catch
             PROVE  ChainInv'
    OBVIOUS
<1>1. ChainTypeOK /\ CountedOnce /\ OneByOne /\ StillOnItsWay
    BY DEF ChainInv
<1>2. /\ thrown /\ thrown' = FALSE
      /\ idx' = idx /\ stack' = stack /\ again' = again
      /\ gaveUp' = gaveUp /\ entered' = entered
    BY DEF Catch
<1>3. ChainTypeOK' /\ CountedOnce'
    BY <1>1, <1>2 DEF ChainTypeOK, CountedOnce
<1>4. OneByOne'
    BY <1>1, <1>2 DEF OneByOne, Top
<1>5. StillOnItsWay'
    BY <1>1, <1>2 DEF StillOnItsWay
<1>6. QED
    BY <1>3, <1>4, <1>5 DEF ChainInv

\* An idle chain satisfies the invariant.
LEMMA IdleIsFine == Idle => ChainInv
<1> SUFFICES ASSUME Idle
             PROVE  ChainInv
    OBVIOUS
<1>1. /\ idx = 0 /\ stack = <<>> /\ thrown = FALSE /\ again = FALSE /\ gaveUp = FALSE
      /\ entered = [m \in Members |-> 0] /\ Len(stack) = 0
    BY DEF Idle
<1>2. N \in Nat /\ Handler \in Members /\ 1 .. N \subseteq Members
    BY ChainAssumption DEF Members, Handler
<1>3. ChainTypeOK
    <2>1. <<>> \in Seq(Frame) /\ [m \in Members |-> 0] \in [Members -> Nat] /\ 0 \in 0 .. N
        BY <1>2
    <2>2. QED
        BY <1>1, <2>1 DEF ChainTypeOK
<1>4. CountedOnce
    BY <1>1, <1>2 DEF CountedOnce
<1>5. OneByOne
    BY <1>1, <1>2 DEF OneByOne
<1>6. StillOnItsWay
    BY <1>1, <1>2 DEF StillOnItsWay
<1>7. QED
    BY <1>3, <1>4, <1>5, <1>6 DEF ChainInv

\* And so does one that was cleared.
LEMMA ClearStep == Clear => ChainInv'
<1> SUFFICES ASSUME Clear
             PROVE  ChainInv'
    OBVIOUS
<1>1. /\ idx' = 0 /\ stack' = <<>> /\ thrown' = FALSE /\ again' = FALSE
      /\ gaveUp' = FALSE /\ entered' = [m \in Members |-> 0] /\ Len(stack') = 0
    BY DEF Clear
<1>2. N \in Nat /\ Handler \in Members /\ 1 .. N \subseteq Members
    BY ChainAssumption DEF Members, Handler
<1>3. ChainTypeOK'
    <2>1. <<>> \in Seq(Frame) /\ [m \in Members |-> 0] \in [Members -> Nat] /\ 0 \in 0 .. N
        BY <1>2
    <2>2. QED
        BY <1>1, <2>1 DEF ChainTypeOK
<1>4. CountedOnce'
    BY <1>1, <1>2 DEF CountedOnce
<1>5. OneByOne'
    BY <1>1, <1>2 DEF OneByOne
<1>6. StillOnItsWay'
    BY <1>1, <1>2 DEF StillOnItsWay
<1>7. QED
    BY <1>3, <1>4, <1>5, <1>6 DEF ChainInv

\* Every step of the chain keeps the invariant, and a step of anything else.
LEMMA ChainStep == ChainInv /\ [ChainNext]_chain => ChainInv'
<1>1. ASSUME ChainInv, UNCHANGED chain
      PROVE  ChainInv'
    <2>1. ChainTypeOK /\ CountedOnce /\ OneByOne /\ StillOnItsWay
        BY <1>1 DEF ChainInv
    <2>2. /\ idx' = idx /\ stack' = stack /\ thrown' = thrown /\ again' = again
          /\ gaveUp' = gaveUp /\ entered' = entered
        BY <1>1 DEF chain
    <2>3. ChainTypeOK' /\ CountedOnce'
        BY <2>1, <2>2 DEF ChainTypeOK, CountedOnce
    <2>4. OneByOne' /\ StillOnItsWay'
        BY <2>1, <2>2 DEF OneByOne, StillOnItsWay, Top
    <2>5. QED
        BY <2>3, <2>4 DEF ChainInv
<1>2. QED
    BY <1>1, StartStep, CallNextStep, ReturnStep, ThrowStep, CatchStep, ClearStep
       DEF ChainNext, Step

\* What the invariant is for.
LEMMA ChainInvSays == ChainInv => EachOnce /\ LetThrough /\ AllReached
<1> SUFFICES ASSUME ChainInv
             PROVE  EachOnce /\ LetThrough /\ AllReached
    OBVIOUS
<1>1. ChainTypeOK /\ CountedOnce /\ OneByOne /\ StillOnItsWay
    BY DEF ChainInv
<1>2. /\ idx \in 0 .. N /\ N \in Nat /\ Handler = N + 1 /\ Members = 1 .. N + 1
      /\ entered \in [Members -> Nat] /\ stack \in Seq(Frame)
    BY <1>1, ChainAssumption DEF ChainTypeOK, Handler, Members
<1>3. EachOnce
    BY <1>1, <1>2 DEF CountedOnce, EachOnce
<1>4. LetThrough
    BY <1>1, <1>2 DEF OneByOne, LetThrough
<1>5. AllReached
    <2> SUFFICES ASSUME Over, ~gaveUp
                 PROVE  \A m \in Members : entered[m] > 0
        BY DEF AllReached
    <2>1. stack = <<>> /\ idx + entered[Handler] > 0
        BY DEF Over
    <2>2. idx = N /\ entered[Handler] > 0
        BY <1>1, <1>2, <2>1 DEF StillOnItsWay
    <2>3. \A m \in 1 .. N : entered[m] = 1
        BY <1>1, <1>2, <2>2 DEF CountedOnce
    <2>4. QED
        BY <1>2, <2>2, <2>3
<1>6. QED
    BY <1>3, <1>4, <1>5

-----------------------------------------------------------------------------
(* Each step is one of Response, and one of the chain, or leaves it alone. *)

\* Every call of the Response is one that module Response has.
LEMMA CallsAreCalls ==
    ASSUME NEW n \in Sizes
    PROVE  /\ SendFixed(n) => Next
           /\ FixedWrite(n) => Next
           /\ SetBody(n) => Next
<1>1. SendFixed(n) => HandlerCall
    BY DEF HandlerCall
<1>2. FixedWrite(n) => HandlerCall
    BY DEF HandlerCall
<1>3. SetBody(n) => HandlerCall
    BY DEF HandlerCall
<1>4. HandlerCall => Next
    BY DEF Next
<1>5. QED
    BY <1>1, <1>2, <1>3, <1>4

\* A step of a file handler calls the Response, or does nothing to it.
LEMMA FileStepInResponse == ServingTypeOK /\ FileStep => [Next]_vars
<1> SUFFICES ASSUME ServingTypeOK, FileStep
             PROVE  [Next]_vars
    OBVIOUS
<1>1. CASE RefusePath \/ Redirect \/ IsDirectory \/ HasIndex \/ HasNoIndex
    BY <1>1 DEF RefusePath, Redirect, IsDirectory, HasIndex, HasNoIndex
<1>2. CASE IsRegular \/ FileSize \/ OpenFile \/ CopyEnds
    BY <1>2 DEF IsRegular, FileSize, OpenFile, CopyEnds
<1>3. CASE ListDirectory
    <2>1. (\E n \in Sizes : SetBody(n)) \/ UNCHANGED vars
        BY <1>3 DEF ListDirectory
    <2>2. QED
        BY <2>1, CallsAreCalls
<1>4. CASE Announce
    <2>1. size \in Sizes
        BY <1>4 DEF Announce, ServingTypeOK, Opened
    <2>2. SendFixed(size) \/ UNCHANGED vars
        BY <1>4 DEF Announce
    <2>3. QED
        BY <2>1, <2>2, CallsAreCalls
<1>5. CASE Copy
    <2>1. \E n \in Sizes : FixedWrite(n)
        BY <1>5 DEF Copy
    <2>2. QED
        BY <2>1, CallsAreCalls
<1>6. QED
    BY <1>1, <1>2, <1>3, <1>4, <1>5 DEF FileStep

\* Whatever is done, it is done to the Response as module Response says.
LEMMA InResponse == ServingTypeOK /\ [HandlingNext]_all => [Next]_vars
<1> SUFFICES ASSUME ServingTypeOK, [HandlingNext]_all
             PROVE  [Next]_vars
    OBVIOUS
<1>1. CASE Take
    BY <1>1 DEF Take, Next
<1>2. CASE Enter \/ CallFile \/ FileReturns \/ FileThrows \/ Advance
    BY <1>2 DEF Enter, CallFile, CallFileHandler, FileReturns, FileThrows, Leave, Advance
<1>3. CASE Call
    BY <1>3 DEF Call, Next
<1>4. CASE ServeFile
    <2>1. FileStep \/ Change
        BY <1>4 DEF ServeFile
    <2>2. Change => UNCHANGED vars
        BY DEF Change
    <2>3. QED
        BY <2>1, <2>2, FileStepInResponse
<1>5. CASE Finish
    BY <1>5 DEF Finish, Next
<1>6. CASE ClientGoes
    BY <1>6 DEF ClientGoes, Next
<1>7. CASE UNCHANGED all
    BY <1>7 DEF all
<1>8. QED
    BY <1>1, <1>2, <1>3, <1>4, <1>5, <1>6, <1>7 DEF HandlingNext

\* Only the steps of the chain move it.
LEMMA InChain == [HandlingNext]_all => [ChainNext]_chain
<1> SUFFICES ASSUME [HandlingNext]_all
             PROVE  [ChainNext]_chain
    OBVIOUS
<1>1. CASE Take \/ Call \/ CallFile \/ ServeFile \/ FileReturns \/ ClientGoes
    BY <1>1 DEF Take, Call, CallFile, ServeFile, FileReturns, ClientGoes
<1>2. CASE Enter
    BY <1>2 DEF Enter, ChainNext
<1>3. CASE FileThrows
    BY <1>3 DEF FileThrows, ChainNext, Step
<1>4. CASE Advance
    BY <1>4 DEF Advance, ChainNext
<1>5. CASE Finish
    BY <1>5 DEF Finish, ChainNext
<1>6. CASE UNCHANGED all
    BY <1>6 DEF all
<1>7. QED
    BY <1>1, <1>2, <1>3, <1>4, <1>5, <1>6 DEF HandlingNext

-----------------------------------------------------------------------------
(* The file handlers.                                                      *)

\* Sizes are none of the other things a name may lead to.
LEMMA SizesAreSizes ==
    /\ Sizes \subseteq Things /\ Sizes \subseteq Nat
    /\ Nothing \notin Sizes /\ Directory \notin Sizes
    /\ Nothing \in Things
BY SizesAssumption DEF Things, Nothing, Directory

\* A step of a file handler keeps the types.
LEMMA FileStepTypes ==
    ASSUME ServingTypeOK, mhead \in BOOLEAN, FileStep
    PROVE  ServingTypeOK'
<1>1. /\ at \in {"no"} \cup ByName \cup Opened \cup Ended
      /\ thing \in Things /\ size \in Nat /\ pos \in Nat
      /\ at \in {"open"} \cup Opened => size \in Sizes
      /\ disturbed \in BOOLEAN
    BY DEF ServingTypeOK
<1> USE DEF ServingTypeOK, ByName, Opened, Ended
<1>2. CASE RefusePath \/ Redirect \/ IsDirectory \/ HasNoIndex
    BY <1>1, <1>2 DEF RefusePath, Redirect, IsDirectory, HasNoIndex, Goes, serving
<1>3. CASE HasIndex
    BY <1>1, <1>3 DEF HasIndex, Goes
<1>4. CASE ListDirectory
    BY <1>1, <1>4 DEF ListDirectory
<1>5. CASE IsRegular \/ OpenFile
    BY <1>1, <1>5 DEF IsRegular, OpenFile
<1>6. CASE FileSize
    BY <1>1, <1>6, SizesAreSizes DEF FileSize
<1>7. CASE Announce
    BY <1>1, <1>7 DEF Announce
<1>8. CASE Copy
    <2>1. PICK n \in Sizes \ {0} : pos' = pos + n
        BY <1>8 DEF Copy
    <2>2. pos' \in Nat
        BY <1>1, <2>1, SizesAreSizes
    <2>3. QED
        BY <1>1, <1>8, <2>2 DEF Copy
<1>9. CASE CopyEnds
    BY <1>1, <1>9 DEF CopyEnds, Goes
<1>10. QED
    BY <1>2, <1>3, <1>4, <1>5, <1>6, <1>7, <1>8, <1>9 DEF FileStep

\* So does every other step.
LEMMA ServingTypes ==
    ASSUME ServingTypeOK, touched \in BOOLEAN, mhead \in BOOLEAN, [HandlingNext]_all
    PROVE  ServingTypeOK' /\ touched' \in BOOLEAN
<1>1. CASE Take \/ Enter \/ Call \/ Advance \/ Finish \/ ClientGoes \/ UNCHANGED all
    <2>1. UNCHANGED serving /\ touched' \in BOOLEAN
        BY <1>1 DEF Take, Enter, Call, Advance, Finish, ClientGoes, all
    <2>2. QED
        BY <2>1 DEF serving, ServingTypeOK
<1>2. CASE CallFile
    <2>1. /\ at' \in {"exists", "directory"} /\ thing' \in Things
          /\ size' = size /\ pos' = pos /\ disturbed' = disturbed /\ touched' = touched
        BY <1>2 DEF CallFile, CallFileHandler
    <2>2. QED
        BY <2>1 DEF ServingTypeOK, ByName, Opened
<1>3. CASE ServeFile
    <2>1. touched' = touched
        BY <1>3 DEF ServeFile
    <2>2. CASE FileStep
        BY <2>1, <2>2, FileStepTypes
    <2>3. CASE Change
        <3>1. thing' \in Things /\ disturbed' = TRUE
            BY <2>3, SizesAreSizes DEF Change
        <3>2. at' = at /\ size' = size /\ pos' = pos
            BY <2>3 DEF Change
        <3>3. QED
            BY <2>1, <3>1, <3>2 DEF ServingTypeOK
    <2>4. QED
        BY <1>3, <2>2, <2>3 DEF ServeFile
<1>4. CASE FileReturns \/ FileThrows
    <2>1. Leave /\ touched' = touched
        BY <1>4 DEF FileReturns, FileThrows
    <2>2. QED
        BY <2>1, SizesAreSizes DEF Leave, ServingTypeOK, Opened
<1>5. QED
    BY <1>1, <1>2, <1>3, <1>4 DEF HandlingNext

\* A file handler that nothing disturbs has sent as much as it has read, and
\* returns when that is what it announced.
LEMMA FileStepWhole ==
    ASSUME TypeOK, ServingTypeOK, ServedWhole, FileStep, stack' = stack, touched' = touched
    PROVE  ServedWhole'
<1> DEFINE Fine == up /\ ~touched /\ ~disturbed
<1>1. /\ at # "no" => stack # <<>>
      /\ at \in {"no", "send"} \cup ByName => pos = 0
      /\ Fine => /\ ~misused
                 /\ at \in {"open", "send", "read"} => thing = size
                 /\ at = "read" => pos <= size /\ owed = size - pos
                 /\ at # "read" => owed = 0
    BY DEF ServedWhole
<1>2. /\ size \in Nat /\ pos \in Nat /\ owed \in Nat /\ mhead \in BOOLEAN
      /\ disturbed \in BOOLEAN /\ misused \in BOOLEAN
      /\ at \in {"open"} \cup Opened => size \in Sizes
    BY DEF ServingTypeOK, TypeOK
<1> USE DEF ServedWhole, ByName
<1>3. CASE RefusePath \/ Redirect \/ IsDirectory \/ HasNoIndex \/ HasIndex \/ IsRegular
    <2>1. /\ UNCHANGED vars /\ disturbed' = disturbed /\ pos' = pos
          /\ at \in {"directory", "index", "exists"}
          /\ at' \in {"returned", "index", "exists", "list", "size"}
        BY <1>3 DEF RefusePath, Redirect, IsDirectory, HasNoIndex, HasIndex, IsRegular, Goes
    <2>2. up' = up /\ misused' = misused /\ owed' = owed
        BY <2>1 DEF vars, ghosts
    <2>3. QED
        BY <1>1, <2>1, <2>2
<1>4. CASE FileSize
    <2>1. UNCHANGED vars /\ disturbed' = disturbed /\ pos' = pos /\ thing' = thing
        BY <1>4 DEF FileSize
    <2>2. up' = up /\ misused' = misused /\ owed' = owed
        BY <2>1 DEF vars, ghosts
    <2>3. at = "size" /\ (at' = "returned" \/ (at' = "open" /\ size' = thing))
        BY <1>4 DEF FileSize
    <2>4. QED
        BY <1>1, <2>1, <2>2, <2>3
<1>5. CASE OpenFile
    <2>1. /\ UNCHANGED vars /\ disturbed' = disturbed /\ pos' = pos /\ thing' = thing
          /\ size' = size /\ at = "open" /\ at' \in {"send", "returned"}
        BY <1>5 DEF OpenFile
    <2>2. up' = up /\ misused' = misused /\ owed' = owed
        BY <2>1 DEF vars, ghosts
    <2>3. QED
        BY <1>1, <2>1, <2>2
<1>6. CASE ListDirectory
    <2>1. /\ (\E n \in Sizes : SetBody(n)) \/ UNCHANGED vars
          /\ disturbed' = disturbed /\ pos' = pos
          /\ at = "list" /\ at' \in {"returned", "failed"}
        BY <1>6 DEF ListDirectory
    <2>2. up' = up /\ misused' = misused /\ owed' = owed
        BY <2>1 DEF vars, ghosts, SetBody
    <2>3. QED
        BY <1>1, <2>1, <2>2
<1>7. CASE Announce
    <2>1. at = "send" /\ thing' = thing /\ size' = size /\ pos' = pos
        BY <1>7 DEF Announce
    <2>2. CASE mstate = "Uninitialized"
        <3>1. /\ SendFixed(size) /\ at' = (IF up THEN "read" ELSE "failed")
              /\ disturbed' = (disturbed \/ mhead)
            BY <1>7, <2>2 DEF Announce
        <3>2. owed' = size /\ up' = up /\ misused' = (mhead \/ misused)
            BY <3>1 DEF SendFixed, MisusedByStream
        <3>3. QED
            BY <1>1, <1>2, <2>1, <3>1, <3>2
    <2>3. CASE mstate # "Uninitialized"
        <3>1. UNCHANGED vars /\ at' = "failed" /\ disturbed' = disturbed
            BY <1>7, <2>3 DEF Announce
        <3>2. up' = up /\ misused' = misused /\ owed' = owed
            BY <3>1 DEF vars, ghosts
        <3>3. QED
            BY <1>1, <2>1, <3>1, <3>2
    <2>4. QED
        BY <2>2, <2>3
<1>8. CASE Copy
    <2>1. PICK n \in Sizes \ {0} :
                pos + n <= thing /\ FixedWrite(n) /\ pos' = pos + n
        BY <1>8 DEF Copy
    <2>2. /\ at = "read" /\ at' = (IF up THEN "read" ELSE "failed")
          /\ thing' = thing /\ size' = size /\ disturbed' = disturbed
        BY <1>8 DEF Copy
    <2>3. /\ owed' = (IF n <= owed THEN owed - n ELSE 0) /\ up' = up
          /\ misused' = (misused \/ n > owed)
        BY <2>1 DEF FixedWrite
    <2>4. n \in Nat
        BY SizesAssumption
    <2>5. Fine => n <= owed /\ owed' = size - (pos + n) /\ pos + n <= size
        BY <1>1, <1>2, <2>1, <2>2, <2>3, <2>4
    <2>6. Fine => ~misused'
        <3>1. Fine => ~(n > owed)
            BY <1>2, <2>4, <2>5
        <3>2. QED
            BY <1>1, <2>3, <3>1
    <2>7. QED
        BY <1>1, <2>1, <2>2, <2>3, <2>5, <2>6
<1>9. CASE CopyEnds
    <2>1. /\ UNCHANGED vars /\ pos' = pos
          /\ at = "read" /\ at' = "returned"
          /\ \/ pos >= thing /\ disturbed' = disturbed
             \/ disturbed' = TRUE
        BY <1>9 DEF CopyEnds, Goes
    <2>2. up' = up /\ misused' = misused /\ owed' = owed
        BY <2>1 DEF vars, ghosts
    <2>3. Fine /\ pos >= thing => owed = 0
        BY <1>1, <1>2, <2>1
    <2>4. QED
        BY <1>1, <2>1, <2>2, <2>3
<1>10. QED
    BY <1>3, <1>4, <1>5, <1>6, <1>7, <1>8, <1>9 DEF FileStep

\* What goes on around the file handlers does not disturb them.
LEMMA WholeStep ==
    ASSUME TypeOK, ServingTypeOK, ServedWhole, [HandlingNext]_all
    PROVE  ServedWhole'
<1>1. /\ at # "no" => stack # <<>>
      /\ at \in {"no", "send"} \cup ByName => pos = 0
      /\ up /\ ~touched /\ ~disturbed =>
            /\ ~misused
            /\ at \in {"open", "send", "read"} => thing = size
            /\ at = "read" => pos <= size /\ owed = size - pos
            /\ at # "read" => owed = 0
    BY DEF ServedWhole
<1>2. CASE Take
    <2>1. UNCHANGED serving /\ stack' = stack /\ touched' = touched /\ stack = <<>>
        BY <1>2 DEF Take, chain
    <2>2. \E b, t \in BOOLEAN : Begin(b, t)
        BY <1>2 DEF Take
    <2>3. up' = up /\ misused' = misused /\ owed' = 0
        BY <2>2 DEF Begin, Construct
    <2>4. at = "no"
        BY <1>1, <2>1
    <2>5. QED
        BY <1>1, <2>1, <2>3, <2>4 DEF ServedWhole, serving
<1>3. CASE Enter
    <2>1. UNCHANGED vars /\ UNCHANGED serving /\ touched' = touched /\ stack = <<>>
        BY <1>3 DEF Enter, Start
    <2>2. at = "no"
        BY <1>1, <2>1
    <2>3. QED
        BY <1>1, <2>1, <2>2 DEF ServedWhole, serving, vars, ghosts
<1>4. CASE Call
    <2>1. UNCHANGED serving /\ stack' = stack /\ touched' = TRUE
        BY <1>4 DEF Call, chain
    <2>2. QED
        BY <1>1, <2>1 DEF ServedWhole, serving
<1>5. CASE CallFile
    <2>1. /\ UNCHANGED vars /\ stack' = stack /\ stack # <<>> /\ touched' = touched
          /\ at = "no" /\ at' \in {"exists", "directory"}
          /\ pos' = pos /\ disturbed' = disturbed
        BY <1>5 DEF CallFile, CallFileHandler, chain, Runs
    <2>2. up' = up /\ misused' = misused /\ owed' = owed
        BY <2>1 DEF vars, ghosts
    <2>3. QED
        BY <1>1, <2>1, <2>2 DEF ServedWhole
<1>6. CASE ServeFile
    <2>1. stack' = stack /\ touched' = touched
        BY <1>6 DEF ServeFile, chain
    <2>2. CASE FileStep
        BY <2>1, <2>2, FileStepWhole
    <2>3. CASE Change
        <3>1. disturbed' = TRUE /\ at' = at /\ pos' = pos
            BY <2>3 DEF Change
        <3>2. QED
            BY <1>1, <2>1, <3>1 DEF ServedWhole
    <2>4. QED
        BY <1>6, <2>2, <2>3 DEF ServeFile
<1>7. CASE FileReturns \/ FileThrows
    <2>1. /\ UNCHANGED vars /\ at \in {"returned", "failed"} /\ at' = "no" /\ pos' = 0
          /\ disturbed' = disturbed /\ touched' = touched
        BY <1>7 DEF FileReturns, FileThrows, Leave, Ended
    <2>2. up' = up /\ misused' = misused /\ owed' = owed
        BY <2>1 DEF vars, ghosts
    <2>3. QED
        BY <1>1, <2>1, <2>2 DEF ServedWhole
<1>8. CASE Advance
    <2>1. UNCHANGED vars /\ UNCHANGED serving /\ touched' = touched /\ at = "no"
        BY <1>8 DEF Advance
    <2>2. QED
        BY <1>1, <2>1 DEF ServedWhole, serving, vars, ghosts
<1>9. CASE Finish
    <2>1. UNCHANGED serving /\ touched' = touched /\ stack = <<>> /\ ReturnAndSend
        BY <1>9 DEF Finish
    <2>2. up' = up /\ owed' = owed /\ misused' = (misused \/ owed > 0)
        BY <2>1 DEF ReturnAndSend
    <2>3. at = "no"
        BY <1>1, <2>1
    <2>4. up /\ ~touched /\ ~disturbed => owed = 0 /\ ~misused'
        <3>1. up /\ ~touched /\ ~disturbed => owed = 0 /\ ~(owed > 0)
            BY <1>1, <2>3
        <3>2. QED
            BY <1>1, <2>2, <3>1
    <2>5. QED
        BY <1>1, <2>1, <2>2, <2>3, <2>4 DEF ServedWhole, serving
<1>10. CASE ClientGoes
    <2>1. up' = FALSE /\ UNCHANGED serving /\ stack' = stack
        BY <1>10 DEF ClientGoes, GoesDown, chain
    <2>2. QED
        BY <1>1, <2>1 DEF ServedWhole, serving
<1>11. CASE UNCHANGED all
    BY <1>1, <1>11 DEF ServedWhole, all, vars, ghosts, serving, chain
<1>12. QED
    BY <1>2, <1>3, <1>4, <1>5, <1>6, <1>7, <1>8, <1>9, <1>10, <1>11 DEF HandlingNext

-----------------------------------------------------------------------------
(* The theorems.                                                           *)

\* A server that has not handled anything yet satisfies the invariant.
LEMMA HandlingInitInv == HandlingInit => HandlingInv
<1> SUFFICES ASSUME HandlingInit
             PROVE  HandlingInv
    OBVIOUS
<1>1. Init /\ NotServing /\ disturbed = FALSE /\ Idle /\ touched = FALSE
    BY DEF HandlingInit
<1>2. Inv
    BY <1>1, InitInv
<1>3. ChainInv
    BY <1>1, IdleIsFine
<1>4. ServingTypeOK
    BY <1>1, SizesAreSizes DEF NotServing, ServingTypeOK, Opened
<1>5. HandlingTypeOK
    BY <1>1, <1>3, <1>4 DEF HandlingTypeOK, ChainInv
<1>6. ServedWhole
    BY <1>1 DEF ServedWhole, NotServing, Init
<1>7. QED
    BY <1>2, <1>3, <1>5, <1>6 DEF HandlingInv

\* And every step keeps it.
LEMMA HandlingNextInv == HandlingInv /\ [HandlingNext]_all => HandlingInv'
<1> SUFFICES ASSUME HandlingInv, [HandlingNext]_all
             PROVE  HandlingInv'
    OBVIOUS
<1>1. /\ Inv /\ ServingTypeOK /\ touched \in BOOLEAN /\ ChainInv /\ ServedWhole
      /\ TypeOK
    BY DEF HandlingInv, HandlingTypeOK, Inv
<1>2. Inv'
    BY <1>1, InResponse, NextInv
<1>3. ChainInv'
    BY <1>1, InChain, ChainStep
<1>4. mhead \in BOOLEAN
    BY <1>1 DEF TypeOK
<1>5. ServingTypeOK' /\ touched' \in BOOLEAN
    BY <1>1, <1>4, ServingTypes
<1>6. ServedWhole'
    BY <1>1, WholeStep
<1>7. HandlingTypeOK'
    BY <1>3, <1>5 DEF HandlingTypeOK, ChainInv
<1>8. QED
    BY <1>2, <1>3, <1>6, <1>7 DEF HandlingInv

\* The invariant of handling.
THEOREM HandlingInvariant == HandlingSpec => []HandlingInv
<1>1. QED
    BY HandlingInitInv, HandlingNextInv, PTL DEF HandlingSpec

\* The variables of the chain and of the file handlers keep their types, and a
\* size that serve_file announces is one that it was told (fs.cpp:58-80).
THEOREM HandlingTypes == HandlingSpec => []HandlingTypeOK
<1>1. HandlingInv => HandlingTypeOK
    BY DEF HandlingInv
<1>2. QED
    BY <1>1, HandlingInvariant, PTL

\* Whatever members, handlers and file handlers do, they do it to a Response
\* as module Response has it: what is proved there of every behaviour, in
\* ResponseProofs, holds of theirs (router.cpp:78-92, fs.cpp, server.cpp:54-59).
THEOREM HandlingIsOfResponse == HandlingSpec => Spec
<1>1. HandlingInit => Init
    BY DEF HandlingInit
<1>2. HandlingInv /\ [HandlingNext]_all => [Next]_vars
    BY InResponse DEF HandlingInv, HandlingTypeOK
<1>3. QED
    BY <1>1, <1>2, HandlingInvariant, PTL DEF HandlingSpec, Spec

\* So a client stays in step with handlers that keep to response.hpp.
THEOREM HandlingInStep == HandlingSpec => []ReadInStep
<1>1. QED
    BY HandlingIsOfResponse, ResponseInStep, PTL

\* However often members call next, each of them and each call of the row is
\* made at most once (router.cpp:80-88).
THEOREM ChainCallsEachOnce == HandlingSpec => []EachOnce
<1>1. HandlingInv => EachOnce
    BY ChainInvSays DEF HandlingInv
<1>2. QED
    BY <1>1, HandlingInvariant, PTL

\* Nobody is called past a member that has not let the request through, unless
\* some member calls next twice (router.cpp:80-88).
THEOREM ChainLetsThrough == HandlingSpec => []LetThrough
<1>1. HandlingInv => LetThrough
    BY ChainInvSays DEF HandlingInv
<1>2. QED
    BY <1>1, HandlingInvariant, PTL

\* When nobody gives up, every member and the handler are reached
\* (router.cpp:80-91).
THEOREM ChainReachesAll == HandlingSpec => []AllReached
<1>1. HandlingInv => AllReached
    BY ChainInvSays DEF HandlingInv
<1>2. QED
    BY <1>1, HandlingInvariant, PTL

\* Files that nothing disturbs are served whole, whatever else fails
\* (fs.cpp:51-98, file_handlers.cpp:18-59).
THEOREM FilesAreServedWhole == HandlingSpec => []FilesInStep
<1>1. HandlingInv => FilesInStep
    BY DEF HandlingInv, Inv, ServedWhole, FilesInStep, ReadInStep
<1>2. QED
    BY <1>1, HandlingInvariant, PTL

=============================================================================
