--------------------------- MODULE ListenerProofs ---------------------------
(***************************************************************************)
(* What the listener guarantees for every set of peers and every number of *)
(* descriptors, whether or not the configuration outlives bind_and_listen. *)
(***************************************************************************)
EXTENDS Listener, SequenceTheorems, FiniteSetTheorems, TLAPS

Elements(s) == {s[i] : i \in DOMAIN s}

\* No element is in the sequence twice.
Once(s) == \A i, j \in DOMAIN s : s[i] = s[j] => i = j

Coroutines == Peers \cup {Listen}

Types ==
    /\ main \in {"binding", "bound", "running"}
    /\ config \in BOOLEAN
    /\ ready \in Seq(Coroutines)
    /\ accept \in {"none", "pending", "failed"} \cup Peers
    /\ backlog \in Seq(Peers)
    /\ peer \in [Peers -> {"away", "backlog", "open", "gone"}]
    /\ timeout \in [Peers -> {"none", "configured", "arbitrary"}]
    /\ Opened <= Descriptors

\* Before bind_and_listen there is nothing that could run.
NothingYet ==
    main = "binding" =>
        ready = <<>> /\ accept = "none" /\ \A p \in Peers : peer[p] = "away"

\* listen waits for async_accept or for its turn, and what async_accept gave
\* it is a connection nobody has run.
ListenWaits ==
    /\ Once(ready)
    /\ main # "binding" => (accept = "pending" <=> Listen \notin Queued)
    /\ accept \in Peers =>
            peer[accept] = "open" /\ timeout[accept] = "none" /\ accept \notin Queued

\* A connection that is queued is open; one that never ran is queued or with
\* listen; one that is in the backlog never ran.
ConnectionsWait ==
    /\ \A p \in Peers : p \in Queued => peer[p] = "open"
    /\ \A p \in Peers :
            peer[p] = "open" /\ timeout[p] = "none" => accept = p \/ p \in Queued
    /\ Once(backlog)
    /\ \A p \in Peers : p \in Elements(backlog) <=> peer[p] = "backlog"
    /\ \A p \in Peers : peer[p] \in {"away", "backlog"} => timeout[p] = "none"

IInv == Types /\ NothingYet /\ ListenWaits /\ ConnectionsWait

-----------------------------------------------------------------------------
(* Queues.                                                                 *)

\* Taking the first element of a queue takes it from the set.
LEMMA TakeFirst ==
    ASSUME NEW S, NEW s \in Seq(S), s # <<>>, Once(s)
    PROVE  /\ Head(s) \in S /\ Head(s) \in Elements(s)
           /\ Tail(s) \in Seq(S) /\ Once(Tail(s))
           /\ Elements(Tail(s)) = Elements(s) \ {Head(s)}
<1>1. /\ Tail(s) \in Seq(S) /\ Len(Tail(s)) = Len(s) - 1
      /\ \A i \in 1 .. Len(Tail(s)) : Tail(s)[i] = s[i + 1]
      /\ Head(s) \in S
    BY HeadTailProperties
<1>2. /\ Len(s) \in Nat /\ Len(s) > 0 /\ Head(s) = s[1]
      /\ DOMAIN s = 1 .. Len(s) /\ DOMAIN Tail(s) = 1 .. Len(s) - 1
    BY <1>1, EmptySeq, LenProperties
<1>3. Once(Tail(s))
    BY <1>1, <1>2 DEF Once
<1>4. Elements(Tail(s)) \subseteq Elements(s) \ {Head(s)}
    <2> SUFFICES ASSUME NEW i \in 1 .. Len(s) - 1
                 PROVE  Tail(s)[i] \in Elements(s) /\ Tail(s)[i] # Head(s)
        BY <1>2 DEF Elements
    <2>1. Tail(s)[i] = s[i + 1] /\ i + 1 \in DOMAIN s /\ 1 \in DOMAIN s /\ i + 1 # 1
        BY <1>1, <1>2
    <2>2. QED
        BY <1>2, <2>1 DEF Elements, Once
<1>5. Elements(s) \ {Head(s)} \subseteq Elements(Tail(s))
    <2> SUFFICES ASSUME NEW i \in 1 .. Len(s), s[i] # Head(s)
                 PROVE  s[i] \in Elements(Tail(s))
        BY <1>2 DEF Elements
    <2>1. i - 1 \in DOMAIN Tail(s) /\ Tail(s)[i - 1] = s[i]
        BY <1>1, <1>2
    <2>2. QED
        BY <2>1 DEF Elements
<1>6. Head(s) \in Elements(s)
    BY <1>2 DEF Elements
<1>7. QED
    BY <1>1, <1>3, <1>4, <1>5, <1>6

\* What is appended is added to the set.
LEMMA PutLast ==
    ASSUME NEW S, NEW s \in Seq(S), NEW e \in S, Once(s), e \notin Elements(s)
    PROVE  /\ Append(s, e) \in Seq(S) /\ Once(Append(s, e))
           /\ Elements(Append(s, e)) = Elements(s) \cup {e}
<1>1. /\ Append(s, e) \in Seq(S) /\ Len(s) \in Nat
      /\ DOMAIN s = 1 .. Len(s) /\ DOMAIN Append(s, e) = 1 .. Len(s) + 1
      /\ \A i \in 1 .. Len(s) : Append(s, e)[i] = s[i]
      /\ Append(s, e)[Len(s) + 1] = e
    BY AppendProperties, LenProperties
<1>2. Once(Append(s, e))
    BY <1>1 DEF Once, Elements
<1>3. Elements(Append(s, e)) = Elements(s) \cup {e}
    BY <1>1 DEF Elements
<1>4. QED
    BY <1>1, <1>2, <1>3

\* A queue without repetitions is as long as it has elements.
LEMMA OnceCounts ==
    ASSUME NEW S, NEW s \in Seq(S), Once(s)
    PROVE  Cardinality(Elements(s)) = Len(s)
<1>1. Len(s) \in Nat /\ s \in [1 .. Len(s) -> Elements(s)] /\ DOMAIN s = 1 .. Len(s)
    BY LenProperties DEF Elements
<1>2. s \in Surjection(1 .. Len(s), Elements(s)) /\ s \in Injection(1 .. Len(s), Elements(s))
    BY <1>1 DEF Surjection, Injection, IsInjective, Elements, Once
<1>3. IsFiniteSet(1 .. Len(s)) /\ Cardinality(1 .. Len(s)) = Len(s)
    BY <1>1, FS_Interval
<1>4. QED
    BY <1>2, <1>3, FS_Surjection

-----------------------------------------------------------------------------
(* Descriptors.                                                            *)

\* Opened is a number, and no descriptor is taken where no peer comes to be
\* open.
LEMMA NoneTaken ==
    ASSUME Opened <= Descriptors,
           \A p \in Peers : peer'[p] = "open" => peer[p] = "open"
    PROVE  Opened' <= Descriptors
<1> DEFINE S == {p \in Peers : peer[p] = "open"}
           T == {p \in Peers : peer'[p] = "open"}
<1>1. IsFiniteSet(S) /\ T \in SUBSET S
    BY FS_Subset, ListenerAssumption
<1>2. Cardinality(S) \in Nat /\ Cardinality(T) \in Nat /\ Cardinality(T) <= Cardinality(S)
    BY <1>1, FS_Subset, FS_CardinalityType
<1>3. QED
    BY <1>2, ListenerAssumption DEF Opened

\* One more peer is open if there was a descriptor left.
LEMMA OneTaken ==
    ASSUME Opened <= Descriptors, ~Full, NEW h \in Peers,
           \A p \in Peers : peer'[p] = "open" => peer[p] = "open" \/ p = h
    PROVE  Opened' <= Descriptors
<1> DEFINE S == {p \in Peers : peer[p] = "open"}
           T == {p \in Peers : peer'[p] = "open"}
<1>1. IsFiniteSet(S)
    BY FS_Subset, ListenerAssumption
<1>2. /\ IsFiniteSet(S \cup {h}) /\ Cardinality(S \cup {h}) <= Cardinality(S) + 1
      /\ Cardinality(S) \in Nat
    BY <1>1, FS_AddElement, FS_CardinalityType
<1>3. T \in SUBSET (S \cup {h})
    OBVIOUS
<1>4. Cardinality(T) \in Nat /\ Cardinality(T) <= Cardinality(S \cup {h})
    BY <1>2, <1>3, FS_Subset, FS_CardinalityType
<1>5. Cardinality(S) < Descriptors
    BY <1>2, ListenerAssumption DEF Opened, Full
<1>6. Cardinality(S \cup {h}) \in Nat
    BY <1>2, FS_CardinalityType
<1>7. Cardinality(T) <= Descriptors
    BY <1>2, <1>4, <1>5, <1>6, ListenerAssumption
<1>8. QED
    BY <1>7 DEF Opened

-----------------------------------------------------------------------------
\* Nothing is bound, nobody has come.
LEMMA InitIInv == Init => IInv
<1> SUFFICES ASSUME Init
             PROVE  IInv
    OBVIOUS
<1>1. {p \in Peers : peer[p] = "open"} = {}
    BY DEF Init
<1>2. Opened <= Descriptors
    BY <1>1, FS_EmptySet, ListenerAssumption DEF Opened
<1>3. Types
    BY <1>2, ListenerAssumption DEF Init, Types
<1>4. NothingYet /\ ListenWaits /\ ConnectionsWait
    BY ListenerAssumption
       DEF Init, NothingYet, ListenWaits, ConnectionsWait, Once, Queued, Elements
<1>5. QED
    BY <1>3, <1>4 DEF IInv

\* bind_and_listen queues the coroutine listen (line 94).
LEMMA BindStep == IInv /\ Bind => IInv'
<1> SUFFICES ASSUME IInv, Bind
             PROVE  IInv'
    OBVIOUS
<1>1. ready' = <<Listen>> /\ accept' = "none" /\ Queued' = {Listen} /\ Once(ready')
    BY DEF IInv, NothingYet, Bind, Queued, Once
<1>2. Types'
    BY <1>1, ListenerAssumption DEF IInv, Types, Bind, Opened, Coroutines
<1>3. NothingYet' /\ ListenWaits'
    BY <1>1, ListenerAssumption DEF Bind, NothingYet, ListenWaits
<1>4. ConnectionsWait'
    BY <1>1, ListenerAssumption DEF IInv, NothingYet, ConnectionsWait, Bind
<1>5. QED
    BY <1>2, <1>3, <1>4 DEF IInv

\* run() starts.
LEMMA RunStep == IInv /\ Run => IInv'
BY DEF IInv, Run, Types, NothingYet, ListenWaits, ConnectionsWait, Queued, Opened

\* listen calls async_accept again, whatever the last one gave it (lines
\* 75-84).
LEMMA ListenStep == IInv /\ ListenTurn => IInv'
<1> SUFFICES ASSUME IInv, ListenTurn
             PROVE  IInv'
    OBVIOUS
<1>0. Types /\ ListenWaits /\ ConnectionsWait /\ Listen \notin Peers
    BY ListenerAssumption DEF IInv
<1>1. /\ main = "running" /\ ready # <<>> /\ Head(ready) = Listen /\ accept' = "pending"
      /\ UNCHANGED <<main, config, backlog, peer, timeout>>
    BY DEF ListenTurn, Turn
<1>2. /\ ready \in Seq(Coroutines) /\ Once(ready) /\ Queued = Elements(ready)
    BY <1>0 DEF Types, ListenWaits, Queued, Elements
<1>3. /\ Tail(ready) \in Seq(Coroutines) /\ Once(Tail(ready))
      /\ Elements(Tail(ready)) = Queued \ {Listen}
    BY <1>1, <1>2, TakeFirst
<1>4. /\ ready' \in Seq(Coroutines) /\ Once(ready')
      /\ Queued' = (Queued \ {Listen}) \cup (Peers \cap {accept})
    <2>1. CASE accept \in Peers
        <3>1. accept \in Coroutines /\ accept \notin Elements(Tail(ready))
            BY <1>0, <1>3, <2>1 DEF Coroutines, ListenWaits
        <3>2. ready' = Append(Tail(ready), accept)
            BY <1>3, <2>1, <3>1, AppendIsConcat DEF ListenTurn
        <3>3. /\ ready' \in Seq(Coroutines) /\ Once(ready')
              /\ Elements(ready') = (Queued \ {Listen}) \cup {accept}
            <4> DEFINE rest == Tail(ready)
            <4>1. /\ rest \in Seq(Coroutines) /\ Once(rest) /\ ready' = Append(rest, accept)
                  /\ Elements(rest) = Queued \ {Listen} /\ accept \notin Elements(rest)
                BY <1>3, <3>1, <3>2
            <4> HIDE DEF rest
            <4>2. QED
                BY <3>1, <4>1, PutLast
        <3>4. Queued' = Elements(ready') /\ Peers \cap {accept} = {accept}
            BY <2>1 DEF Queued, Elements
        <3>5. QED
            BY <3>3, <3>4
    <2>2. CASE accept \notin Peers
        <3>1. ready' = Tail(ready)
            BY <1>3, <2>2, ConcatEmptySeq DEF ListenTurn
        <3>2. QED
            BY <1>3, <2>2, <3>1 DEF Queued, Elements
    <2>3. QED
        BY <2>1, <2>2
<1>5. Types'
    BY <1>0, <1>1, <1>4 DEF Types, Opened
<1>6. NothingYet'
    BY <1>1 DEF NothingYet
<1>7. ListenWaits'
    BY <1>0, <1>1, <1>4, ListenerAssumption DEF ListenWaits
<1>8. ConnectionsWait'
    BY <1>0, <1>1, <1>4 DEF ConnectionsWait, ListenWaits
<1>9. QED
    BY <1>5, <1>6, <1>7, <1>8 DEF IInv

\* A connection runs until it waits again or ends (lines 26-71).
LEMMA ConnectionStep ==
    ASSUME NEW c \in Peers
    PROVE  IInv /\ ConnectionTurn(c) => IInv'
<1> SUFFICES ASSUME IInv, ConnectionTurn(c)
             PROVE  IInv'
    OBVIOUS
<1>0. Types /\ ListenWaits /\ ConnectionsWait /\ Listen \notin Peers
    BY ListenerAssumption DEF IInv
<1>1. /\ main = "running" /\ ready # <<>> /\ Head(ready) = c /\ ready' = Tail(ready)
      /\ UNCHANGED <<main, config, accept, backlog>>
    BY DEF ConnectionTurn, Turn
<1>2. /\ ready \in Seq(Coroutines) /\ Once(ready) /\ Queued = Elements(ready)
    BY <1>0 DEF Types, ListenWaits, Queued, Elements
<1>3. /\ ready' \in Seq(Coroutines) /\ Once(ready') /\ c \in Queued
      /\ Queued' = Queued \ {c}
    BY <1>1, <1>2, TakeFirst DEF Queued, Elements
<1>4. /\ peer' = peer \/ peer' = [peer EXCEPT ![c] = "gone"]
      /\ \E t \in {timeout[c], "configured", "arbitrary"} :
            timeout' = [timeout EXCEPT ![c] = t] /\ t # "none"
    BY <1>0 DEF ConnectionTurn, TimeoutRead, Types
<1>5. Types'
    <2>1. Opened' <= Descriptors
        BY <1>0, <1>4, NoneTaken DEF Types
    <2>2. QED
        BY <1>0, <1>1, <1>3, <1>4, <2>1 DEF Types
<1>6. NothingYet'
    BY <1>1 DEF NothingYet
<1>7. ListenWaits'
    BY <1>0, <1>1, <1>3, <1>4 DEF ListenWaits, Types
<1>8. ConnectionsWait'
    BY <1>0, <1>1, <1>3, <1>4 DEF ConnectionsWait, Types
<1>9. QED
    BY <1>5, <1>6, <1>7, <1>8 DEF IInv

\* async_accept ends with a connection or without (line 78).
LEMMA AcceptStep == IInv /\ AcceptEnds => IInv'
<1> SUFFICES ASSUME IInv, AcceptEnds
             PROVE  IInv'
    OBVIOUS
<1>0. Types /\ NothingYet /\ ListenWaits /\ ConnectionsWait /\ Listen \notin Peers
    BY ListenerAssumption DEF IInv
<1>1. /\ accept = "pending" /\ backlog # <<>> /\ ready' = Append(ready, Listen)
      /\ UNCHANGED <<main, config, timeout>>
    BY DEF AcceptEnds
<1>2. main # "binding" /\ Listen \notin Queued
    BY <1>0, <1>1 DEF NothingYet, ListenWaits
<1>3. /\ ready \in Seq(Coroutines) /\ Once(ready) /\ Queued = Elements(ready)
    BY <1>0 DEF Types, ListenWaits, Queued, Elements
<1>4. ready' \in Seq(Coroutines) /\ Once(ready') /\ Queued' = Queued \cup {Listen}
    BY <1>1, <1>2, <1>3, PutLast DEF Queued, Elements, Coroutines
<1>5. CASE Full
    <2>1. accept' = "failed" /\ UNCHANGED <<backlog, peer>>
        BY <1>5 DEF AcceptEnds
    <2>2. accept' \notin Peers
        BY <2>1, ListenerAssumption
    <2>3. Types'
        BY <1>0, <1>1, <1>4, <2>1 DEF Types, Opened
    <2>4. NothingYet' /\ ListenWaits'
        BY <1>1, <1>2, <1>4, <2>1, <2>2 DEF NothingYet, ListenWaits
    <2>5. ConnectionsWait'
        BY <1>0, <1>1, <1>4, <2>1, ListenerAssumption DEF ConnectionsWait
    <2>6. QED
        BY <2>3, <2>4, <2>5 DEF IInv
<1>6. CASE ~Full
    <2> DEFINE h == Head(backlog)
    <2>1. /\ accept' = h /\ backlog' = Tail(backlog)
          /\ peer' = [peer EXCEPT ![h] = "open"]
        BY <1>6 DEF AcceptEnds
    <2>2. /\ h \in Peers /\ h \in Elements(backlog) /\ Tail(backlog) \in Seq(Peers)
          /\ Once(Tail(backlog)) /\ Elements(Tail(backlog)) = Elements(backlog) \ {h}
        BY <1>0, <1>1, TakeFirst DEF Types, ConnectionsWait
    <2>3. peer[h] = "backlog" /\ timeout[h] = "none" /\ h \notin Queued
        BY <1>0, <2>2 DEF ConnectionsWait
    <2>4. /\ peer'[h] = "open"
          /\ \A p \in Peers : p # h => peer'[p] = peer[p]
        BY <1>0, <2>1, <2>2 DEF Types
    <2>5. Types'
        <3>1. Opened' <= Descriptors
            BY <1>0, <1>6, <2>2, <2>4, OneTaken DEF Types
        <3>2. QED
            BY <1>0, <1>1, <1>4, <2>1, <2>2, <3>1 DEF Types
    <2>6. NothingYet' /\ ListenWaits'
        <3>1. accept' # "pending"
            BY <2>1, <2>2, ListenerAssumption
        <3>2. QED
            BY <1>0, <1>1, <1>2, <1>4, <2>1, <2>2, <2>3, <2>4, <3>1
               DEF NothingYet, ListenWaits
    <2>7. ConnectionsWait'
        <3>1. accept \notin Peers
            BY <1>1, ListenerAssumption
        <3> HIDE DEF h
        <3>2. QED
            BY <1>0, <1>1, <1>4, <2>1, <2>2, <2>3, <2>4, <3>1 DEF ConnectionsWait
    <2>8. QED
        BY <2>5, <2>6, <2>7 DEF IInv
<1>7. QED
    BY <1>5, <1>6

\* What a connection waited for has come.
LEMMA WakeStep ==
    ASSUME NEW c \in Peers
    PROVE  IInv /\ Wake(c) => IInv'
<1> SUFFICES ASSUME IInv, Wake(c)
             PROVE  IInv'
    OBVIOUS
<1>0. Types /\ NothingYet /\ ListenWaits /\ ConnectionsWait /\ c # Listen
    BY ListenerAssumption DEF IInv
<1>1. /\ peer[c] = "open" /\ timeout[c] # "none" /\ c \notin Queued
      /\ ready' = Append(ready, c)
      /\ UNCHANGED <<main, config, accept, backlog, peer, timeout>>
    BY DEF Wake
<1>2. /\ ready \in Seq(Coroutines) /\ Once(ready) /\ Queued = Elements(ready)
      /\ c \in Coroutines
    BY <1>0 DEF Types, ListenWaits, Queued, Elements, Coroutines
<1>3. ready' \in Seq(Coroutines) /\ Once(ready') /\ Queued' = Queued \cup {c}
    BY <1>1, <1>2, PutLast DEF Queued, Elements
<1>4. Types'
    BY <1>0, <1>1, <1>3 DEF Types, Opened
<1>5. NothingYet'
    BY <1>0, <1>1 DEF NothingYet
<1>6. ListenWaits' /\ ConnectionsWait'
    BY <1>0, <1>1, <1>3 DEF ListenWaits, ConnectionsWait
<1>7. QED
    BY <1>4, <1>5, <1>6 DEF IInv

\* A peer connects.
LEMMA ConnectStep ==
    ASSUME NEW c \in Peers
    PROVE  IInv /\ Connect(c) => IInv'
<1> SUFFICES ASSUME IInv, Connect(c)
             PROVE  IInv'
    OBVIOUS
<1>0. Types /\ NothingYet /\ ListenWaits /\ ConnectionsWait
    BY DEF IInv
<1>1. /\ main # "binding" /\ peer[c] = "away"
      /\ peer' = [peer EXCEPT ![c] = "backlog"] /\ backlog' = Append(backlog, c)
      /\ UNCHANGED <<main, config, ready, accept, timeout>> /\ Queued' = Queued
    BY DEF Connect, Queued
<1>2. backlog \in Seq(Peers) /\ Once(backlog) /\ c \notin Elements(backlog)
    BY <1>0, <1>1 DEF Types, ConnectionsWait
<1>3. /\ backlog' \in Seq(Peers) /\ Once(backlog')
      /\ Elements(backlog') = Elements(backlog) \cup {c}
    BY <1>1, <1>2, PutLast
<1>4. peer'[c] = "backlog" /\ \A p \in Peers : p # c => peer'[p] = peer[p]
    BY <1>0, <1>1 DEF Types
<1>5. Types'
    <2>1. Opened' <= Descriptors
        BY <1>0, <1>4, NoneTaken DEF Types
    <2>2. QED
        BY <1>0, <1>1, <1>3, <2>1 DEF Types
<1>6. NothingYet'
    BY <1>1 DEF NothingYet
<1>7. ListenWaits'
    BY <1>0, <1>1, <1>4 DEF ListenWaits
<1>8. ConnectionsWait'
    BY <1>0, <1>1, <1>3, <1>4 DEF ConnectionsWait
<1>9. QED
    BY <1>5, <1>6, <1>7, <1>8 DEF IInv

\* Every step keeps the invariant.
LEMMA NextIInv == IInv /\ [Next]_vars => IInv'
<1> SUFFICES ASSUME IInv, [Next]_vars
             PROVE  IInv'
    OBVIOUS
<1>1. CASE Next
    BY <1>1, BindStep, RunStep, ListenStep, ConnectionStep, AcceptStep, WakeStep,
       ConnectStep DEF Next, Thread
<1>2. CASE UNCHANGED vars
    BY <1>2 DEF IInv, vars, Types, NothingYet, ListenWaits, ConnectionsWait, Queued, Opened
<1>3. QED
    BY <1>1, <1>2

-----------------------------------------------------------------------------
\* The inductive invariant: what is queued, what waits, and who is open.
THEOREM ListenerInvariant == Spec => []IInv
<1>1. QED
    BY InitIInv, NextIInv, PTL DEF Spec

\* No coroutine is queued twice, and no more sockets are open than the process
\* has descriptors (lines 74-95).
THEOREM ListenerTypes == Spec => []TypeOK
<1>1. IInv => TypeOK
    <2> SUFFICES ASSUME IInv
                 PROVE  TypeOK
        OBVIOUS
    <2>1. Cardinality(Queued) = Len(ready)
        BY OnceCounts DEF IInv, Types, ListenWaits, Queued, Elements
    <2>2. QED
        BY <2>1 DEF IInv, Types, TypeOK, Coroutines
<1>2. QED
    BY <1>1, ListenerInvariant, PTL

\* The listener outlives every failure of async_accept, and forgets no socket
\* it was given (lines 75-85).
THEOREM ListenerGoesOn == Spec => []ListenerStays
<1>1. IInv => ListenerStays
    BY DEF IInv, ListenWaits, ConnectionsWait, ListenerStays
<1>2. QED
    BY <1>1, ListenerInvariant, PTL

=============================================================================
