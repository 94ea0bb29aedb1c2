--------------------------- MODULE ResponseProofs ---------------------------
(***************************************************************************)
(* What Response guarantees for every set of sizes, every number of        *)
(* responses and every order in which handlers call its operations.        *)
(***************************************************************************)
EXTENDS Response, TLAPS

\* A response that is being made can still add one answer to those the client
\* counts, and a client within a message has not counted it yet.
RoomForAnswer ==
    /\ client.done <= begun
    /\ open /\ mstate \in {"Uninitialized", "Body"} => client.done < begun
    /\ client.at \in {"chunks", "body"} => client.done < begun

\* Where the client stands while a handler that keeps to the rules is at work.
ClientFollows ==
    open /\ up /\ ~misused /\ ~astray =>
        /\ mstate \in {"Uninitialized", "Body"} =>
                client.at = "between" /\ client.done = begun - 1 /\ owed = 0
        /\ mstate = "StreamChunk" =>
                client.at = "chunks" /\ client.done = begun - 1 /\ owed = 0 /\ ~asked
        /\ mstate = "Sent" =>
                client.at = "between" /\ client.done = begun /\ owed = 0 /\ ~asked
        /\ mstate = "StreamFixed" /\ owed = 0 =>
                client.at = "between" /\ client.done = begun /\ ~asked
        /\ mstate = "StreamFixed" /\ owed # 0 =>
                /\ client.at = "body" /\ client.left = owed /\ ~asked
                /\ client.done = begun - 1

Inv == TypeOK /\ RoomForAnswer /\ ClientFollows /\ ReadInStep

-----------------------------------------------------------------------------
(* The client.                                                             *)

\* A length alone is a framing.
LEMMA SizedIsFraming ==
    ASSUME NEW n \in Nat
    PROVE  /\ Sized(n) \in Framing /\ n # Absent
           /\ Sized(n).length = n /\ ~Sized(n).chunked
BY DEF Sized, Framing, Absent

\* Reading keeps the client a client.
LEMMA ClientTypes ==
    ASSUME NEW c \in Client, NEW f \in Framing, NEW b \in BOOLEAN, NEW n \in Nat
    PROVE  /\ ReadsHead(c, f, b) \in Client
           /\ ReadsData(c, n) \in Client
           /\ ReadsChunk(c) \in Client
           /\ ReadsLastChunk(c) \in Client
<1>1. Lost(c) \in Client /\ Finished(c) \in Client
    BY DEF Client, Positions, Lost, Finished
<1>2. ReadsHead(c, f, b) \in Client
    BY <1>1 DEF ReadsHead, Client, Positions, Framing, Absent
<1>3. ReadsData(c, n) \in Client
    BY <1>1 DEF ReadsData, Client, Positions
<1>4. QED
    BY <1>1, <1>2, <1>3 DEF ReadsChunk, ReadsLastChunk

\* A head adds at most one answer, and only when it is all there is.
Opens(c, r) ==
    \/ r.done = c.done
    \/ r.done = c.done + 1 /\ r.at = "between"

\* A part of a body adds at most one answer, and only to a message it ends.
Continues(c, r) ==
    \/ r.done = c.done /\ r.at \in {c.at, "lost"}
    \/ r.done = c.done + 1 /\ r.at = "between" /\ c.at \in {"chunks", "body"}

\* How many answers the client counts when it has read one part more.
LEMMA ClientCounts ==
    ASSUME NEW c \in Client, NEW f \in Framing, NEW b \in BOOLEAN, NEW n \in Nat
    PROVE  /\ Opens(c, ReadsHead(c, f, b))
           /\ Continues(c, ReadsData(c, n))
           /\ Continues(c, ReadsChunk(c))
           /\ Continues(c, ReadsLastChunk(c))
<1>1. Lost(c).done = c.done /\ Lost(c).at = "lost"
    BY DEF Lost
<1>2. Finished(c).done = c.done + 1 /\ Finished(c).at = "between"
    BY DEF Finished
<1>3. Opens(c, ReadsHead(c, f, b))
    BY <1>1, <1>2 DEF Opens, ReadsHead, Client, Framing
<1>4. Continues(c, ReadsData(c, n))
    BY <1>1, <1>2 DEF Continues, ReadsData, Client
<1>5. Continues(c, ReadsChunk(c)) /\ Continues(c, ReadsLastChunk(c))
    BY <1>1, <1>2 DEF Continues, ReadsChunk, ReadsLastChunk
<1>6. QED
    BY <1>3, <1>4, <1>5

-----------------------------------------------------------------------------
\* The first Response is about to be made.
LEMMA InitInv == Init => Inv
<1> SUFFICES ASSUME Init
             PROVE  Inv
    OBVIOUS
<1>1. TypeOK
    BY DEF Init, TypeOK, States, Framing, FramingOfState, Sized, Absent, Client, Positions,
           NewClient
<1>2. RoomForAnswer /\ ClientFollows /\ ReadInStep
    BY DEF Init, RoomForAnswer, ClientFollows, ReadInStep, NewClient
<1>3. QED
    BY <1>1, <1>2 DEF Inv

\* send_chunked keeps the invariant (lines 45-59).
LEMMA SendChunkedStep == Inv /\ SendChunked => Inv'
<1> SUFFICES ASSUME Inv, SendChunked
             PROVE  Inv'
    OBVIOUS
<1> USE DEF Inv, SendChunked
<1>1. /\ framing' \in Framing /\ client \in Client /\ mhead \in BOOLEAN
      /\ asked \in BOOLEAN /\ astray \in BOOLEAN /\ (mhead => asked) /\ begun \in Nat
    BY DEF TypeOK, Framing, Absent
<1>2. client' \in Client /\ (client' = client \/ Opens(client, client'))
    BY <1>1, ClientTypes, ClientCounts DEF Write
<1>3. TypeOK'
    BY <1>1, <1>2 DEF TypeOK, States, FramingOfState, MisusedByStream, Untold
<1>4. RoomForAnswer'
    BY <1>1, <1>2 DEF RoomForAnswer, Opens, Client
<1>5. ClientFollows' /\ ReadInStep'
    BY <1>1 DEF ClientFollows, ReadInStep, TypeOK, Write, ReadsHead, Client, Absent,
                MisusedByStream, Untold
<1>6. QED
    BY <1>3, <1>4, <1>5

\* send_fixed keeps the invariant (lines 61-74).
LEMMA SendFixedStep ==
    ASSUME NEW n \in Sizes
    PROVE  Inv /\ SendFixed(n) => Inv'
<1> SUFFICES ASSUME Inv, SendFixed(n)
             PROVE  Inv'
    OBVIOUS
<1> USE DEF Inv, SendFixed
<1>0. n \in Nat
    BY SizesAssumption
<1>1. framing' = Sized(n)
    <2>1. framing = Sized(0)
        BY DEF TypeOK, FramingOfState
    <2>2. QED
        BY <2>1 DEF Sized
<1>2. /\ framing' \in Framing /\ client \in Client /\ mhead \in BOOLEAN
      /\ asked \in BOOLEAN /\ astray \in BOOLEAN /\ (mhead => asked) /\ begun \in Nat
    BY <1>0, <1>1 DEF TypeOK, Framing, Sized
<1>3. client' \in Client /\ (client' = client \/ Opens(client, client'))
    BY <1>2, ClientTypes, ClientCounts DEF Write
<1>4. TypeOK'
    BY <1>0, <1>1, <1>2, <1>3 DEF TypeOK, States, FramingOfState, MisusedByStream, Untold
<1>5. RoomForAnswer'
    BY <1>2, <1>3 DEF RoomForAnswer, Opens, Client
<1>6. ASSUME up, ~asked, ~misused, ~astray
      PROVE  client' = ReadsHead(client, Sized(n), FALSE)
             /\ client.at = "between" /\ client.done = begun - 1
    BY <1>1, <1>2, <1>6 DEF Write, ClientFollows, TypeOK
<1>7. ClientFollows' /\ ReadInStep'
    <2>1. SUFFICES ASSUME up, ~asked, ~misused, ~astray
                   PROVE  /\ n = 0 => client'.at = "between" /\ client'.done = begun
                          /\ n # 0 => /\ client'.at = "body" /\ client'.left = n
                                      /\ client'.done = begun - 1
        BY DEF ClientFollows, ReadInStep, MisusedByStream, Untold
    <2>2. CASE n = 0
        BY <1>2, <1>6, <2>1, <2>2 DEF ReadsHead, Sized, Absent, Finished, Client
    <2>3. CASE n # 0
        BY <1>0, <1>2, <1>6, <2>1, <2>3 DEF ReadsHead, Sized, Absent, Client
    <2>4. QED
        BY <2>2, <2>3
<1>8. QED
    BY <1>4, <1>5, <1>7

\* ChunkedStream::write keeps the invariant (lines 76-91).
LEMMA ChunkWriteStep ==
    ASSUME NEW n \in Sizes
    PROVE  Inv /\ ChunkWrite(n) => Inv'
<1> SUFFICES ASSUME Inv, ChunkWrite(n)
             PROVE  Inv'
    OBVIOUS
<1> USE DEF Inv, ChunkWrite
<1>0. n \in Nat
    BY SizesAssumption
<1>1. /\ client \in Client /\ begun \in Nat /\ framing \in Framing
      /\ mhead \in BOOLEAN /\ asked \in BOOLEAN /\ astray \in BOOLEAN
      /\ (mhead => asked) /\ open \in BOOLEAN /\ up \in BOOLEAN /\ misused \in BOOLEAN
    BY DEF TypeOK
<1>2. client' \in Client /\ (client' = client \/ Continues(client, client'))
    BY <1>0, <1>1, ClientTypes, ClientCounts DEF Write
<1>3. TypeOK'
    BY <1>2 DEF TypeOK, FramingOfState, object
<1>4. RoomForAnswer'
    BY <1>1, <1>2 DEF RoomForAnswer, Continues, Client, object
<1>5. ClientFollows' /\ ReadInStep'
    BY <1>0, <1>1 DEF ClientFollows, ReadInStep, Write, ReadsChunk, object
<1>6. QED
    BY <1>3, <1>4, <1>5

\* ChunkedStream::end keeps the invariant (lines 93-96).
LEMMA ChunkEndStep == Inv /\ ChunkEnd => Inv'
<1> SUFFICES ASSUME Inv, ChunkEnd
             PROVE  Inv'
    OBVIOUS
<1> USE DEF Inv, ChunkEnd
<1>1. /\ client \in Client /\ begun \in Nat /\ framing \in Framing
      /\ mhead \in BOOLEAN /\ asked \in BOOLEAN /\ astray \in BOOLEAN
      /\ (mhead => asked) /\ open \in BOOLEAN /\ up \in BOOLEAN /\ misused \in BOOLEAN
    BY DEF TypeOK
<1>2. client' \in Client /\ (client' = client \/ Continues(client, client'))
    BY <1>1, ClientTypes, ClientCounts DEF Write
<1>3. TypeOK'
    BY <1>2 DEF TypeOK, FramingOfState, States
<1>4. RoomForAnswer'
    BY <1>1, <1>2 DEF RoomForAnswer, Continues, Client
<1>5. ClientFollows' /\ ReadInStep'
    BY <1>1 DEF ClientFollows, ReadInStep, Write, ReadsLastChunk, Finished, Client
<1>6. QED
    BY <1>3, <1>4, <1>5

\* FixedStream::write keeps the invariant (lines 98-100).
LEMMA FixedWriteStep ==
    ASSUME NEW n \in Sizes
    PROVE  Inv /\ FixedWrite(n) => Inv'
<1> SUFFICES ASSUME Inv, FixedWrite(n)
             PROVE  Inv'
    OBVIOUS
<1> USE DEF Inv, FixedWrite
<1>0. n \in Nat
    BY SizesAssumption
<1>1. /\ client \in Client /\ begun \in Nat /\ framing \in Framing /\ owed \in Nat
      /\ mhead \in BOOLEAN /\ asked \in BOOLEAN /\ astray \in BOOLEAN
      /\ (mhead => asked) /\ open \in BOOLEAN /\ up \in BOOLEAN /\ misused \in BOOLEAN
    BY DEF TypeOK
<1>2. client' \in Client /\ (client' = client \/ Continues(client, client'))
    BY <1>0, <1>1, ClientTypes, ClientCounts DEF Write
<1>3. owed' \in Nat /\ misused' \in BOOLEAN
    BY <1>0, <1>1
<1>4. TypeOK'
    BY <1>2, <1>3 DEF TypeOK, FramingOfState, object
<1>5. RoomForAnswer'
    BY <1>1, <1>2 DEF RoomForAnswer, Continues, Client, object
<1>6. ClientFollows' /\ ReadInStep'
    <2> SUFFICES ASSUME up, ~misused, ~astray, n <= owed
                 PROVE  /\ owed' = 0 => client'.at = "between" /\ client'.done = begun
                        /\ owed' # 0 => /\ client'.at = "body" /\ client'.left = owed'
                                        /\ client'.done = begun - 1
                        /\ ~asked
        BY <1>0, <1>1 DEF ClientFollows, ReadInStep, object
    <2>1. owed' = owed - n /\ client' = ReadsData(client, n)
        BY DEF Write
    <2>2. CASE owed = 0
        BY <1>0, <1>1, <2>1, <2>2 DEF ClientFollows, ReadsData
    <2>3. CASE owed # 0 /\ n = owed
        BY <1>0, <1>1, <2>1, <2>3 DEF ClientFollows, ReadsData, Finished, Client
    <2>4. CASE owed # 0 /\ n < owed
        BY <1>0, <1>1, <2>1, <2>4 DEF ClientFollows, ReadsData, Client
    <2>5. QED
        BY <1>0, <1>1, <2>2, <2>3, <2>4
<1>7. QED
    BY <1>4, <1>5, <1>6

\* set_body keeps the invariant: nothing is written yet (lines 131-139).
LEMMA SetBodyStep ==
    ASSUME NEW n \in Sizes
    PROVE  Inv /\ SetBody(n) => Inv'
<1> SUFFICES ASSUME Inv, SetBody(n)
             PROVE  Inv'
    OBVIOUS
<1> USE DEF Inv, SetBody
<1>0. n \in Nat
    BY SizesAssumption
<1>1. framing' = Sized(n)
    <2>1. framing = Sized(0)
        BY DEF TypeOK, FramingOfState
    <2>2. QED
        BY <2>1 DEF Sized
<1>2. framing' \in Framing
    <2> HIDE DEF Inv, SetBody
    <2>1. Sized(n) \in Framing
        BY <1>0, SizedIsFraming
    <2>2. QED
        BY <1>1, <2>1
<1>3. TypeOK'
    BY <1>0, <1>1, <1>2 DEF TypeOK, FramingOfState, States, ghosts
<1>4. RoomForAnswer' /\ ClientFollows' /\ ReadInStep'
    BY DEF RoomForAnswer, ClientFollows, ReadInStep, ghosts
<1>5. QED
    BY <1>3, <1>4

\* What a client can have made of a response that was written as a whole.
LEMMA WholeCounts ==
    ASSUME NEW c \in Client, NEW r \in {Lost(c), Finished(c), Lost(Finished(c))}
    PROVE  /\ r \in Client
           /\ r.done \in {c.done, c.done + 1}
           /\ r.at \in {"between", "lost"}
BY DEF Lost, Finished, Client, Positions

\* What a client reads of a response with a buffered body, or none: asked for
\* a head only or not (a), written without its body or not (b).
LEMMA WholeResponse ==
    ASSUME NEW c \in Client, NEW n \in Nat, NEW a \in BOOLEAN, NEW b \in BOOLEAN, b => a,
           NEW r, r = ReadsData(ReadsHead(c, Sized(n), a), IF b THEN 0 ELSE n)
    PROVE  /\ r \in {Lost(c), Finished(c), Lost(Finished(c))}
           /\ c.at # "between" => r = Lost(c)
           /\ c.at = "between" /\ (a /\ ~b => n = 0) => r = Finished(c)
<1> DEFINE h == ReadsHead(c, Sized(n), a)
           k == IF b THEN 0 ELSE n
<1>a. r = ReadsData(h, k)
    OBVIOUS
<1>0. Sized(n).length = n /\ ~Sized(n).chunked /\ n # Absent
    BY DEF Sized, Absent
<1>1. CASE c.at # "between"
    <2>1. h = Lost(c)
        BY <1>0, <1>1 DEF ReadsHead
    <2>2. h.at = "lost" /\ Lost(h) = h
        BY <2>1 DEF Lost
    <2>3. ReadsData(h, k) = h
        BY <2>2 DEF ReadsData
    <2>4. r = Lost(c)
        BY <1>a, <2>1, <2>3
    <2>5. QED
        BY <1>1, <2>4
<1>2. CASE c.at = "between" /\ (a \/ n = 0)
    <2>1. h = Finished(c)
        BY <1>0, <1>2 DEF ReadsHead
    <2>2. h.at = "between"
        BY <2>1 DEF Finished
    <2>3. CASE k = 0
        <3>1. r = Finished(c)
            BY <1>a, <2>1, <2>3 DEF ReadsData
        <3>2. QED
            BY <1>2, <3>1
    <2>4. CASE k # 0
        <3>1. k > 0
            BY <2>4
        <3>2. r = Lost(h)
            BY <1>a, <2>2, <3>1 DEF ReadsData
        <3>3. a /\ ~b /\ n # 0
            BY <1>2, <2>4
        <3>4. QED
            BY <1>2, <2>1, <3>2, <3>3
    <2>5. QED
        BY <2>3, <2>4
<1>3. CASE c.at = "between" /\ ~a /\ n # 0
    <2>1. h = [at |-> "body", left |-> n, done |-> c.done]
        BY <1>0, <1>3 DEF ReadsHead
    <2>2. k = n /\ k > 0
        BY <1>3
    <2>3. r = Finished(c)
        BY <1>a, <2>1, <2>2 DEF ReadsData, Finished
    <2>4. QED
        BY <1>3, <2>3
<1>4. QED
    BY <1>1, <1>2, <1>3

\* What send() leaves a client with, in each state (lines 102-129).
LEMMA SendReads ==
    ASSUME Inv, open,
           framing' = IF mstate = "Uninitialized" THEN [framing EXCEPT !.length = 0]
                      ELSE framing
    PROVE  /\ framing' = framing
           /\ Sent \in Client
           /\ Sent.done <= begun
           /\ Sent.at \in {"chunks", "body"} => Sent.done < begun
           /\ up /\ ~misused /\ ~astray /\ owed = 0
                /\ ~(Untold /\ mstate = "Body" /\ body > 0)
                => Sent.at = "between" /\ Sent.done = begun
<1> USE DEF Inv
<1>1. /\ client \in Client /\ begun \in Nat /\ framing \in Framing /\ owed \in Nat
      /\ mhead \in BOOLEAN /\ asked \in BOOLEAN /\ astray \in BOOLEAN
      /\ (mhead => asked) /\ body \in Nat /\ mstate \in States
      /\ up \in BOOLEAN /\ misused \in BOOLEAN
    BY DEF TypeOK
<1>2. CASE mstate = "Uninitialized"
    <2>1. framing = Sized(0)
        BY <1>2 DEF TypeOK, FramingOfState
    <2>2. framing' = Sized(0) /\ framing' = framing
        BY <1>2, <2>1 DEF Sized
    <2>3. ReadsData(ReadsHead(client, Sized(0), asked), IF mhead THEN 0 ELSE 0)
            = ReadsHead(client, Sized(0), asked)
        BY DEF ReadsData
    <2>4. Sent = ReadsHead(client, Sized(0), asked)
        BY <1>2, <2>2 DEF Sent
    <2>5. /\ Sent \in {Lost(client), Finished(client), Lost(Finished(client))}
          /\ client.at = "between" => Sent = Finished(client)
        <3> HIDE DEF Inv
        <3>1. Sent = ReadsData(ReadsHead(client, Sized(0), asked), IF mhead THEN 0 ELSE 0)
            BY <2>3, <2>4
        <3>2. 0 \in Nat
            OBVIOUS
        <3>3. QED
            BY <1>1, <3>1, <3>2, WholeResponse
    <2>6. /\ Sent \in Client /\ Sent.done \in {client.done, client.done + 1}
          /\ Sent.at \in {"between", "lost"}
        BY <1>1, <2>5, WholeCounts
    <2>7. QED
        BY <1>1, <1>2, <2>2, <2>5, <2>6
           DEF RoomForAnswer, ClientFollows, Finished, Client
<1>3. CASE mstate = "Body"
    <2>1. framing = Sized(body) /\ framing' = framing
        BY <1>3 DEF TypeOK, FramingOfState
    <2>2. Sent = ReadsData(ReadsHead(client, Sized(body), asked),
                           IF mhead THEN 0 ELSE body)
        BY <1>3, <2>1 DEF Sent
    <2>3. /\ Sent \in {Lost(client), Finished(client), Lost(Finished(client))}
          /\ client.at = "between" /\ (asked /\ ~mhead => body = 0)
                => Sent = Finished(client)
        <3> HIDE DEF Inv
        <3>1. QED
            BY <1>1, <2>2, WholeResponse
    <2>4. /\ Sent \in Client /\ Sent.done \in {client.done, client.done + 1}
          /\ Sent.at \in {"between", "lost"}
        BY <1>1, <2>3, WholeCounts
    <2>5. QED
        BY <1>1, <1>3, <2>1, <2>3, <2>4
           DEF Untold, RoomForAnswer, ClientFollows, Finished, Client
<1>4. CASE mstate = "StreamChunk"
    <2>1. Sent = ReadsLastChunk(client) /\ framing' = framing
        BY <1>4 DEF Sent
    <2>2. Sent \in Client /\ Continues(client, Sent)
        BY <1>1, <2>1, ClientTypes, ClientCounts
    <2>3. Sent.done <= begun /\ (Sent.at \in {"chunks", "body"} => Sent.done < begun)
        BY <1>1, <2>2 DEF Continues, RoomForAnswer, Client
    <2>4. up /\ ~misused /\ ~astray => Sent.at = "between" /\ Sent.done = begun
        BY <1>1, <1>4, <2>1 DEF ClientFollows, ReadsLastChunk, Finished, Client
    <2>5. QED
        BY <2>1, <2>2, <2>3, <2>4
<1>5. CASE mstate \in {"StreamFixed", "Sent"}
    <2>1. Sent = client /\ framing' = framing
        BY <1>5 DEF Sent
    <2>2. QED
        BY <1>1, <1>5, <2>1 DEF RoomForAnswer, ClientFollows
<1>6. QED
    BY <1>1, <1>2, <1>3, <1>4, <1>5 DEF States

\* The return of a handler keeps the invariant.
LEMMA ReturnAndSendStep == Inv /\ ReturnAndSend => Inv'
<1> SUFFICES ASSUME Inv, ReturnAndSend
             PROVE  Inv'
    OBVIOUS
<1> USE DEF ReturnAndSend
<1>1. /\ client \in Client /\ begun \in Nat /\ framing \in Framing /\ owed \in Nat
      /\ up \in BOOLEAN /\ misused \in BOOLEAN
    BY DEF Inv, TypeOK
<1>2. /\ framing' = framing /\ Sent \in Client /\ Sent.done <= begun
      /\ Sent.at \in {"chunks", "body"} => Sent.done < begun
      /\ up /\ ~misused /\ ~astray /\ owed = 0
            /\ ~(Untold /\ mstate = "Body" /\ body > 0)
            => Sent.at = "between" /\ Sent.done = begun
    BY SendReads
<1>3. client' = client \/ client' = Sent
    BY DEF Write
<1>4. TypeOK'
    BY <1>1, <1>2, <1>3 DEF Inv, TypeOK, FramingOfState
<1>5. RoomForAnswer'
    BY <1>2, <1>3 DEF Inv, RoomForAnswer
<1>6. ReadInStep'
    <2> SUFFICES ASSUME up', ~misused', ~astray'
                 PROVE  client'.at = "between" /\ client'.done = begun'
        BY DEF ReadInStep
    <2>1. /\ up /\ ~misused /\ ~astray /\ owed = 0
          /\ ~(Untold /\ mstate = "Body" /\ body > 0)
        <3>1. /\ up' = up /\ misused' = (misused \/ owed > 0)
              /\ astray' = (astray \/ (Untold /\ mstate = "Body" /\ body > 0))
            OBVIOUS
        <3> HIDE DEF ReturnAndSend
        <3>2. /\ up /\ ~misused /\ ~(owed > 0) /\ ~astray
              /\ ~(Untold /\ mstate = "Body" /\ body > 0)
            BY <1>1, <3>1
        <3>3. QED
            BY <1>1, <3>2
    <2>2. client' = Sent
        BY <2>1 DEF Write
    <2>3. QED
        BY <1>2, <2>1, <2>2
<1>7. ClientFollows'
    BY DEF ClientFollows
<1>8. QED
    BY <1>4, <1>5, <1>6, <1>7 DEF Inv

\* A new Response keeps the invariant (response.hpp, lines 14-23).
LEMMA BeginStep ==
    ASSUME NEW b \in BOOLEAN, NEW t \in BOOLEAN
    PROVE  Inv /\ Begin(b, t) => Inv'
<1> SUFFICES ASSUME Inv, Begin(b, t)
             PROVE  Inv'
    OBVIOUS
<1> USE DEF Begin, Construct
<1>1. client \in Client /\ begun \in Nat /\ up \in BOOLEAN /\ misused \in BOOLEAN
    BY DEF Inv, TypeOK
<1>2. Sized(0) \in Framing
    BY DEF Sized, Framing
<1>3. TypeOK'
    BY <1>1, <1>2 DEF Inv, TypeOK, FramingOfState, States
<1>4. RoomForAnswer'
    BY <1>1 DEF Inv, RoomForAnswer, Client
<1>5. ClientFollows' /\ ReadInStep'
    BY <1>1 DEF Inv, ClientFollows, ReadInStep
<1>6. QED
    BY <1>3, <1>4, <1>5 DEF Inv

\* Every step keeps the invariant.
LEMMA NextInv == Inv /\ [Next]_vars => Inv'
<1> SUFFICES ASSUME Inv, [Next]_vars
             PROVE  Inv'
    OBVIOUS
<1>1. CASE \E b, t \in BOOLEAN : Begin(b, t)
    BY <1>1, BeginStep
<1>2. CASE HandlerCall
    BY <1>2, SendChunkedStep, ChunkEndStep, SendFixedStep, ChunkWriteStep,
       FixedWriteStep, SetBodyStep DEF HandlerCall
<1>3. CASE ReturnAndSend
    BY <1>3, ReturnAndSendStep
<1>4. CASE GoesDown
    BY <1>4 DEF GoesDown, Inv, TypeOK, FramingOfState, RoomForAnswer, ClientFollows,
                ReadInStep, object, ghosts
<1>5. CASE UNCHANGED vars
    BY <1>5 DEF vars, Inv, TypeOK, FramingOfState, RoomForAnswer, ClientFollows,
                ReadInStep, object, ghosts
<1>6. QED
    BY <1>1, <1>2, <1>3, <1>4, <1>5 DEF Next

-----------------------------------------------------------------------------
\* The inductive invariant: where the client stands in each state of the
\* Response, and that there is room for the answer still to come.
THEOREM ResponseInvariant == Spec => []Inv
<1>1. QED
    BY InitInv, NextInv, PTL DEF Spec

\* The state of a Response and its framing headers agree (every operation).
THEOREM ResponseTypes == Spec => []TypeOK
<1>1. Inv => TypeOK
    BY DEF Inv
<1>2. QED
    BY <1>1, ResponseInvariant, PTL

\* Handlers that keep to response.hpp, whatever sizes they write in whatever
\* order, leave the client with exactly the responses that were begun (the
\* five states of m_state and send()).
THEOREM ResponseInStep == Spec => []ReadInStep
<1>1. Inv => ReadInStep
    BY DEF Inv
<1>2. QED
    BY <1>1, ResponseInvariant, PTL

\* No handler at all, also one that ends a stream twice or writes more than it
\* announced, makes a client take one response for two (the guards of
\* send_chunked, send_fixed and set_body).
THEOREM ResponseNoSurplus == Spec => []NoSurplusResponse
<1>1. Inv => NoSurplusResponse
    BY DEF Inv, RoomForAnswer, NoSurplusResponse
<1>2. QED
    BY <1>1, ResponseInvariant, PTL

=============================================================================
