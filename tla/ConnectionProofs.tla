-------------------------- MODULE ConnectionProofs --------------------------
(***************************************************************************)
(* What handle_conn guarantees for every number of requests, every set of  *)
(* sizes, and every order in which the peer, the timer and the handlers    *)
(* act.  Until a handler throws, the Response and its client are as        *)
(* ResponseProofs has them; a Response that takes the place of one thrown  *)
(* away finds the client wherever that one left it, and one that is left   *)
(* by an exception nobody catches leaves the client there.                 *)
(***************************************************************************)
EXTENDS Connection, TLAPS

RP == INSTANCE ResponseProofs WITH MaxResponses <- MaxRequests

\* Where handle_conn can stand, and which reason it can have to end.
Control ==
    /\ pc \in {"loop", "race", "handler", "last", "ended"}
    /\ parser \in {"idle", "busy", "spinning"} \cup Outcomes
    /\ timer \in {"off", "armed", "cancelled", "expired"}
    /\ first \in {"none", "parser", "timer"}
    /\ ending \in Endings
    /\ open <=> pc \in {"handler", "last"}
    /\ ending # "none" <=> pc \in {"last", "ended"}
    /\ ending = "escaped" => pc = "ended"

\* The Response that follows one thrown away is empty, and a client that is
\* between two responses has read all of them but, perhaps, the last.
Replaced ==
    pc = "last" /\ ending = "failed" =>
        /\ mstate = "Uninitialized" /\ framing = R!Sized(0) /\ owed = 0
        /\ up /\ ~misused /\ ~astray /\ client.at = "between" =>
                client.done \in {begun - 1, begun}

\* No handler has thrown: what ResponseProofs says of a Response holds.
Undisturbed == ending \notin {"failed", "escaped"}

IInv ==
    /\ Control
    /\ R!TypeOK
    /\ Undisturbed => RP!Inv
    /\ Replaced
    /\ EndsAnswered

-----------------------------------------------------------------------------
\* The Response of Connection is the one of ResponseProofs.
LEMMA SameOperations ==
    /\ R!HandlerCall <=> RP!HandlerCall
    /\ R!ReturnAndSend <=> RP!ReturnAndSend
    /\ R!GoesDown <=> RP!GoesDown
    /\ \A b, t \in BOOLEAN : R!Begin(b, t) <=> RP!Begin(b, t)
<1>1. R!HandlerCall <=> RP!HandlerCall
    BY DEF R!HandlerCall, RP!HandlerCall, R!SendChunked, RP!SendChunked, R!ChunkEnd,
           RP!ChunkEnd, R!SendFixed, RP!SendFixed, R!ChunkWrite, RP!ChunkWrite,
           R!FixedWrite, RP!FixedWrite, R!SetBody, RP!SetBody, R!Write, RP!Write,
           R!ReadsHead, RP!ReadsHead, R!ReadsChunk, RP!ReadsChunk, R!ReadsData,
           RP!ReadsData, R!ReadsLastChunk, RP!ReadsLastChunk, R!Lost, RP!Lost,
           R!Finished, RP!Finished, R!Absent, RP!Absent, R!MisusedByStream,
           RP!MisusedByStream, R!Untold, RP!Untold, R!object, RP!object, R!ghosts,
           RP!ghosts
<1>2. R!ReturnAndSend <=> RP!ReturnAndSend
    BY DEF R!ReturnAndSend, RP!ReturnAndSend, R!Sent, RP!Sent, R!Write, RP!Write,
           R!ReadsHead, RP!ReadsHead, R!ReadsData, RP!ReadsData, R!ReadsLastChunk,
           RP!ReadsLastChunk, R!Lost, RP!Lost, R!Finished, RP!Finished, R!Absent,
           RP!Absent, R!Untold, RP!Untold
<1>3. R!GoesDown <=> RP!GoesDown
    BY DEF R!GoesDown, RP!GoesDown, R!object, RP!object, R!ghosts, RP!ghosts
<1>4. \A b, t \in BOOLEAN : R!Begin(b, t) <=> RP!Begin(b, t)
    BY DEF R!Begin, RP!Begin, R!Construct, RP!Construct, R!Sized, RP!Sized
<1>5. QED
    BY <1>1, <1>2, <1>3, <1>4

\* So are its states.
LEMMA SameStates ==
    /\ R!Init <=> RP!Init
    /\ R!TypeOK <=> RP!TypeOK
    /\ R!TypeOK' <=> RP!TypeOK'
<1>1. R!Init <=> RP!Init
    BY DEF R!Init, RP!Init, R!Sized, RP!Sized, R!NewClient, RP!NewClient
<1>2. R!TypeOK <=> RP!TypeOK
    BY DEF R!TypeOK, RP!TypeOK, R!FramingOfState, RP!FramingOfState, R!States, RP!States,
           R!Framing, RP!Framing, R!Absent, RP!Absent, R!Sized, RP!Sized, R!Client,
           RP!Client, R!Positions, RP!Positions
<1>3. R!TypeOK' <=> RP!TypeOK'
    BY DEF R!TypeOK, RP!TypeOK, R!FramingOfState, RP!FramingOfState, R!States, RP!States,
           R!Framing, RP!Framing, R!Absent, RP!Absent, R!Sized, RP!Sized, R!Client,
           RP!Client, R!Positions, RP!Positions
<1>4. QED
    BY <1>1, <1>2, <1>3

\* What ResponseProofs says of a Response holds as long as it is used as one.
LEMMA ResponseKeeps ==
    ASSUME RP!Inv,
           \/ \E b, t \in BOOLEAN : R!Begin(b, t)
           \/ R!HandlerCall \/ R!ReturnAndSend \/ R!GoesDown
           \/ UNCHANGED response
    PROVE  RP!Inv' /\ R!TypeOK'
<1>1. [RP!Next]_(RP!vars)
    <2>1. CASE UNCHANGED response
        BY <2>1 DEF response, RP!vars, RP!object, RP!ghosts
    <2>2. CASE ~UNCHANGED response
        BY <2>2, SameOperations DEF RP!Next
    <2>3. QED
        BY <2>1, <2>2
<1>2. RP!Inv'
    BY <1>1, RP!NextInv, RequestsAssumption
<1>3. RP!TypeOK'
    BY <1>2 DEF RP!Inv
<1>4. QED
    BY <1>2, <1>3, SameStates

\* Whoever ends a connection between two responses leaves nobody unanswered.
LEMMA EndsWithAnswers == (Control /\ Undisturbed /\ RP!Inv => EndsAnswered)'
BY DEF Control, Undisturbed, EndsAnswered, Answered, RP!Inv, RP!ReadInStep

-----------------------------------------------------------------------------
\* The first iteration of the loop.
LEMMA InitIInv == Init => IInv
<1> SUFFICES ASSUME Init
             PROVE  IInv
    OBVIOUS
<1>1. RP!Inv
    BY SameStates, RP!InitInv, RequestsAssumption DEF Init
<1>2. R!TypeOK
    BY <1>1, SameStates DEF RP!Inv
<1>3. Control /\ Replaced /\ EndsAnswered
    BY DEF Init, R!Init, Control, Endings, Replaced, EndsAnswered, Answered
<1>4. QED
    BY <1>1, <1>2, <1>3 DEF IInv

\* The race of parser and timer does not touch the Response (lines 27-38).
LEMMA RaceStep ==
    ASSUME IInv,
           \/ Wait \/ ParserComes \/ ParserCancelled \/ ParserSpins
           \/ TimerExpires \/ Timeout \/ Closed
    PROVE  IInv'
<1>1. ending = "none" /\ Undisturbed' /\ UNCHANGED response
    BY DEF IInv, Control, Undisturbed, Wait, ParserComes, ParserCancelled, ParserEnds,
           ParserSpins, TimerExpires, Timeout, Closed, Decided
<1>2. RP!Inv' /\ R!TypeOK'
    BY <1>1, ResponseKeeps DEF IInv, Undisturbed
<1>3. Control'
    <2>1. CASE Wait
        BY <2>1 DEF IInv, Control, Wait, response
    <2>2. ASSUME NEW outcome \in Outcomes, ParserEnds(outcome)
          PROVE  Control'
        BY <2>2 DEF IInv, Control, ParserEnds, Ranked, response
    <2>3. CASE TimerExpires
        BY <2>3 DEF IInv, Control, TimerExpires, Ranked, response
    <2>4. CASE Timeout \/ Closed
        BY <2>4 DEF IInv, Control, Timeout, Closed, Decided, Endings, race, response
    <2>5. CASE ParserSpins
        BY <2>5 DEF IInv, Control, ParserSpins, response
    <2>6. QED
        BY <2>1, <2>2, <2>3, <2>4, <2>5 DEF ParserComes, ParserCancelled
<1>4. Replaced'
    BY <1>1 DEF Replaced, Undisturbed
<1>5. QED
    BY <1>1, <1>2, <1>3, <1>4, EndsWithAnswers DEF IInv

\* A request or a parse error has a Response made for it (lines 46-57).
LEMMA TakeStep ==
    ASSUME IInv, TakeError \/ TakeRequest
    PROVE  IInv'
<1>1. /\ pc = "race" /\ ending = "none" /\ ending' \in {"none", "refused"}
      /\ \E b \in BOOLEAN : R!Begin(b, FALSE)
    BY DEF IInv, Control, TakeError, TakeRequest, Decided
<1>2. RP!Inv' /\ R!TypeOK' /\ Undisturbed'
    BY <1>1, ResponseKeeps DEF IInv, Undisturbed
<1>3. open'
    BY <1>1 DEF R!Begin
<1>4. Control'
    BY <1>1, <1>3 DEF IInv, Control, TakeError, TakeRequest, Endings, race
<1>5. Replaced'
    BY <1>1 DEF Replaced
<1>6. QED
    BY <1>1, <1>2, <1>4, <1>5, EndsWithAnswers DEF IInv

\* The handler calls, or returns to be sent (lines 54-60).
LEMMA HandlerStep ==
    ASSUME IInv, HandlerCalls \/ HandlerReturns
    PROVE  IInv'
<1>1. /\ pc = "handler" /\ ending = "none" /\ ending' = "none"
      /\ R!HandlerCall \/ R!ReturnAndSend
    BY DEF IInv, Control, HandlerCalls, HandlerReturns
<1>2. RP!Inv' /\ R!TypeOK' /\ Undisturbed'
    BY <1>1, ResponseKeeps DEF IInv, Undisturbed
<1>3. Control'
    <2>1. CASE HandlerCalls
        <3>1. open' = open
            BY <2>1 DEF HandlerCalls, R!HandlerCall, R!SendChunked, R!ChunkEnd, R!SendFixed,
                        R!ChunkWrite, R!FixedWrite, R!SetBody
        <3>2. QED
            BY <2>1, <3>1 DEF IInv, Control, HandlerCalls, race
    <2>2. CASE HandlerReturns
        BY <2>2 DEF IInv, Control, HandlerReturns, R!ReturnAndSend, race
    <2>3. QED
        BY <2>1, <2>2
<1>4. Replaced'
    BY <1>1 DEF Replaced
<1>5. QED
    BY <1>1, <1>2, <1>3, <1>4, EndsWithAnswers DEF IInv

\* The handler or send() throws: a Response that was not told of anything
\* takes the place of its own (lines 61-66).
LEMMA HandlerFailsStep ==
    ASSUME IInv, HandlerFails
    PROVE  IInv'
<1>1. RP!Inv /\ pc = "handler" /\ open /\ ending = "none"
    BY DEF IInv, Control, Undisturbed, HandlerFails
<1>2. pc' = "last" /\ ending' = "failed"
    BY DEF HandlerFails
<1>3. Control'
    BY <1>1, <1>2 DEF IInv, Control, HandlerFails, Endings, race
<1>4. R!TypeOK'
    <2>1. R!Sized(0) \in R!Framing
        BY DEF R!Sized, R!Framing
    <2>2. QED
        BY <2>1 DEF IInv, HandlerFails, R!Construct, R!TypeOK, R!FramingOfState, R!States
<1>5. Replaced'
    <2>1. up /\ ~misused /\ ~astray /\ client.at = "between" =>
                client.done \in {begun - 1, begun}
        <3>1. mstate \in RP!States
            BY <1>1 DEF RP!Inv, RP!TypeOK
        <3>2. QED
            BY <1>1, <3>1 DEF RP!Inv, RP!ClientFollows, RP!States
    <2>2. QED
        BY <2>1 DEF Replaced, HandlerFails, R!Construct
<1>6. EndsAnswered'
    BY <1>2 DEF EndsAnswered
<1>7. QED
    BY <1>2, <1>3, <1>4, <1>5, <1>6 DEF IInv, Undisturbed

\* What line 61 does not catch leaves the client where the handler left it:
\* with all answers but the last, or with that one too.
LEMMA HandlerEscapesStep ==
    ASSUME IInv, HandlerEscapes
    PROVE  IInv'
<1>1. RP!Inv /\ pc = "handler" /\ open /\ ending = "none"
    BY DEF IInv, Control, Undisturbed, HandlerEscapes
<1>2. pc' = "ended" /\ ending' = "escaped" /\ ~open'
    BY DEF HandlerEscapes
<1>3. Control' /\ Replaced'
    BY <1>1, <1>2 DEF IInv, Control, Replaced, HandlerEscapes, Endings, race
<1>4. R!TypeOK'
    BY DEF IInv, HandlerEscapes, R!TypeOK, R!FramingOfState
<1>5. EndsAnswered'
    <2>1. up /\ ~misused /\ ~astray =>
                client.at # "lost" /\ client.done \in {begun - 1, begun}
        <3>1. mstate \in RP!States
            BY <1>1 DEF RP!Inv, RP!TypeOK
        <3>2. QED
            BY <1>1, <3>1 DEF RP!Inv, RP!ClientFollows, RP!States
    <2>2. QED
        BY <1>2, <2>1 DEF EndsAnswered, HandlerEscapes
<1>6. QED
    BY <1>2, <1>3, <1>4, <1>5 DEF IInv, Undisturbed

\* The last answer is sent.  The one that follows a response thrown away ends
\* what that one left, or is taken for one answer more (lines 47-49, 66-67).
LEMMA SendLastStep ==
    ASSUME IInv, SendLast
    PROVE  IInv'
<1>1. pc = "last" /\ open /\ R!ReturnAndSend /\ pc' = "ended" /\ ending' = ending
    BY DEF IInv, Control, SendLast
<1>2. Control'
    BY <1>1 DEF IInv, Control, SendLast, R!ReturnAndSend, race
<1>3. Replaced'
    BY <1>1 DEF Replaced
<1>4. CASE Undisturbed
    <2>1. RP!Inv' /\ R!TypeOK' /\ Undisturbed'
        BY <1>1, <1>4, ResponseKeeps DEF IInv, Undisturbed
    <2>2. QED
        BY <1>1, <1>2, <1>3, <1>4, <2>1, EndsWithAnswers DEF IInv
<1>5. CASE ending = "failed"
    <2>1. /\ mstate = "Uninitialized" /\ framing = R!Sized(0) /\ owed = 0
          /\ client \in R!Client /\ begun \in Nat
        BY <1>1, <1>5 DEF IInv, Replaced, R!TypeOK
    <2>2. framing' = R!Sized(0)
        BY <1>1, <2>1 DEF R!ReturnAndSend, R!Sized
    <2>3. client' = IF up THEN R!ReadsHead(client, R!Sized(0), asked) ELSE client
        BY <1>1, <2>1, <2>2 DEF R!ReturnAndSend, R!Write, R!Sent
    <2>4. R!ReadsHead(client, R!Sized(0), asked) =
              IF client.at = "between" THEN R!Finished(client) ELSE R!Lost(client)
        BY DEF R!ReadsHead, R!Sized, R!Absent
    <2>5. client' \in R!Client
        BY <2>1, <2>3, <2>4 DEF R!Client, R!Positions, R!Finished, R!Lost
    <2>6. R!TypeOK'
        BY <1>1, <2>1, <2>2, <2>5 DEF IInv, R!TypeOK, R!FramingOfState, R!ReturnAndSend
    <2>7. EndsAnswered'
        <3>1. SUFFICES ASSUME up', ~misused', ~astray'
                       PROVE  \/ client'.at = "between" /\ client'.done = begun'
                              \/ client'.at = "lost" \/ client'.done = begun' + 1
            BY <1>1, <1>5 DEF EndsAnswered, Answered
        <3>2. up /\ ~misused /\ ~astray /\ begun' = begun
            BY <1>1, <3>1 DEF R!ReturnAndSend
        <3>3. CASE client.at = "between"
            <4>1. client.done \in {begun - 1, begun}
                BY <1>1, <1>5, <3>2, <3>3 DEF IInv, Replaced
            <4>2. client' = R!Finished(client)
                BY <2>3, <2>4, <3>2, <3>3
            <4>3. client'.at = "between" /\ client'.done = client.done + 1
                BY <4>2 DEF R!Finished
            <4>4. QED
                BY <2>1, <3>2, <4>1, <4>3
        <3>4. CASE client.at # "between"
            BY <2>3, <2>4, <3>2, <3>4 DEF R!Lost
        <3>5. QED
            BY <3>3, <3>4
    <2>8. QED
        BY <1>1, <1>2, <1>3, <1>5, <2>6, <2>7 DEF IInv, Undisturbed
<1>6. QED
    BY <1>1, <1>4, <1>5 DEF IInv, Control, Undisturbed

\* The peer may go at any time.
LEMMA PeerGoesStep ==
    ASSUME IInv, PeerGoes
    PROVE  IInv'
<1>1. pc # "ended" /\ R!GoesDown /\ pc' = pc /\ ending' = ending
    BY DEF PeerGoes
<1>2. Control'
    BY DEF IInv, Control, PeerGoes, R!GoesDown, race
<1>3. R!TypeOK'
    BY <1>1 DEF IInv, R!TypeOK, R!FramingOfState, R!GoesDown, R!object, R!ghosts
<1>4. (Undisturbed => RP!Inv)'
    BY <1>1, ResponseKeeps DEF IInv, Undisturbed
<1>5. Replaced'
    BY <1>1 DEF IInv, Replaced, R!GoesDown, R!object, R!ghosts
<1>6. EndsAnswered'
    BY <1>1 DEF EndsAnswered
<1>7. QED
    BY <1>1, <1>2, <1>3, <1>4, <1>5, <1>6 DEF IInv

\* Nothing changes any more.
LEMMA StutterStep ==
    ASSUME IInv, UNCHANGED vars
    PROVE  IInv'
<1>1. UNCHANGED response /\ pc' = pc /\ ending' = ending /\ UNCHANGED race
    BY DEF vars
<1>2. Control' /\ Replaced' /\ EndsAnswered'
    BY <1>1 DEF IInv, Control, Replaced, EndsAnswered, Answered, race, response
<1>3. R!TypeOK'
    BY <1>1 DEF IInv, R!TypeOK, R!FramingOfState, response
<1>4. (Undisturbed => RP!Inv)'
    BY <1>1, ResponseKeeps DEF IInv, Undisturbed
<1>5. QED
    BY <1>1, <1>2, <1>3, <1>4 DEF IInv

\* Every step keeps the invariant.
LEMMA NextIInv == IInv /\ [Next]_vars => IInv'
<1>1. CASE Next
    BY <1>1, RaceStep, TakeStep, HandlerStep, HandlerFailsStep, HandlerEscapesStep,
       SendLastStep, PeerGoesStep, StutterStep DEF Next, Decide, Ended, Spinning
<1>2. QED
    BY <1>1, StutterStep

-----------------------------------------------------------------------------
\* The inductive invariant of a connection: what handle_conn waits for, what
\* the Response at work is, and where the client stands.
THEOREM ConnectionInvariant == Spec => []IInv
<1>1. QED
    BY InitIInv, NextIInv, PTL DEF Spec

\* A Response exists only while a handler or the last answer needs it, and
\* nothing is waited for once there is a reason to end (lines 26-70).
THEOREM ConnectionTypes == Spec => []TypeOK
<1>1. IInv => TypeOK
    BY DEF IInv, Control, TypeOK
<1>2. QED
    BY <1>1, ConnectionInvariant, PTL

\* Keep-alive never starts inside a response, and no request is answered twice
\* or skipped, however many requests come and however often the timer and the
\* parser end together (lines 26-63).
THEOREM ConnectionAnswersInStep == Spec => []AnsweredInStep
<1>1. IInv => AnsweredInStep
    BY DEF IInv, Control, Undisturbed, AnsweredInStep, Answered, RP!Inv, RP!ReadInStep
<1>2. QED
    BY <1>1, ConnectionInvariant, PTL

\* After a timeout, the end of the stream or a parse error a client that is
\* still there has the answer to every request that was taken.  What a handler's
\* exception can do is bounded: the 500 behind a response that was begun counts
\* for one answer too many at most or loses the client, and an exception that
\* nobody catches costs the last request its answer and no other (lines 30-70).
THEOREM ConnectionEndsAnswered == Spec => []EndsAnswered
<1>1. IInv => EndsAnswered
    BY DEF IInv
<1>2. QED
    BY <1>1, ConnectionInvariant, PTL

=============================================================================
