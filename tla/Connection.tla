----------------------------- MODULE Connection -----------------------------
(***************************************************************************)
(* handle_conn of src/server.cpp: one connection.  The coroutine waits for *)
(* the parser or the timer, whichever comes first, hands a request to its  *)
(* handler together with a Response, and starts again.                     *)
(*                                                                         *)
(* The parser is taken at its promise (RequestStream): a call of next()    *)
(* ends with a request, an error, the end of the stream, or an exception,  *)
(* but for the one turn of it that never ends (ParserSpins).               *)
(* The Response is the one of module Response, over the socket.            *)
(*                                                                         *)
(* next() || async_wait() is asio's: both run, the first that succeeds     *)
(* cancels the other, and the result is there when both have ended.        *)
(***************************************************************************)
EXTENDS Integers

CONSTANTS
    Sizes,          \* sizes of bodies, chunks and pieces
    MaxRequests     \* a bound: how many requests the peer sends

ASSUME RequestsAssumption == Sizes \subseteq Nat /\ MaxRequests \in Nat

VARIABLES
    pc,             \* where the coroutine stands
    parser,         \* next(): "idle", "busy", "spinning", or what it ended with
    timer,          \* parse_request_timer
    first,          \* which of the two ended first
    ending,         \* why handle_conn returned
    \* the Response and its client
    mstate, framing, body, mhead, open, up, begun, owed, misused, asked, astray, client

R == INSTANCE Response WITH MaxResponses <- MaxRequests

race     == <<parser, timer, first>>
response == <<mstate, framing, body, mhead, open, up, begun, owed, misused, asked,
              astray, client>>
vars     == <<pc, race, ending, response>>

Outcomes == {"request", "error", "closed", "exception"}
Endings == {"none", "timeout", "closed", "refused", "failed", "escaped"}

Init ==
    /\ pc = "loop"
    /\ parser = "idle" /\ timer = "off" /\ first = "none"
    /\ ending = "none"
    /\ R!Init

-----------------------------------------------------------------------------
(* The race of lines 27-38.                                                *)

WaitCancelsTimer ==
    /\ pc = "loop"
    /\ pc' = "race"
    /\ parser' = "busy" /\ timer' = "cancelled" /\ first' = "none"
    /\ UNCHANGED <<ending, response>>

Wait ==
    /\ pc = "loop"
    /\ pc' = "race"
    /\ parser' = "busy" /\ timer' = "armed" /\ first' = "none"
    /\ UNCHANGED <<ending, response>>

Ranked(who) == IF first = "none" THEN who ELSE first

\* The parser comes to an outcome.  Success cancels the timer, which may have
\* expired at the same time; an exception is no success and leaves it running.
ParserEnds(outcome) ==
    /\ pc = "race" /\ parser = "busy"
    /\ outcome \in {"request", "error"} => begun < MaxRequests
    /\ parser' = outcome
    /\ IF outcome # "exception" /\ timer = "armed"
       THEN timer' \in {"cancelled", "expired"} ELSE UNCHANGED timer
    /\ first' = Ranked("parser")
    /\ UNCHANGED <<pc, ending, response>>

\* Bytes of the peer, the end of its stream, or an error bring next() to an end.
ParserComes == first = "none" /\ \E outcome \in Outcomes : ParserEnds(outcome)

\* The read the timer has cancelled returns: at once with nothing, or with
\* bytes that had already come.
ParserCancelled == first = "timer" /\ \E outcome \in Outcomes : ParserEnds(outcome)

\* A turn of the parser that does not end: next() calls the trailers loop again
\* and again without a read (run parser_trailers_spin).  It keeps the thread, so
\* neither the timer nor anything else of the connection comes to its turn.
ParserSpins ==
    /\ pc = "race" /\ parser = "busy"
    /\ parser' = "spinning"
    /\ UNCHANGED <<pc, timer, first, ending, response>>

Spinning == parser = "spinning" /\ UNCHANGED vars

TimerExpires ==
    /\ pc = "race" /\ timer = "armed" /\ parser # "spinning"
    /\ timer' = "expired"
    /\ first' = Ranked("timer")
    /\ UNCHANGED <<pc, parser, ending, response>>

Decided == pc = "race" /\ parser \in Outcomes /\ timer \in {"cancelled", "expired"}

\* result.index() == 1: the timer was first, or it alone succeeded.
TimerWins == first = "timer" \/ parser = "exception"

\* shutdown() may throw; handle_conn is over either way.
Timeout ==
    /\ Decided /\ TimerWins
    /\ pc' = "ended" /\ ending' = "timeout"
    /\ UNCHANGED <<race, response>>

Closed ==
    /\ Decided /\ ~TimerWins /\ parser = "closed"
    /\ pc' = "ended" /\ ending' = "closed"
    /\ UNCHANGED <<race, response>>

TakeError ==
    /\ Decided /\ ~TimerWins /\ parser = "error"
    /\ pc' = "last" /\ ending' = "refused"
    /\ \E bodiless \in BOOLEAN : R!Begin(bodiless, FALSE)
    /\ UNCHANGED race

TakeRequest ==
    /\ Decided /\ ~TimerWins /\ parser = "request"
    /\ pc' = "handler"
    /\ \E bodiless \in BOOLEAN : R!Begin(bodiless, FALSE)
    /\ UNCHANGED <<race, ending>>

Decide == Timeout \/ Closed \/ TakeError \/ TakeRequest

-----------------------------------------------------------------------------
(* The handler and the response, lines 46-70.                              *)

HandlerCalls ==
    /\ pc = "handler"
    /\ R!HandlerCall
    /\ UNCHANGED <<pc, race, ending>>

\* send() does not throw: it writes nothing, or the socket takes it.
HandlerReturns ==
    /\ pc = "handler"
    /\ up \/ mstate \in {"StreamFixed", "Sent"}
    /\ R!ReturnAndSend
    /\ pc' = "loop"
    /\ UNCHANGED <<race, ending>>

\* The handler throws a std::exception, or send() does: another Response takes
\* the place of the one that was thrown away, with what that one wrote still on
\* its way.
HandlerFails ==
    /\ pc = "handler"
    /\ pc' = "last" /\ ending' = "failed"
    /\ R!Construct(FALSE)
    /\ UNCHANGED <<race, open, up, begun, misused, asked, astray, client>>

\* Nothing catches what is no std::exception (line 61): it leaves the coroutine
\* without a second Response, asio::detached drops it, and the socket is closed
\* on the way out.
HandlerEscapes ==
    /\ pc = "handler"
    /\ pc' = "ended" /\ ending' = "escaped"
    /\ open' = FALSE
    /\ UNCHANGED <<race, mstate, framing, body, mhead, up, begun, owed, misused, asked,
                   astray, client>>

SendLastUnsent ==
    /\ pc = "last"
    /\ pc' = "ended"
    /\ open' = FALSE
    /\ UNCHANGED <<race, ending, mstate, framing, body, mhead, up, begun, owed, misused,
                   asked, astray, client>>

SendLastAndGoOn ==
    /\ pc = "last"
    /\ R!ReturnAndSend
    /\ pc' = "loop"
    /\ UNCHANGED <<race, ending>>

\* The response of from_status is sent (or that throws) and the socket closed.
SendLast ==
    /\ pc = "last"
    /\ R!ReturnAndSend
    /\ pc' = "ended"
    /\ UNCHANGED <<race, ending>>

\* The peer stops reading: it closed the connection, or it is lost.
PeerGoes ==
    /\ pc # "ended"
    /\ R!GoesDown
    /\ UNCHANGED <<pc, race, ending>>

Ended == pc = "ended" /\ UNCHANGED vars

Next ==
    \/ Wait \/ ParserComes \/ ParserCancelled \/ ParserSpins \/ TimerExpires \/ Decide
    \/ HandlerCalls \/ HandlerReturns \/ HandlerFails \/ HandlerEscapes \/ SendLast
    \/ PeerGoes \/ Ended \/ Spinning

Spec == Init /\ [][Next]_vars

\* The io_context runs what is ready, the timer expires unless it is
\* cancelled, and a cancelled read returns, as long as this connection leaves
\* the thread to them: each of the three is disabled while the parser spins.
\* That the turns of other connections end is assumed.  Nothing is asked of the
\* peer, of the bytes the parser waits for, or of handlers.
FairSpec ==
    Spec /\ WF_vars(TimerExpires) /\ WF_vars(ParserCancelled) /\ WF_vars(Decide)

-----------------------------------------------------------------------------
(* Properties.                                                             *)

\* Every variable has its type; a Response exists only while a handler or the
\* last answer needs it, and a reason to end is final: after an error answer
\* no further request is waited for (lines 46-52, 65-70).
TypeOK ==
    /\ pc \in {"loop", "race", "handler", "last", "ended"}
    /\ parser \in {"idle", "busy", "spinning"} \cup Outcomes
    /\ timer \in {"off", "armed", "cancelled", "expired"}
    /\ first \in {"none", "parser", "timer"}
    /\ ending \in Endings
    /\ R!TypeOK
    /\ open <=> pc \in {"handler", "last"}
    /\ ending # "none" <=> pc \in {"last", "ended"}

\* Between two responses, with every one of them complete.
Answered == client.at = "between" /\ client.done = begun

\* Whenever handle_conn waits for the next request, a client that is still
\* there has read exactly one complete response to each request before, if
\* handlers keep to response.hpp: keep-alive never starts inside a response,
\* and no request is answered twice or skipped (lines 26-63).
AnsweredInStep ==
    pc \in {"loop", "race"} /\ up /\ ~misused /\ ~astray => Answered

\* How each ending leaves a client that is still there.  After a timeout, the
\* end of the stream and a parse error it has the answer to every request that
\* was taken.  Two endings are not so clean: the 500 that follows a response
\* which was begun is read as a part of that one, or as an answer nobody asked
\* for; and an exception that line 61 does not catch leaves the last request
\* without its answer, or with a part of it, but no earlier one (lines 30-70).
EndsAnswered ==
    pc = "ended" /\ up /\ ~misused /\ ~astray =>
        /\ ending \in {"timeout", "closed", "refused"} => Answered
        /\ ending = "failed" =>
                Answered \/ client.at = "lost" \/ client.done = begun + 1
        /\ ending = "escaped" =>
                client.at # "lost" /\ client.done \in {begun - 1, begun}

\* A connection does not wait for ever: the request timer (lines 27-38) ends
\* every wait, however long the peer takes and whatever it sends, unless the
\* parser spins in the trailers loop and keeps the thread from the timer.
WaitEnds == (pc = "race") ~> (pc # "race" \/ parser = "spinning")

\* The comment of server.cpp:33, `Request timeout', on shutting the connection
\* down without an answer: the time is over before the parser has a result.
TimeoutMeansLate == ending = "timeout" => first = "timer"

=============================================================================
