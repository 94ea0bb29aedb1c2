------------------------------ MODULE Response ------------------------------
(***************************************************************************)
(* httc::Response (include/httc/response.hpp, src/response.cpp): one       *)
(* response after the other, written to one writer.  handle_conn makes a   *)
(* Response, lets a handler call its operations in any order, and calls    *)
(* send() when the handler returns.                                        *)
(*                                                                         *)
(* What is written is read by a client at the other end of the writer: a   *)
(* reference reader of HTTP/1.1 messages, that follows the framing each    *)
(* head announces.  A client that asked with HEAD takes a head for the     *)
(* whole response, whether the Response was told of it or not.  A write is *)
(* atomic: a client that got a part of one gets nothing more.  Handlers    *)
(* leave the two framing headers to Response.                              *)
(*                                                                         *)
(* A call that throws (send_chunked, send_fixed, set_body when the         *)
(* response is initialized) changes nothing: it is not a step.             *)
(***************************************************************************)
EXTENDS Integers

CONSTANTS
    Sizes,          \* sizes of bodies, chunks and pieces
    MaxResponses    \* a bound: how many responses the writer takes

ASSUME SizesAssumption == Sizes \subseteq Nat

VARIABLES
    mstate,         \* m_state
    framing,        \* the framing headers: Content-Length, Transfer-Encoding
    body,           \* the size of m_body
    mhead,          \* m_head
    open,           \* the handler has the response
    up,             \* the writer still reaches the client
    begun,          \* how many responses were begun
    owed,           \* bytes that send_fixed announced and nobody wrote yet
    misused,        \* some handler did not keep to response.hpp
    asked,          \* the client's request was HEAD
    astray,         \* a body was begun for a HEAD the Response was not told of
    client          \* what the client has made of the bytes

object == <<mstate, framing, body, mhead>>
ghosts == <<begun, owed, misused, asked, astray>>
vars   == <<object, open, up, ghosts, client>>

States == {"Uninitialized", "StreamChunk", "StreamFixed", "Body", "Sent"}

Absent == -1
Framing == [length : Nat \cup {Absent}, chunked : BOOLEAN]
Sized(n) == [length |-> n, chunked |-> FALSE]

-----------------------------------------------------------------------------
(* The client: between two messages, in a chunked body, in a body with     *)
(* `left' bytes to come, or lost: it took something for what it is not.    *)

Positions == {"between", "chunks", "body", "lost"}
Client == [at : Positions, left : Nat, done : Nat]

NewClient == [at |-> "between", left |-> 0, done |-> 0]

Lost(c) == [at |-> "lost", left |-> 0, done |-> c.done]
Finished(c) == [at |-> "between", left |-> 0, done |-> c.done + 1]

\* A head that announces f; a response to HEAD ends with its head.
ReadsHead(c, f, bodiless) ==
    CASE c.at # "between" \/ (f.chunked <=> f.length # Absent) -> Lost(c)
      [] c.at = "between" /\ f.chunked /\ f.length = Absent ->
            IF bodiless THEN Finished(c) ELSE [c EXCEPT !.at = "chunks"]
      [] OTHER ->
            IF bodiless \/ f.length = 0 THEN Finished(c)
            ELSE [at |-> "body", left |-> f.length, done |-> c.done]

ReadsData(c, n) ==
    CASE n = 0 -> c
      [] n > 0 /\ c.at = "body" /\ n < c.left -> [c EXCEPT !.left = @ - n]
      [] n > 0 /\ c.at = "body" /\ n = c.left -> Finished(c)
      [] OTHER -> Lost(c)

ReadsChunk(c) == IF c.at = "chunks" THEN c ELSE Lost(c)

ReadsLastChunk(c) == IF c.at = "chunks" THEN Finished(c) ELSE Lost(c)

\* write_to_writer; nothing arrives when the client is gone.
Write(read) == client' = IF up THEN read ELSE client

-----------------------------------------------------------------------------
(* The operations.                                                         *)

\* The constructor with is_head_response.
Construct(told) ==
    /\ mstate' = "Uninitialized"
    /\ framing' = Sized(0)
    /\ body' = 0
    /\ mhead' = told
    /\ owed' = 0

\* A handler asks is_head() before it streams.
MisusedByStream == mhead \/ misused

\* A handler that asks is told the truth only if handle_conn knows it.
Untold == asked /\ ~mhead

SendChunkedKeepsLength ==
    /\ open /\ mstate = "Uninitialized"
    /\ framing' = [framing EXCEPT !.chunked = TRUE]
    /\ mstate' = "StreamChunk"
    /\ Write(ReadsHead(client, framing', asked))
    /\ misused' = MisusedByStream
    /\ astray' = (astray \/ Untold)
    /\ UNCHANGED <<body, mhead, open, up, begun, owed, asked>>

SendChunked ==
    /\ open /\ mstate = "Uninitialized"
    /\ framing' = [length |-> Absent, chunked |-> TRUE]
    /\ mstate' = "StreamChunk"
    /\ Write(ReadsHead(client, framing', asked))
    /\ misused' = MisusedByStream
    /\ astray' = (astray \/ Untold)
    /\ UNCHANGED <<body, mhead, open, up, begun, owed, asked>>

SendFixedAgain(n) ==
    /\ open /\ mstate \in {"Uninitialized", "StreamFixed"}
    /\ framing' = [framing EXCEPT !.length = n]
    /\ mstate' = "StreamFixed"
    /\ owed' = n
    /\ Write(ReadsHead(client, framing', asked))
    /\ misused' = MisusedByStream
    /\ astray' = (astray \/ Untold)
    /\ UNCHANGED <<body, mhead, open, up, begun, asked>>

SendFixed(n) ==
    /\ open /\ mstate = "Uninitialized"
    /\ framing' = [framing EXCEPT !.length = n]
    /\ mstate' = "StreamFixed"
    /\ owed' = n
    /\ Write(ReadsHead(client, framing', asked))
    /\ misused' = MisusedByStream
    /\ astray' = (astray \/ Untold)
    /\ UNCHANGED <<body, mhead, open, up, begun, asked>>

\* ChunkedStream::write: the stream outlives end().
ChunkWrite(n) ==
    /\ open /\ mstate \in {"StreamChunk", "Sent"}
    /\ Write(IF n = 0 THEN client ELSE ReadsChunk(client))
    /\ misused' = (misused \/ (mstate = "Sent" /\ n > 0))
    /\ UNCHANGED <<object, open, up, begun, owed, asked, astray>>

\* ChunkedStream::end
ChunkEnd ==
    /\ open /\ mstate \in {"StreamChunk", "Sent"}
    /\ mstate' = "Sent"
    /\ Write(ReadsLastChunk(client))
    /\ misused' = (misused \/ mstate = "Sent")
    /\ UNCHANGED <<framing, body, mhead, open, up, begun, owed, asked, astray>>

\* FixedStream::write
FixedWrite(n) ==
    /\ open /\ mstate = "StreamFixed"
    /\ Write(ReadsData(client, n))
    /\ owed' = IF n <= owed THEN owed - n ELSE 0
    /\ misused' = (misused \/ n > owed)
    /\ UNCHANGED <<object, open, up, begun, asked, astray>>

SetBody(n) ==
    /\ open /\ mstate = "Uninitialized"
    /\ framing' = [framing EXCEPT !.length = n]
    /\ mstate' = "Body"
    /\ body' = n
    /\ UNCHANGED <<mhead, open, up, ghosts, client>>

\* What send() writes, as the client reads it.
SentLeavesOpen ==
    CASE mstate = "Uninitialized" -> ReadsHead(client, framing', asked)
      [] mstate \in {"StreamChunk", "StreamFixed", "Sent"} -> client
      [] mstate = "Body" ->
            ReadsData(ReadsHead(client, framing, asked), IF mhead THEN 0 ELSE body)

Sent ==
    CASE mstate = "Uninitialized" -> ReadsHead(client, framing', asked)
      [] mstate = "StreamChunk" -> ReadsLastChunk(client)
      [] mstate \in {"StreamFixed", "Sent"} -> client
      [] mstate = "Body" ->
            ReadsData(ReadsHead(client, framing, asked), IF mhead THEN 0 ELSE body)

\* The handler returns and its caller calls send().
ReturnAndSend ==
    /\ open
    /\ open' = FALSE
    /\ framing' = IF mstate = "Uninitialized" THEN [framing EXCEPT !.length = 0]
                  ELSE framing
    /\ Write(Sent)
    /\ misused' = (misused \/ owed > 0)
    /\ astray' = (astray \/ (Untold /\ mstate = "Body" /\ body > 0))
    /\ UNCHANGED <<mstate, body, mhead, up, begun, owed, asked>>

HandlerCall ==
    \/ SendChunked \/ ChunkEnd
    \/ \E n \in Sizes : SendFixed(n) \/ ChunkWrite(n) \/ FixedWrite(n) \/ SetBody(n)

-----------------------------------------------------------------------------
(* The writer and its caller.                                              *)

Init ==
    /\ mstate = "Uninitialized" /\ framing = Sized(0) /\ body = 0 /\ mhead = FALSE
    /\ open = FALSE
    /\ up = TRUE
    /\ begun = 0 /\ owed = 0 /\ misused = FALSE /\ asked = FALSE /\ astray = FALSE
    /\ client = NewClient

\* A request comes, HEAD or not, and its caller may tell the Response.
Begin(bodiless, told) ==
    /\ ~open /\ begun < MaxResponses
    /\ told => bodiless
    /\ Construct(told)
    /\ asked' = bodiless
    /\ open' = TRUE
    /\ begun' = begun + 1
    /\ UNCHANGED <<up, misused, astray, client>>

\* The socket fails: every write from here on throws.
GoesDown ==
    /\ up
    /\ up' = FALSE
    /\ UNCHANGED <<object, open, ghosts, client>>

Next ==
    \/ \E bodiless, told \in BOOLEAN : Begin(bodiless, told)
    \/ HandlerCall \/ ReturnAndSend \/ GoesDown

Spec == Init /\ [][Next]_vars

-----------------------------------------------------------------------------
(* Properties.                                                             *)

\* The framing headers that go with each state.
FramingOfState ==
    /\ mstate = "Uninitialized" => framing = Sized(0)
    /\ mstate = "Body" => framing = Sized(body)
    /\ mstate = "StreamFixed" => \E n \in Sizes : framing = Sized(n)
    /\ mstate \in {"StreamChunk", "Sent"} =>
            framing = [length |-> Absent, chunked |-> TRUE]

\* Every variable has its type, and the framing headers are those of m_state:
\* no state is left with both, or with the length of an earlier call (lines
\* 50-51, 66, 105, 136).
TypeOK ==
    /\ mstate \in States
    /\ framing \in Framing
    /\ body \in Nat
    /\ mhead \in BOOLEAN /\ open \in BOOLEAN /\ up \in BOOLEAN
    /\ begun \in Nat /\ owed \in Nat /\ misused \in BOOLEAN
    /\ asked \in BOOLEAN /\ astray \in BOOLEAN
    /\ mhead => asked
    /\ client \in Client
    /\ FramingOfState

\* When send() is through, a client that is still there has read exactly the
\* responses that were begun, each of them to its end, and stands before the
\* next one: no way through the five states leaves a chunked body open, ends
\* it twice, or announces a length that is not kept, as long as handlers keep
\* to response.hpp (lines 29-59 there, 35-39 and 108-128 of response.cpp) and
\* no body was begun for a HEAD that the Response does not know of.
ReadInStep ==
    ~open /\ up /\ ~misused /\ ~astray => client.at = "between" /\ client.done = begun

\* Whatever a handler does, the client never takes what was written for one
\* request for two responses: send_chunked, send_fixed and set_body exclude
\* each other and themselves (lines 46, 62, 132), and what a stream writes
\* after its end is never read as an answer.
NoSurplusResponse == client.done <= begun

=============================================================================
