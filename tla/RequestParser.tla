--------------------------- MODULE RequestParser ---------------------------
(***************************************************************************)
(* RequestParser<R> of include/httc/request_parser.hpp: one parser over    *)
(* one reader.  The caller asks for requests with next(); the parser takes *)
(* bytes from the reader whenever what it has is not enough.               *)
(*                                                                         *)
(* A step is one turn of the loop of next(), up to the co_await of a read  *)
(* that does not return at once.  A handler that was suspended starts      *)
(* again from its first line: what it does before its first pull changes   *)
(* nothing it reads, so this is what the code does when it goes on.        *)
(***************************************************************************)
EXTENDS HttpSyntax

CONSTANTS
    Streams,        \* the byte sequences a peer may send
    ReadSize        \* most bytes one read returns: the reader's buffer

ASSUME StreamsAssumption == Streams \subseteq Seq(Symbol)
ASSUME ReadSizeAssumption == ReadSize \in Nat \ {0}

VARIABLES
    stream,         \* what the peer sends, all of it
    received,       \* how much of it the reader has returned
    pc,             \* where the coroutine next() stands
    state,          \* m_state
    buffer,         \* m_buffer
    view,           \* m_view, by value
    viewStart,      \* m_view_start
    req,            \* m_req
    chunkLeft,      \* m_chunk_bytes_remaining
    headersSize,    \* m_current_headers_size
    results         \* what the calls of next() returned, in order

input   == <<stream, received>>
window  == <<buffer, view, viewStart>>
message == <<req, chunkLeft, headersSize>>
vars    == <<input, pc, state, window, message, results>>

States == {"REQUEST_LINE", "HEADERS", "CHUNKED_SIZE", "CHUNKED_DATA",
           "CHUNKED_TRAILERS", "CONTENT_LENGTH", "COMPLETE"}

Errors == {"INVALID_REQUEST_LINE", "INVALID_HEADER", "HEADER_TOO_LARGE",
           "UNSUPPORTED_TRANSFER_ENCODING", "CONTENT_TOO_LARGE",
           "INVALID_CHUNK_ENCODING"}

\* A trailer is a view into m_buffer: where it starts, and what it read there.
\* A Cookie line among the trailers is one too: m_req.cookies holds string_views
\* (request.hpp:28), and its lines are kept with the others here.
Trailer == [at : Nat, text : Seq(Symbol)]

Request == [line : Seq(Symbol), headers : Seq(Symbol),
            body : Seq(Symbol), trailers : Seq(Trailer)]

NoRequest == [line |-> <<>>, headers |-> <<>>, body |-> <<>>, trailers |-> <<>>]

\* Returned by next(): a request, an error, nullopt ("closed"), an exception.
ResultTags == {"request", "closed", "exception"} \cup Errors
Result == [tag : ResultTags, req : Request]

Init ==
    /\ stream \in Streams
    /\ received = 0
    /\ pc = "idle"
    /\ state = "REQUEST_LINE"
    /\ buffer = <<>> /\ view = <<>> /\ viewStart = 0
    /\ req = NoRequest
    /\ chunkLeft \in {0, Word - 1}      \* the constructor leaves it unset
    /\ headersSize = 0
    /\ results = <<>>

-----------------------------------------------------------------------------
(* What the handlers are made of.                                          *)

AdvanceViewStale(n) == viewStart' = viewStart + n /\ UNCHANGED <<buffer, view>>

AdvanceView(n) ==
    /\ viewStart' = viewStart + n
    /\ view' = SubSeq(buffer, viewStart + n + 1, Len(buffer))
    /\ UNCHANGED buffer

\* The bytes of the request leave the buffer; what follows them stays.
EraseNothing == viewStart' = 0 /\ view' = buffer /\ UNCHANGED buffer
EraseAll == viewStart' = 0 /\ view' = <<>> /\ buffer' = <<>>

EraseConsumed ==
    /\ buffer' = SubSeq(buffer, viewStart + 1, Len(buffer))
    /\ viewStart' = 0
    /\ view' = buffer'

\* The handler needs n bytes and has to pull.
MissingOrExact(n) == Len(view) <= n
Missing(n) == Len(view) < n

\* co_await m_reader.pull()
Suspend ==
    /\ pc' = "pull"
    /\ UNCHANGED <<state, window, message, results>>

Return(tag, request) == results' = Append(results, [tag |-> tag, req |-> request])

Reset ==
    /\ req' = NoRequest
    /\ state' = "REQUEST_LINE"
    /\ headersSize' = 0
    /\ UNCHANGED chunkLeft

ResetErr == Reset /\ buffer' = <<>> /\ view' = <<>> /\ viewStart' = 0

FailAnyError(error) ==
    ResetErr /\ Return(error, NoRequest) /\ pc' = "stopped"

\* The handler returns error: next() resets the parser, and its caller
\* (handle_conn) does not call it again.
Fail(error) ==
    /\ ResetErr
    /\ Return(IF error = "READER_CLOSED" THEN "closed" ELSE error, NoRequest)
    /\ pc' = "stopped"

\* Nothing in the parser catches std::out_of_range.
Throw ==
    /\ Return("exception", NoRequest)
    /\ pc' = "stopped"
    /\ UNCHANGED <<state, window, message>>

\* What parse_header returned was not nullopt.
Refuse(verdict) == IF verdict = "exception" THEN Throw ELSE Fail(verdict)

PullUntilNoRead(chars, max, overflow) ==
    /\ Find(view, chars) = NotFound
    /\ IF Len(view) > max THEN Fail(overflow)
       ELSE UNCHANGED <<pc, state, window, message, results>>

\* pull_until(chars, max, overflow) while chars is not in the view.
PullUntil(chars, max, overflow) ==
    /\ Find(view, chars) = NotFound
    /\ IF Len(view) > max THEN Fail(overflow) ELSE Suspend

-----------------------------------------------------------------------------
ParseRequestLine ==
    /\ pc = "run" /\ state = "REQUEST_LINE"
    /\ LET crlf == Find(view, CRLF)
           line == Prefix(view, crlf)
           size == headersSize + crlf + 2
       IN  \/ PullUntil(CRLF, MaxHeaders, "HEADER_TOO_LARGE")
           \/ /\ crlf = 0
              /\ AdvanceView(2)
              /\ UNCHANGED <<pc, state, message, results>>
           \/ /\ crlf > 0 /\ size > MaxHeaders
              /\ Fail("HEADER_TOO_LARGE")
           \/ /\ crlf > 0 /\ size <= MaxHeaders /\ ~RequestLineOk(line)
              /\ Fail("INVALID_REQUEST_LINE")
           \/ /\ crlf > 0 /\ size <= MaxHeaders /\ RequestLineOk(line)
              /\ req' = [req EXCEPT !.line = line]
              /\ headersSize' = size
              /\ AdvanceView(crlf + 2)
              /\ state' = "HEADERS"
              /\ UNCHANGED <<pc, chunkLeft, results>>
    /\ UNCHANGED input

\* prepare_parse_body: how the body is framed, or why it cannot be.
BodyFraming(block) ==
    LET encoded == HeaderPositions(block, "tenc") # {}
        sized == HeaderPositions(block, "clen") # {}
    IN  CASE encoded /\ sized -> "INVALID_HEADER"
          [] encoded /\ ~sized /\ HeaderValue(block, "tenc") = 1 -> "CHUNKED_SIZE"
          [] encoded /\ ~sized /\ HeaderValue(block, "tenc") # 1 ->
                "UNSUPPORTED_TRANSFER_ENCODING"
          [] sized /\ ~encoded -> "CONTENT_LENGTH"
          [] OTHER -> "COMPLETE"

\* The rest of parse_headers, once the whole block is there and small enough.
EnterBody(block) ==
    LET verdict == BlockVerdict(block)
        framing == BodyFraming(block)
    IN  \/ verdict # "ok" /\ Refuse(verdict)
        \/ verdict = "ok" /\ framing \in Errors /\ Fail(framing)
        \/ /\ verdict = "ok" /\ framing \in States
           /\ req' = [req EXCEPT !.headers = block]
           /\ headersSize' = headersSize + Len(block)
           /\ AdvanceView(Len(block))
           /\ state' = framing
           /\ UNCHANGED <<pc, chunkLeft, results>>

\* (TLC evaluates the block once when it is bound by \E.)
ParseHeaders ==
    /\ pc = "run" /\ state = "HEADERS"
    /\ LET first == Find(view, CRLF)
           end == Find(view, CRLF \o CRLF)
           budget == WrapSub(MaxHeaders, headersSize)
       IN  \/ PullUntil(CRLF, budget, "HEADER_TOO_LARGE")
           \/ /\ first = 0
              /\ AdvanceView(2)
              /\ state' = "COMPLETE"
              /\ UNCHANGED <<pc, message, results>>
           \/ /\ first > 0
              /\ PullUntil(CRLF \o CRLF, budget, "HEADER_TOO_LARGE")
           \/ /\ first > 0 /\ end # NotFound
              /\ headersSize + end + 4 > MaxHeaders
              /\ Fail("HEADER_TOO_LARGE")
           \/ /\ first > 0 /\ end # NotFound
              /\ headersSize + end + 4 <= MaxHeaders
              /\ \E block \in {Prefix(view, end + 4)} : EnterBody(block)
    /\ UNCHANGED input

ParseBodyContentLength ==
    /\ pc = "run" /\ state = "CONTENT_LENGTH"
    /\ LET length == HeaderValue(req.headers, "clen")
       IN  \/ length < 0 /\ Fail("INVALID_HEADER")
           \/ length > MaxBody /\ Fail("CONTENT_TOO_LARGE")
           \/ length \in 0 .. MaxBody /\ Missing(length) /\ Suspend
           \/ /\ length \in 0 .. MaxBody /\ ~Missing(length)
              /\ req' = [req EXCEPT !.body = Prefix(view, length)]
              /\ AdvanceView(length)
              /\ state' = "COMPLETE"
              /\ UNCHANGED <<pc, chunkLeft, headersSize, results>>
    /\ UNCHANGED input

ChunkTooLargeSumOnly(size) == WrapAdd(Len(req.body), size) > MaxBody

ChunkTooLarge(size) ==
    size > MaxBody \/ WrapAdd(Len(req.body), size) > MaxBody

ParseBodyChunkedSize ==
    /\ pc = "run" /\ state = "CHUNKED_SIZE"
    /\ LET crlf == Find(view, CRLF)
           size == ChunkSize(Prefix(view, crlf))
       IN  \/ PullUntil(CRLF, MaxSizeLine, "INVALID_CHUNK_ENCODING")
           \/ crlf # NotFound /\ size < 0 /\ Fail("INVALID_CHUNK_ENCODING")
           \/ /\ crlf # NotFound /\ size >= 0 /\ ChunkTooLarge(size)
              /\ Fail("CONTENT_TOO_LARGE")
           \/ /\ crlf # NotFound /\ size >= 0 /\ ~ChunkTooLarge(size)
              /\ chunkLeft' = size
              /\ state' = "CHUNKED_DATA"
              /\ AdvanceView(crlf + 2)
              /\ UNCHANGED <<pc, req, headersSize, results>>
    /\ UNCHANGED input

ParseBodyChunkedData ==
    /\ pc = "run" /\ state = "CHUNKED_DATA"
    /\ LET here == ~Missing(WrapAdd(chunkLeft, 2))
           tail == SubSeq(view, chunkLeft + 1, chunkLeft + 2)
       IN  \/ ~here /\ Suspend
           \/ /\ here /\ chunkLeft = 0
              /\ state' = "CHUNKED_TRAILERS"
              /\ UNCHANGED <<pc, window, message, results>>
           \/ /\ here /\ chunkLeft # 0 /\ tail # CRLF
              /\ Fail("INVALID_CHUNK_ENCODING")
           \/ /\ here /\ chunkLeft # 0 /\ tail = CRLF
              /\ req' = [req EXCEPT !.body = @ \o Prefix(view, chunkLeft)]
              /\ AdvanceView(chunkLeft + 2)
              /\ chunkLeft' = 0
              /\ state' = "CHUNKED_SIZE"
              /\ UNCHANGED <<pc, headersSize, results>>
    /\ UNCHANGED input

\* set_view keeps views of the name and the value, and add_cookies views of the
\* names and values of its pairs.
AddTrailer(line) ==
    [req EXCEPT !.trailers = Append(@, [at |-> viewStart, text |-> line])]

\* One line of the loop.  With nothing left in the view the handler returns
\* without a result and without a pull, and next() calls it again.
ParseChunkedTrailers ==
    /\ pc = "run" /\ state = "CHUNKED_TRAILERS"
    /\ LET crlf == Find(view, CRLF)
           line == Prefix(view, crlf)
           verdict == HeaderVerdict(line)
       IN  \/ /\ view = <<>>
              /\ UNCHANGED <<pc, state, window, message, results>>
           \/ view # <<>> /\ PullUntil(CRLF, MaxHeaders, "HEADER_TOO_LARGE")
           \/ /\ crlf = 0
              /\ AdvanceView(2)
              /\ state' = "COMPLETE"
              /\ UNCHANGED <<pc, message, results>>
           \/ crlf > 0 /\ verdict # "ok" /\ Refuse(verdict)
           \/ /\ crlf > 0 /\ verdict = "ok"
              /\ req' = AddTrailer(line)
              /\ AdvanceView(crlf + 2)
              /\ UNCHANGED <<pc, state, chunkLeft, headersSize, results>>
    /\ UNCHANGED input

\* The end of next().
Complete ==
    /\ pc = "run" /\ state = "COMPLETE"
    /\ EraseConsumed
    /\ Return("request", req)
    /\ Reset
    /\ pc' = "idle"
    /\ UNCHANGED input

-----------------------------------------------------------------------------
(* The caller and the reader.                                              *)

CallNext ==
    /\ pc = "idle"
    /\ pc' = "run"
    /\ UNCHANGED <<input, state, window, message, results>>

\* pull() returns n bytes; the parser appends them and looks again.
PullData(n) ==
    /\ pc = "pull"
    /\ received + n <= Len(stream)
    /\ received' = received + n
    /\ buffer' = buffer \o SubSeq(stream, received + 1, received + n)
    /\ view' = SubSeq(buffer', viewStart + 1, Len(buffer'))
    /\ pc' = "run"
    /\ UNCHANGED <<stream, viewStart, state, message, results>>

\* pull() returns an error: the peer closed, the read failed or was cancelled.
PullFails ==
    /\ pc = "pull"
    /\ Fail("READER_CLOSED")
    /\ UNCHANGED input

\* handle_conn is done with this parser.
Stopped == pc = "stopped" /\ UNCHANGED vars

Parse ==
    \/ ParseRequestLine \/ ParseHeaders \/ ParseBodyContentLength
    \/ ParseBodyChunkedSize \/ ParseBodyChunkedData \/ ParseChunkedTrailers
    \/ Complete

Pull == \E n \in 1 .. ReadSize : PullData(n)

Next == Parse \/ CallNext \/ Pull \/ PullFails \/ Stopped

Spec == Init /\ [][Next]_vars

\* The io_context resumes a ready coroutine, handle_conn asks for the next
\* request, and bytes the peer has sent arrive.
FairSpec == Spec /\ WF_vars(Parse) /\ WF_vars(CallNext) /\ WF_vars(Pull)

-----------------------------------------------------------------------------
(* Properties.                                                             *)

\* Every variable has its type; m_chunk_bytes_remaining and the sizes are
\* values of std::size_t.
TypeOK ==
    /\ stream \in Seq(Symbol)
    /\ received \in 0 .. Len(stream)
    /\ pc \in {"idle", "run", "pull", "stopped"}
    /\ state \in States
    /\ buffer \in Seq(Symbol)
    /\ view \in Seq(Symbol)
    /\ viewStart \in Nat
    /\ req \in Request
    /\ chunkLeft \in 0 .. Word - 1
    /\ headersSize \in 0 .. Word - 1
    /\ results \in Seq(Result)

\* m_view is m_buffer from m_view_start on, and m_buffer is the last part of
\* what was received: no read, parse or reset leaves the view on bytes that
\* were consumed, moved or never there (request_parser.hpp:141-143, 381-382,
\* 424-425, 456-467, 522-523).
WindowOK ==
    /\ Len(buffer) <= received
    /\ buffer = SubSeq(stream, received - Len(buffer) + 1, received)
    /\ viewStart <= Len(buffer)
    /\ view = SubSeq(buffer, viewStart + 1, Len(buffer))

\* No body grows past max_body_size, whatever the chunk sizes claim and
\* although the sum of line 406 may wrap; what is left of max_header_size
\* (lines 215, 226) is never negative; and the unset chunk counter is never
\* used (line 80).
SizesWithinLimits ==
    /\ state # "REQUEST_LINE" => headersSize <= MaxHeaders
    /\ Len(req.body) <= MaxBody
    /\ state = "CHUNKED_DATA" => Len(req.body) + chunkLeft <= MaxBody
    /\ \A i \in DOMAIN results : Len(results[i].req.body) <= MaxBody

\* How many bytes of the stream the parser has used up.
Consumed == received - Len(view)

\* While next() is looking for a request, no byte is handed out twice and
\* none comes back (advance_view, the erase of line 141).
NothingConsumedTwice == [][Consumed' >= Consumed]_vars

\* A call of next() comes to a result or a read: it does not keep the only
\* thread of the io_context, and it learns that the peer is gone, `If the
\* reader is closed, return nullopt to indicate end of stream' (line 132; the
\* loop of lines 103-139).
NextReturns == (pc = "run") ~> (pc # "run")

\* The trailers of a request that next() has just returned, and the cookies that
\* came with them, still read as the lines they were made from: headers.hpp:32,
\* `The header and value must be valid for the lifetime of this Headers object'
\* (set_view, line 325; the emplace of line 495).
TrailersReadBack ==
    pc = "idle" /\ results # <<>> =>
        LET trailers == results[Len(results)].req.trailers
        IN  \A i \in DOMAIN trailers :
                LET at == trailers[i].at  text == trailers[i].text
                IN  OccursAt(buffer, text, at)

=============================================================================
