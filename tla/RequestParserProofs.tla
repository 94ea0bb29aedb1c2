------------------------ MODULE RequestParserProofs ------------------------
(***************************************************************************)
(* What RequestParser guarantees for every stream, every size of read and  *)
(* every limit that LimitsAssumption admits; and, for streams that are     *)
(* conversations, that it uses up whole messages and waits only for the    *)
(* rest of one.  The second part is an argument about texts first: what is *)
(* left of a message behind each of its parts, and what Find makes of the  *)
(* first bytes of that.  Then every handler takes one part, or waits.      *)
(***************************************************************************)
EXTENDS Conversations, LoopLemmas

-----------------------------------------------------------------------------
(* Searching a view.                                                       *)

\* Find answers with a place where the characters are, or with NotFound.
LEMMA FindInText ==
    ASSUME NEW text \in Seq(Symbol), NEW chars \in Seq(Symbol)
    PROVE  \/ Find(text, chars) = NotFound
           \/ /\ Find(text, chars) \in Nat
              /\ Find(text, chars) + Len(chars) <= Len(text)
              /\ OccursAt(text, chars, Find(text, chars))
<1> DEFINE hits == {pos \in 0 .. Len(text) : OccursAt(text, chars, pos)}
<1>1. CASE hits = {}
    BY <1>1 DEF Find
<1>2. CASE hits # {}
    <2>1. hits \in SUBSET Nat
        OBVIOUS
    <2>2. Min(hits) \in hits
        BY <1>2, <2>1, LeastPosition
    <2>3. Find(text, chars) = Min(hits)
        BY <1>2 DEF Find
    <2>4. OccursAt(text, chars, Find(text, chars)) /\ Find(text, chars) \in Nat
        BY <2>2, <2>3
    <2>5. QED
        BY <2>4 DEF OccursAt
<1>3. QED
    BY <1>1, <1>2

\* A line end is two symbols.
LEMMA CRLFLength == CRLF \in Seq(Symbol) /\ Len(CRLF) = 2
<1>1. CR \in Symbol /\ LF \in Symbol
    BY DEF CR, LF, Sym, Symbol, Kinds
<1>2. QED
    BY <1>1 DEF CRLF

\* A line end and an empty line are four symbols.
LEMMA BlankLineLength == CRLF \o CRLF \in Seq(Symbol) /\ Len(CRLF \o CRLF) = 4
<1>1. CRLF \o CRLF \in Seq(Symbol) /\ Len(CRLF \o CRLF) = Len(CRLF) + Len(CRLF)
    BY CRLFLength, ConcatProperties
<1>2. QED
    BY <1>1, CRLFLength

\* What a concatenation holds and how long it is.
LEMMA Concat ==
    ASSUME NEW s \in Seq(Symbol), NEW t \in Seq(Symbol), NEW n, Len(t) = n
    PROVE  s \o t \in Seq(Symbol) /\ Len(s \o t) = Len(s) + n
<1>1. s \o t \in Seq(Symbol) /\ Len(s \o t) = Len(s) + Len(t)
    BY ConcatProperties
<1>2. QED
    BY <1>1

\* A prefix of a view holds symbols, as many as it is asked for.
LEMMA PrefixOfText ==
    ASSUME NEW text \in Seq(Symbol), NEW n \in 0 .. Len(text)
    PROVE  Prefix(text, n) \in Seq(Symbol) /\ Len(Prefix(text, n)) = n
<1>1. \A i \in 1 .. n : text[i] \in Symbol
    BY ElementOfSeq
<1>2. QED
    BY <1>1, SubSeqProperties DEF Prefix

\* What is behind a position of a buffer.
LEMMA Rest ==
    ASSUME NEW text \in Seq(Symbol), NEW n \in 0 .. Len(text)
    PROVE  /\ SubSeq(text, n + 1, Len(text)) \in Seq(Symbol)
           /\ Len(SubSeq(text, n + 1, Len(text))) = Len(text) - n
<1>1. \A i \in n + 1 .. Len(text) : text[i] \in Symbol
    BY ElementOfSeq
<1>2. Len(text) \in Nat
    BY LenProperties
<1>3. QED
    BY <1>1, <1>2, SubSeqProperties

\* A piece that ends before it begins is empty.
LEMMA EmptyPiece ==
    ASSUME NEW text, NEW last \in Int
    PROVE  SubSeq(text, last + 1, last) = <<>>
BY SubSeqEmpty

\* A piece of the stream, read from a later start.
LEMMA RestOfPiece ==
    ASSUME NEW text \in Seq(Symbol), NEW last \in 0 .. Len(text),
           NEW size \in 0 .. last, NEW n \in 0 .. size
    PROVE  LET piece == SubSeq(text, last - size + 1, last)
           IN  SubSeq(piece, n + 1, size) = SubSeq(text, last - (size - n) + 1, last)
<1> DEFINE piece == SubSeq(text, last - size + 1, last)
           left == SubSeq(piece, n + 1, size)
           right == SubSeq(text, last - (size - n) + 1, last)
<1>1. \A i \in last - size + 1 .. last : text[i] \in Symbol
    BY ElementOfSeq
<1>2. /\ piece \in Seq(Symbol) /\ Len(piece) = size
      /\ \A i \in 1 .. size : piece[i] = text[last - size + i]
    <2>1. /\ piece \in Seq(Symbol)
          /\ Len(piece) = IF last - size + 1 <= last
                          THEN last - (last - size + 1) + 1 ELSE 0
          /\ \A i \in 1 .. last - (last - size + 1) + 1 :
                piece[i] = text[last - size + 1 + i - 1]
        BY <1>1, SubSeqProperties
    <2>2. QED
        BY <2>1
<1>3. \A i \in n + 1 .. size : piece[i] \in Symbol
    BY <1>2, ElementOfSeq
<1>4. /\ left \in Seq(Symbol) /\ Len(left) = size - n
      /\ \A i \in 1 .. size - n : left[i] = piece[n + i]
    <2>1. /\ left \in Seq(Symbol)
          /\ Len(left) = IF n + 1 <= size THEN size - (n + 1) + 1 ELSE 0
          /\ \A i \in 1 .. size - (n + 1) + 1 : left[i] = piece[n + 1 + i - 1]
        BY <1>3, SubSeqProperties
    <2>2. QED
        BY <2>1
<1>5. /\ right \in Seq(Symbol) /\ Len(right) = size - n
      /\ \A i \in 1 .. size - n : right[i] = text[last - size + n + i]
    <2>1. \A i \in last - (size - n) + 1 .. last : text[i] \in Symbol
        BY ElementOfSeq
    <2>2. /\ right \in Seq(Symbol)
          /\ Len(right) = IF last - (size - n) + 1 <= last
                          THEN last - (last - (size - n) + 1) + 1 ELSE 0
          /\ \A i \in 1 .. last - (last - (size - n) + 1) + 1 :
                right[i] = text[last - (size - n) + 1 + i - 1]
        BY <2>1, SubSeqProperties
    <2>3. QED
        BY <2>2
<1>6. ASSUME NEW i \in 1 .. size - n
      PROVE  left[i] = right[i]
    <2>1. n + i \in 1 .. size
        OBVIOUS
    <2>2. left[i] = text[last - size + (n + i)]
        BY <1>2, <1>4, <2>1
    <2>3. last - size + (n + i) = last - size + n + i
        OBVIOUS
    <2>4. QED
        BY <1>5, <2>2, <2>3
<1>7. QED
    BY <1>4, <1>5, <1>6, SeqEqual

-----------------------------------------------------------------------------
(* The inductive invariant: the three invariants need one another.  A read *)
(* of the view is within the buffer because of WindowOK; the chunk counter *)
(* that it is read with is bounded because of SizesWithinLimits.           *)

Inv == TypeOK /\ WindowOK /\ SizesWithinLimits

\* The empty request has no fields that could break a bound.
LEMMA EmptyRequest == NoRequest \in Request /\ Len(NoRequest.body) = 0
<1>1. <<>> \in Seq(Symbol) /\ <<>> \in Seq(Trailer) /\ Len(<<>>) = 0
    BY EmptySeq
<1>2. QED
    BY <1>1 DEF NoRequest, Request

\* The view is as long as the buffer is from m_view_start on.
LEMMA ViewLength ==
    ASSUME TypeOK, WindowOK
    PROVE  Len(view) = Len(buffer) - viewStart /\ Len(view) \in Nat
<1>1. viewStart \in 0 .. Len(buffer)
    BY LenProperties DEF TypeOK, WindowOK
<1>2. QED
    BY <1>1, Rest, LenProperties DEF TypeOK, WindowOK

\* advance_view moves the window and keeps it in the buffer.
LEMMA AdvanceViewKeepsWindow ==
    ASSUME TypeOK, WindowOK, NEW n \in 0 .. Len(view), AdvanceView(n),
           UNCHANGED input
    PROVE  /\ WindowOK'
           /\ view' \in Seq(Symbol) /\ viewStart' \in Nat /\ buffer' \in Seq(Symbol)
<1>1. viewStart + n \in 0 .. Len(buffer) /\ Len(buffer) \in Nat
    BY ViewLength, LenProperties DEF TypeOK
<1>2. SubSeq(buffer, viewStart + n + 1, Len(buffer)) \in Seq(Symbol)
    BY <1>1, Rest DEF TypeOK
<1>3. QED
    BY <1>1, <1>2 DEF TypeOK, WindowOK, AdvanceView, input

\* Every result carries a request whose body is within the limit.
LEMMA ReturnKeepsResults ==
    ASSUME TypeOK, SizesWithinLimits,
           NEW tag \in ResultTags, NEW request \in Request,
           Len(request.body) <= MaxBody, Return(tag, request)
    PROVE  /\ results' \in Seq(Result)
           /\ \A i \in DOMAIN results' : Len(results'[i].req.body) <= MaxBody
<1> DEFINE result == [tag |-> tag, req |-> request]
<1>1. result \in Result
    BY DEF Result
<1>2. results' = Append(results, result)
    BY DEF Return
<1>3. /\ results' \in Seq(Result)
      /\ Len(results') = Len(results) + 1
      /\ \A i \in 1 .. Len(results) : results'[i] = results[i]
      /\ results'[Len(results) + 1] = result
    BY <1>1, <1>2, AppendProperties DEF TypeOK
<1>4. DOMAIN results' = 1 .. Len(results) + 1 /\ DOMAIN results = 1 .. Len(results)
    BY <1>3, LenProperties DEF TypeOK
<1>5. \A i \in DOMAIN results' : Len(results'[i].req.body) <= MaxBody
    <2>1. ASSUME NEW i \in DOMAIN results'
          PROVE  Len(results'[i].req.body) <= MaxBody
        <3>1. CASE i \in 1 .. Len(results)
            BY <1>3, <1>4, <3>1 DEF SizesWithinLimits
        <3>2. CASE i = Len(results) + 1
            BY <1>3, <3>2
        <3>3. QED
            BY <1>4, <2>1, <3>1, <3>2, LenProperties DEF TypeOK
    <2>2. QED
        BY <2>1
<1>6. QED
    BY <1>3, <1>5

-----------------------------------------------------------------------------
(* The ways a handler can end, each of them keeps the invariant.           *)

\* An error resets the parser, and that keeps the invariant (next(), lines 130-137).
LEMMA FailKeepsInv ==
    ASSUME Inv, NEW error \in Errors \cup {"READER_CLOSED"}, Fail(error),
           UNCHANGED input
    PROVE  Inv'
<1> DEFINE tag == IF error = "READER_CLOSED" THEN "closed" ELSE error
<1>1. tag \in ResultTags
    BY DEF ResultTags, Errors
<1>2. /\ results' \in Seq(Result)
      /\ \A i \in DOMAIN results' : Len(results'[i].req.body) <= MaxBody
    BY <1>1, EmptyRequest, ReturnKeepsResults, LimitsAssumption DEF Inv, Fail
<1>3. <<>> \in Seq(Symbol) /\ Len(<<>>) = 0
    BY EmptySeq
<1>4. 0 \in 0 .. Word - 1
    BY LimitsAssumption
<1>5. TypeOK'
    BY <1>2, <1>3, <1>4, EmptyRequest
    DEF Inv, TypeOK, Fail, ResetErr, Reset, input, States
<1>6. WindowOK'
    <2>1. received' \in 0 .. Len(stream') /\ stream' \in Seq(Symbol) /\ received' \in Int
        BY <1>5, LenProperties DEF TypeOK
    <2>2. buffer' = <<>> /\ view' = <<>> /\ viewStart' = 0
        BY DEF Fail, ResetErr
    <2>3. SubSeq(stream', received' + 1, received') = <<>>
        BY <2>1, EmptyPiece
    <2>4. SubSeq(<<>>, 0 + 1, 0) = <<>>
        BY EmptyPiece
    <2>5. received' - Len(buffer') + 1 = received' + 1 /\ Len(buffer') = 0
        BY <1>3, <2>1, <2>2
    <2>6. SubSeq(stream', received' - Len(buffer') + 1, received') = <<>>
        BY <2>3, <2>5
    <2>7. SubSeq(buffer', viewStart' + 1, Len(buffer')) = <<>>
        BY <2>2, <2>4, <2>5
    <2>8. Len(buffer') <= received' /\ viewStart' <= Len(buffer')
        BY <2>1, <2>2, <2>5, LenProperties
    <2>9. buffer' = SubSeq(stream', received' - Len(buffer') + 1, received')
        BY <2>2, <2>6
    <2>10. view' = SubSeq(buffer', viewStart' + 1, Len(buffer'))
        BY <2>2, <2>7
    <2>11. QED
        BY <2>8, <2>9, <2>10 DEF WindowOK
<1>7. SizesWithinLimits'
    BY <1>2, EmptyRequest, LimitsAssumption
    DEF SizesWithinLimits, Fail, ResetErr, Reset
<1>8. QED
    BY <1>5, <1>6, <1>7 DEF Inv

\* An exception out of next() leaves the parser as it was.
LEMMA ThrowKeepsInv ==
    ASSUME Inv, Throw, UNCHANGED input
    PROVE  Inv'
<1>1. "exception" \in ResultTags
    BY DEF ResultTags
<1>2. /\ results' \in Seq(Result)
      /\ \A i \in DOMAIN results' : Len(results'[i].req.body) <= MaxBody
    BY <1>1, EmptyRequest, ReturnKeepsResults, LimitsAssumption DEF Inv, Throw
<1>3. QED
    BY <1>2 DEF Inv, TypeOK, WindowOK, SizesWithinLimits, Throw, input, window, message

\* Waiting for a read changes nothing but where next() stands.
LEMMA SuspendKeepsInv ==
    ASSUME Inv, Suspend, UNCHANGED input
    PROVE  Inv'
BY DEF Inv, TypeOK, WindowOK, SizesWithinLimits, Suspend, input, window, message

\* pull_until fails or waits; both keep the invariant (lines 504-525).
LEMMA PullUntilKeepsInv ==
    ASSUME Inv, NEW chars, NEW max, NEW overflow \in Errors,
           PullUntil(chars, max, overflow), UNCHANGED input
    PROVE  Inv'
BY FailKeepsInv, SuspendKeepsInv DEF PullUntil

\* A header that parse_header does not accept ends the call of next().
LEMMA RefuseKeepsInv ==
    ASSUME Inv, NEW verdict \in {"exception", "INVALID_HEADER"}, Refuse(verdict),
           UNCHANGED input
    PROVE  Inv'
<1>1. CASE verdict = "exception"
    BY <1>1, ThrowKeepsInv DEF Refuse
<1>2. CASE verdict = "INVALID_HEADER"
    BY <1>2, FailKeepsInv DEF Refuse, Errors
<1>3. QED
    BY <1>1, <1>2

\* What a handler that consumes n bytes has to show for itself.
LEMMA ConsumeKeepsInv ==
    ASSUME Inv, UNCHANGED <<input, results>>, pc' = pc,
           NEW n \in 0 .. Len(view), AdvanceView(n),
           state' \in States, req' \in Request,
           chunkLeft' \in 0 .. Word - 1, headersSize' \in 0 .. Word - 1,
           state' # "REQUEST_LINE" => headersSize' <= MaxHeaders,
           Len(req'.body) <= MaxBody,
           state' = "CHUNKED_DATA" => Len(req'.body) + chunkLeft' <= MaxBody
    PROVE  Inv'
<1>1. WindowOK' /\ view' \in Seq(Symbol) /\ viewStart' \in Nat /\ buffer' \in Seq(Symbol)
    BY AdvanceViewKeepsWindow DEF Inv
<1>2. TypeOK'
    BY <1>1 DEF Inv, TypeOK, input
<1>3. SizesWithinLimits'
    BY DEF Inv, SizesWithinLimits
<1>4. QED
    BY <1>1, <1>2, <1>3 DEF Inv

-----------------------------------------------------------------------------
(* The steps.                                                              *)

\* A line that was found ends, with its CRLF, inside the view.
LEMMA LineInView ==
    ASSUME TypeOK, Find(view, CRLF) # NotFound
    PROVE  /\ Find(view, CRLF) \in 0 .. Len(view)
           /\ Find(view, CRLF) + 2 \in 0 .. Len(view)
           /\ Prefix(view, Find(view, CRLF)) \in Seq(Symbol)
           /\ Len(Prefix(view, Find(view, CRLF))) = Find(view, CRLF)
<1>1. Find(view, CRLF) \in Nat /\ Find(view, CRLF) + 2 <= Len(view)
    BY FindInText, CRLFLength DEF TypeOK
<1>2. Find(view, CRLF) \in 0 .. Len(view) /\ Find(view, CRLF) + 2 \in 0 .. Len(view)
    BY <1>1, LenProperties DEF TypeOK
<1>3. QED
    BY <1>2, PrefixOfText DEF TypeOK

\* A head within max_header_size has a size that std::size_t holds.
LEMMA HeadSize ==
    ASSUME TypeOK, NEW n \in Nat, headersSize + n <= MaxHeaders
    PROVE  headersSize + n \in 0 .. Word - 1
BY LimitsAssumption DEF TypeOK

\* parse_header and prepare_parse_body answer with an error, a state or "ok".
LEMMA VerdictTypes ==
    /\ \A line : HeaderVerdict(line) \in {"ok", "exception", "INVALID_HEADER"}
    /\ \A block : BlockVerdict(block) \in {"ok", "exception", "INVALID_HEADER"}
<1>1. \A line : HeaderVerdict(line) \in {"ok", "exception", "INVALID_HEADER"}
    BY DEF HeaderVerdict, CookieVerdict
<1>2. QED
    BY <1>1 DEF BlockVerdict

\* parse_request_line keeps the invariant (lines 151-210).
LEMMA RequestLineStep ==
    ASSUME Inv, ParseRequestLine
    PROVE  Inv'
<1> DEFINE crlf == Find(view, CRLF)
           line == Prefix(view, crlf)
           size == headersSize + crlf + 2
<1>1. CASE PullUntil(CRLF, MaxHeaders, "HEADER_TOO_LARGE")
    BY <1>1, PullUntilKeepsInv DEF ParseRequestLine, Errors
<1>2. CASE crlf = 0 /\ AdvanceView(2) /\ UNCHANGED <<pc, state, message, results>>
    <2>1. 2 \in 0 .. Len(view)
        BY <1>2, LineInView DEF Inv, NotFound
    <2>2. QED
        BY <1>2, <2>1, ConsumeKeepsInv
        DEF Inv, TypeOK, SizesWithinLimits, ParseRequestLine, message
<1>3. CASE Fail("HEADER_TOO_LARGE") \/ Fail("INVALID_REQUEST_LINE")
    BY <1>3, FailKeepsInv DEF ParseRequestLine, Errors
<1>4. CASE /\ crlf > 0 /\ size <= MaxHeaders
           /\ req' = [req EXCEPT !.line = line]
           /\ headersSize' = size
           /\ AdvanceView(crlf + 2)
           /\ state' = "HEADERS"
           /\ UNCHANGED <<pc, chunkLeft, results>>
    <2>1. crlf + 2 \in 0 .. Len(view) /\ crlf \in 0 .. Len(view) /\ line \in Seq(Symbol)
        BY <1>4, LineInView DEF Inv, NotFound
    <2>2. req' \in Request /\ req'.body = req.body
        BY <1>4, <2>1 DEF Inv, TypeOK, Request
    <2>3. headersSize' \in 0 .. Word - 1
        <3>1. crlf + 2 \in Nat /\ headersSize + (crlf + 2) <= MaxHeaders
            BY <1>4, <2>1 DEF Inv, TypeOK
        <3>2. headersSize' = headersSize + (crlf + 2)
            BY <1>4, <2>1 DEF Inv, TypeOK
        <3>3. QED
            BY <3>1, <3>2, HeadSize DEF Inv
    <2>4. QED
        BY <1>4, <2>1, <2>2, <2>3, ConsumeKeepsInv
        DEF Inv, TypeOK, SizesWithinLimits, ParseRequestLine, States
<1>5. QED
    BY <1>1, <1>2, <1>3, <1>4 DEF ParseRequestLine

\* parse_headers keeps the invariant (lines 213-260).
LEMMA HeadersStep ==
    ASSUME Inv, ParseHeaders
    PROVE  Inv'
<1> DEFINE end == Find(view, CRLF \o CRLF)
           budget == WrapSub(MaxHeaders, headersSize)
           block == Prefix(view, end + 4)
<1>1. CASE \/ PullUntil(CRLF, budget, "HEADER_TOO_LARGE")
           \/ PullUntil(CRLF \o CRLF, budget, "HEADER_TOO_LARGE")
    BY <1>1, PullUntilKeepsInv DEF ParseHeaders, Errors
<1>2. CASE /\ Find(view, CRLF) = 0 /\ AdvanceView(2) /\ state' = "COMPLETE"
           /\ UNCHANGED <<pc, message, results>>
    <2>1. 2 \in 0 .. Len(view)
        BY <1>2, LineInView DEF Inv, NotFound
    <2>2. QED
        BY <1>2, <2>1, ConsumeKeepsInv
        DEF Inv, TypeOK, SizesWithinLimits, ParseHeaders, message, States
<1>3. CASE Fail("HEADER_TOO_LARGE")
    BY <1>3, FailKeepsInv DEF ParseHeaders, Errors
<1>4. CASE /\ end # NotFound /\ headersSize + end + 4 <= MaxHeaders /\ EnterBody(block)
    <2>1. /\ end \in Nat /\ end + 4 \in 0 .. Len(view)
          /\ block \in Seq(Symbol) /\ Len(block) = end + 4
        <3>1. end \in Nat /\ end + 4 <= Len(view)
            BY <1>4, FindInText, BlankLineLength DEF Inv, TypeOK
        <3>2. end + 4 \in 0 .. Len(view)
            BY <3>1, LenProperties DEF Inv, TypeOK
        <3>3. QED
            BY <3>1, <3>2, PrefixOfText DEF Inv, TypeOK
    <2>2. CASE BlockVerdict(block) # "ok" /\ Refuse(BlockVerdict(block))
        <3>1. BlockVerdict(block) \in {"exception", "INVALID_HEADER"}
            BY <2>2, VerdictTypes
        <3>2. QED
            BY <2>2, <3>1, RefuseKeepsInv DEF ParseHeaders
    <2>3. CASE BodyFraming(block) \in Errors /\ Fail(BodyFraming(block))
        BY <2>3, FailKeepsInv DEF ParseHeaders
    <2>4. CASE /\ BodyFraming(block) \in States
               /\ req' = [req EXCEPT !.headers = block]
               /\ headersSize' = headersSize + Len(block)
               /\ AdvanceView(Len(block))
               /\ state' = BodyFraming(block)
               /\ UNCHANGED <<pc, chunkLeft, results>>
        <3>1. req' \in Request /\ req'.body = req.body
            BY <2>1, <2>4 DEF Inv, TypeOK, Request
        <3>2. headersSize' <= MaxHeaders /\ headersSize' \in 0 .. Word - 1
            <4>1. end + 4 \in Nat /\ headersSize + (end + 4) <= MaxHeaders
                BY <1>4, <2>1 DEF Inv, TypeOK
            <4>2. headersSize' = headersSize + (end + 4)
                BY <2>1, <2>4
            <4>3. QED
                BY <4>1, <4>2, HeadSize DEF Inv
        <3>3. state' # "CHUNKED_DATA"
            BY <2>4 DEF BodyFraming
        <3>4. QED
            BY <2>1, <2>4, <3>1, <3>2, <3>3, ConsumeKeepsInv
            DEF Inv, TypeOK, SizesWithinLimits, ParseHeaders
    <2>5. QED
        BY <1>4, <2>2, <2>3, <2>4 DEF EnterBody
<1>5. QED
    BY <1>1, <1>2, <1>3, <1>4 DEF ParseHeaders

\* parse_body_content_length keeps the invariant (lines 360-389).
LEMMA ContentLengthStep ==
    ASSUME Inv, ParseBodyContentLength
    PROVE  Inv'
<1> DEFINE length == HeaderValue(req.headers, "clen")
<1>1. CASE Fail("INVALID_HEADER") \/ Fail("CONTENT_TOO_LARGE")
    BY <1>1, FailKeepsInv DEF ParseBodyContentLength, Errors
<1>2. CASE Suspend
    BY <1>2, SuspendKeepsInv DEF ParseBodyContentLength
<1>3. CASE /\ length \in 0 .. MaxBody /\ ~Missing(length)
           /\ req' = [req EXCEPT !.body = Prefix(view, length)]
           /\ AdvanceView(length)
           /\ state' = "COMPLETE"
           /\ UNCHANGED <<pc, chunkLeft, headersSize, results>>
    <2>1. length \in 0 .. Len(view)
        BY <1>3, LenProperties, LimitsAssumption DEF Missing, Inv, TypeOK
    <2>2. Prefix(view, length) \in Seq(Symbol) /\ Len(Prefix(view, length)) = length
        BY <2>1, PrefixOfText DEF Inv, TypeOK
    <2>3. req' \in Request /\ Len(req'.body) <= MaxBody
        <3>1. req' \in Request /\ req'.body = Prefix(view, length)
            BY <1>3, <2>2 DEF Inv, TypeOK, Request
        <3>2. Len(req'.body) = length
            BY <2>2, <3>1
        <3>3. QED
            BY <1>3, <3>1, <3>2, LimitsAssumption
    <2>4. headersSize' <= MaxHeaders
        BY <1>3 DEF Inv, SizesWithinLimits, ParseBodyContentLength
    <2>5. QED
        BY <1>3, <2>1, <2>3, <2>4, ConsumeKeepsInv
        DEF Inv, TypeOK, SizesWithinLimits, ParseBodyContentLength, States
<1>4. QED
    BY <1>1, <1>2, <1>3 DEF ParseBodyContentLength

\* The guard of line 406 bounds the sum itself, not only its remainder.
LEMMA ChunkFits ==
    ASSUME Inv, NEW size \in Nat, ~ChunkTooLarge(size)
    PROVE  size <= MaxBody /\ Len(req.body) + size <= MaxBody
<1>1. Len(req.body) \in Nat /\ Len(req.body) <= MaxBody
    BY LenProperties DEF Inv, TypeOK, Request, SizesWithinLimits
<1>2. QED
    BY <1>1, LimitsAssumption DEF ChunkTooLarge, WrapAdd

\* parse_body_chunked_size keeps the invariant (lines 392-415).
LEMMA ChunkedSizeStep ==
    ASSUME Inv, ParseBodyChunkedSize
    PROVE  Inv'
<1> DEFINE crlf == Find(view, CRLF)
           size == ChunkSize(Prefix(view, crlf))
<1>1. CASE PullUntil(CRLF, MaxSizeLine, "INVALID_CHUNK_ENCODING")
    BY <1>1, PullUntilKeepsInv DEF ParseBodyChunkedSize, Errors
<1>2. CASE Fail("INVALID_CHUNK_ENCODING") \/ Fail("CONTENT_TOO_LARGE")
    BY <1>2, FailKeepsInv DEF ParseBodyChunkedSize, Errors
<1>3. CASE /\ crlf # NotFound /\ size >= 0 /\ ~ChunkTooLarge(size)
           /\ chunkLeft' = size
           /\ state' = "CHUNKED_DATA"
           /\ AdvanceView(crlf + 2)
           /\ UNCHANGED <<pc, req, headersSize, results>>
    <2>1. crlf + 2 \in 0 .. Len(view) /\ Prefix(view, crlf) \in Seq(Symbol)
        BY <1>3, LineInView DEF Inv
    <2>2. size \in Nat
        <3>1. size \in Int
            <4>1. Prefix(view, crlf) # <<>> => Head(Prefix(view, crlf)) \in Symbol
                BY <2>1, HeadTailProperties
            <4>2. QED
                BY <4>1 DEF ChunkSize, Symbol
        <3>2. QED
            BY <1>3, <3>1
    <2>3. size <= MaxBody /\ Len(req.body) + size <= MaxBody
        BY <1>3, <2>2, ChunkFits
    <2>4. chunkLeft' \in 0 .. Word - 1
        BY <1>3, <2>2, <2>3, LimitsAssumption
    <2>5. QED
        BY <1>3, <2>1, <2>3, <2>4, ConsumeKeepsInv
        DEF Inv, TypeOK, SizesWithinLimits, ParseBodyChunkedSize, States
<1>4. QED
    BY <1>1, <1>2, <1>3 DEF ParseBodyChunkedSize

\* parse_body_chunked_data keeps the invariant (lines 418-446).
LEMMA ChunkedDataStep ==
    ASSUME Inv, ParseBodyChunkedData
    PROVE  Inv'
<1> DEFINE here == ~Missing(WrapAdd(chunkLeft, 2))
<1>1. /\ chunkLeft \in Nat /\ Len(req.body) \in Nat
      /\ Len(req.body) + chunkLeft <= MaxBody /\ headersSize <= MaxHeaders
    BY LenProperties
    DEF Inv, TypeOK, SizesWithinLimits, Request, ParseBodyChunkedData
<1>2. CASE Suspend
    BY <1>2, SuspendKeepsInv DEF ParseBodyChunkedData
<1>3. CASE /\ chunkLeft = 0 /\ state' = "CHUNKED_TRAILERS"
           /\ UNCHANGED <<pc, window, message, results>>
    BY <1>3 DEF Inv, TypeOK, WindowOK, SizesWithinLimits, ParseBodyChunkedData,
                States, input, window, message
<1>4. CASE Fail("INVALID_CHUNK_ENCODING")
    BY <1>4, FailKeepsInv DEF ParseBodyChunkedData, Errors
<1>5. CASE /\ here
           /\ req' = [req EXCEPT !.body = @ \o Prefix(view, chunkLeft)]
           /\ AdvanceView(chunkLeft + 2)
           /\ chunkLeft' = 0
           /\ state' = "CHUNKED_SIZE"
           /\ UNCHANGED <<pc, headersSize, results>>
    <2>1. chunkLeft + 2 \in 0 .. Len(view) /\ chunkLeft \in 0 .. Len(view)
        <3>1. WrapAdd(chunkLeft, 2) = chunkLeft + 2
            BY <1>1, LimitsAssumption DEF WrapAdd
        <3>2. Len(view) \in Nat
            BY LenProperties DEF Inv, TypeOK
        <3>3. QED
            BY <1>1, <1>5, <3>1, <3>2 DEF Missing
    <2>2. Prefix(view, chunkLeft) \in Seq(Symbol) /\ Len(Prefix(view, chunkLeft)) = chunkLeft
        BY <2>1, PrefixOfText DEF Inv, TypeOK
    <2>3. /\ req.body \o Prefix(view, chunkLeft) \in Seq(Symbol)
          /\ Len(req.body \o Prefix(view, chunkLeft)) = Len(req.body) + chunkLeft
        <3>1. req.body \in Seq(Symbol)
            BY DEF Inv, TypeOK, Request
        <3>2. QED
            BY <2>2, <3>1, Concat
    <2>4. req' \in Request /\ req'.body = req.body \o Prefix(view, chunkLeft)
        BY <1>5, <2>3 DEF Inv, TypeOK, Request
    <2>5. Len(req'.body) <= MaxBody
        BY <1>1, <2>3, <2>4
    <2>6. chunkLeft' \in 0 .. Word - 1
        BY <1>5, LimitsAssumption
    <2>7. QED
        BY <1>1, <1>5, <2>1, <2>4, <2>5, <2>6, ConsumeKeepsInv
        DEF Inv, TypeOK, ParseBodyChunkedData, States
<1>6. QED
    BY <1>2, <1>3, <1>4, <1>5 DEF ParseBodyChunkedData

\* parse_chunked_trailers keeps the invariant (lines 263-289).
LEMMA ChunkedTrailersStep ==
    ASSUME Inv, ParseChunkedTrailers
    PROVE  Inv'
<1> DEFINE crlf == Find(view, CRLF)
           line == Prefix(view, crlf)
           verdict == HeaderVerdict(line)
<1>1. CASE UNCHANGED <<pc, state, window, message, results>>
    BY <1>1 DEF Inv, TypeOK, WindowOK, SizesWithinLimits, ParseChunkedTrailers,
                input, window, message
<1>2. CASE PullUntil(CRLF, MaxHeaders, "HEADER_TOO_LARGE")
    BY <1>2, PullUntilKeepsInv DEF ParseChunkedTrailers, Errors
<1>3. CASE /\ crlf = 0 /\ AdvanceView(2) /\ state' = "COMPLETE"
           /\ UNCHANGED <<pc, message, results>>
    <2>1. 2 \in 0 .. Len(view)
        BY <1>3, LineInView DEF Inv, NotFound
    <2>2. QED
        BY <1>3, <2>1, ConsumeKeepsInv
        DEF Inv, TypeOK, SizesWithinLimits, ParseChunkedTrailers, message, States
<1>4. CASE verdict # "ok" /\ Refuse(verdict)
    <2>1. verdict \in {"exception", "INVALID_HEADER"}
        BY <1>4, VerdictTypes
    <2>2. QED
        BY <1>4, <2>1, RefuseKeepsInv DEF ParseChunkedTrailers
<1>5. CASE /\ crlf > 0
           /\ req' = AddTrailer(line)
           /\ AdvanceView(crlf + 2)
           /\ UNCHANGED <<pc, state, chunkLeft, headersSize, results>>
    <2>1. crlf + 2 \in 0 .. Len(view) /\ line \in Seq(Symbol)
        BY <1>5, LineInView DEF Inv, NotFound
    <2>2. Append(req.trailers, [at |-> viewStart, text |-> line]) \in Seq(Trailer)
        <3>1. [at |-> viewStart, text |-> line] \in Trailer
            BY <2>1 DEF Inv, TypeOK, Trailer
        <3>2. QED
            BY <3>1, AppendProperties DEF Inv, TypeOK, Request
    <2>3. req' \in Request /\ req'.body = req.body
        BY <1>5, <2>2 DEF Inv, TypeOK, Request, AddTrailer
    <2>4. QED
        BY <1>5, <2>1, <2>3, ConsumeKeepsInv
        DEF Inv, TypeOK, SizesWithinLimits, ParseChunkedTrailers
<1>6. QED
    BY <1>1, <1>2, <1>3, <1>4, <1>5 DEF ParseChunkedTrailers

\* The end of next() keeps the invariant (lines 139-147).
LEMMA CompleteStep ==
    ASSUME Inv, Complete
    PROVE  Inv'
<1>1. /\ results' \in Seq(Result)
      /\ \A i \in DOMAIN results' : Len(results'[i].req.body) <= MaxBody
    BY ReturnKeepsResults DEF Inv, TypeOK, SizesWithinLimits, Complete, ResultTags
<1>2. Len(buffer) \in Nat /\ Len(stream) \in Nat /\ viewStart \in 0 .. Len(buffer)
    BY LenProperties DEF Inv, TypeOK, WindowOK
<1>3. /\ buffer' = SubSeq(buffer, viewStart + 1, Len(buffer))
      /\ view' = buffer' /\ viewStart' = 0
      /\ UNCHANGED input /\ pc' = "idle" /\ Reset
    BY DEF Complete, EraseConsumed
<1>4. buffer' \in Seq(Symbol) /\ Len(buffer') = Len(buffer) - viewStart
    BY <1>2, <1>3, Rest DEF Inv, TypeOK
<1>5. TypeOK'
    BY <1>1, <1>3, <1>4, EmptyRequest, LimitsAssumption
    DEF Inv, TypeOK, Reset, States, input
<1>6. WindowOK'
    <2>1. Len(buffer) \in 0 .. received /\ received \in 0 .. Len(stream)
        BY <1>2 DEF Inv, TypeOK, WindowOK
    <2>2. buffer = SubSeq(stream, received - Len(buffer) + 1, received)
        BY DEF Inv, WindowOK
    <2>3. buffer' = SubSeq(stream, received - (Len(buffer) - viewStart) + 1, received)
        BY <1>2, <1>3, <2>1, <2>2, RestOfPiece DEF Inv, TypeOK
    <2>4. buffer' = SubSeq(stream', received' - Len(buffer') + 1, received')
        BY <1>3, <1>4, <2>3 DEF input
    <2>5. view' = SubSeq(buffer', viewStart' + 1, Len(buffer'))
        BY <1>3, <1>4, SubSeqFull
    <2>6. Len(buffer') <= received' /\ viewStart' <= Len(buffer')
        BY <1>2, <1>3, <1>4, <2>1 DEF input
    <2>7. QED
        BY <2>4, <2>5, <2>6 DEF WindowOK
<1>7. SizesWithinLimits'
    BY <1>1, <1>3, EmptyRequest, LimitsAssumption DEF SizesWithinLimits, Reset
<1>8. QED
    BY <1>5, <1>6, <1>7 DEF Inv

\* A read that brings bytes keeps the invariant (lines 522-523).
LEMMA PullDataStep ==
    ASSUME Inv, NEW n \in 1 .. ReadSize, PullData(n)
    PROVE  Inv'
<1> DEFINE read == SubSeq(stream, received + 1, received + n)
<1>1. /\ Len(stream) \in Nat /\ Len(buffer) \in Nat /\ n \in Nat
      /\ received \in 0 .. Len(stream) /\ received + n \in 0 .. Len(stream)
      /\ Len(buffer) \in 0 .. received
    BY LenProperties, ReadSizeAssumption DEF Inv, TypeOK, WindowOK, PullData
<1>2. read \in Seq(Symbol) /\ Len(read) = n
    <2>1. \A i \in received + 1 .. received + n : stream[i] \in Symbol
        BY <1>1, ElementOfSeq DEF Inv, TypeOK
    <2>2. QED
        BY <1>1, <2>1, SubSeqProperties
<1>3. buffer' \in Seq(Symbol) /\ Len(buffer') = Len(buffer) + n
    BY <1>1, <1>2, ConcatProperties DEF Inv, TypeOK, PullData
<1>4. buffer' = SubSeq(stream, received - Len(buffer) + 1, received + n)
    <2>1. /\ received - Len(buffer) + 1 \in 1 .. Len(stream) + 1
          /\ received \in (received - Len(buffer) + 1) - 1 .. Len(stream)
          /\ received + n \in received .. Len(stream)
        BY <1>1
    <2>2. SubSeq(stream, received - Len(buffer) + 1, received)
            \o SubSeq(stream, received + 1, received + n)
          = SubSeq(stream, received - Len(buffer) + 1, received + n)
        BY <2>1, ConcatAdjacentSubSeq DEF Inv, TypeOK
    <2>3. QED
        BY <2>2 DEF Inv, WindowOK, PullData
<1>5. viewStart \in 0 .. Len(buffer')
    BY <1>1, <1>3 DEF Inv, TypeOK, WindowOK
<1>6. view' = SubSeq(buffer', viewStart + 1, Len(buffer')) /\ view' \in Seq(Symbol)
    BY <1>3, <1>5, Rest DEF PullData
<1>7. TypeOK'
    BY <1>1, <1>3, <1>6 DEF Inv, TypeOK, PullData, message
<1>8. WindowOK'
    <2>1. received' - Len(buffer') + 1 = received - Len(buffer) + 1
        BY <1>1, <1>3 DEF PullData
    <2>2. buffer' = SubSeq(stream', received' - Len(buffer') + 1, received')
        BY <1>4, <2>1 DEF PullData
    <2>3. Len(buffer') <= received' /\ viewStart' <= Len(buffer')
        BY <1>1, <1>3, <1>5 DEF PullData
    <2>4. QED
        BY <1>6, <2>2, <2>3 DEF WindowOK, PullData
<1>9. SizesWithinLimits'
    BY DEF Inv, SizesWithinLimits, PullData, message
<1>10. QED
    BY <1>7, <1>8, <1>9 DEF Inv

-----------------------------------------------------------------------------
(* The theorems about any stream.                                          *)

\* The constructor establishes the invariant (lines 95-99).
LEMMA InitInv == Init => Inv
<1> SUFFICES ASSUME Init
             PROVE  Inv
    OBVIOUS
<1>1. stream \in Seq(Symbol) /\ Len(stream) \in Nat
    BY StreamsAssumption, LenProperties DEF Init
<1>2. /\ <<>> \in Seq(Symbol) /\ <<>> \in Seq(Result) /\ Len(<<>>) = 0
      /\ \A i \in DOMAIN <<>> : FALSE
    BY EmptySeq
<1>3. SubSeq(stream, 0 + 1, 0) = <<>> /\ SubSeq(<<>>, 0 + 1, 0) = <<>>
    BY EmptyPiece
<1>4. TypeOK
    BY <1>1, <1>2, EmptyRequest, LimitsAssumption DEF Init, TypeOK, States
<1>5. WindowOK
    BY <1>2, <1>3 DEF Init, WindowOK
<1>6. SizesWithinLimits
    BY <1>2, EmptyRequest, LimitsAssumption DEF Init, SizesWithinLimits
<1>7. QED
    BY <1>4, <1>5, <1>6 DEF Inv

\* Every step keeps the invariant.
LEMMA NextInv == Inv /\ [Next]_vars => Inv'
<1> SUFFICES ASSUME Inv, [Next]_vars
             PROVE  Inv'
    OBVIOUS
<1>1. CASE Parse
    <2>1. CASE ParseRequestLine
        BY <2>1, RequestLineStep
    <2>2. CASE ParseHeaders
        BY <2>2, HeadersStep
    <2>3. CASE ParseBodyContentLength
        BY <2>3, ContentLengthStep
    <2>4. CASE ParseBodyChunkedSize
        BY <2>4, ChunkedSizeStep
    <2>5. CASE ParseBodyChunkedData
        BY <2>5, ChunkedDataStep
    <2>6. CASE ParseChunkedTrailers
        BY <2>6, ChunkedTrailersStep
    <2>7. CASE Complete
        BY <2>7, CompleteStep
    <2>8. QED
        BY <1>1, <2>1, <2>2, <2>3, <2>4, <2>5, <2>6, <2>7 DEF Parse
<1>2. CASE CallNext
    BY <1>2 DEF Inv, TypeOK, WindowOK, SizesWithinLimits, CallNext,
                input, window, message
<1>3. CASE Pull
    BY <1>3, PullDataStep DEF Pull
<1>4. CASE PullFails
    BY <1>4, FailKeepsInv DEF PullFails
<1>5. CASE UNCHANGED vars
    BY <1>5 DEF Inv, TypeOK, WindowOK, SizesWithinLimits, vars, input, window, message
<1>6. QED
    BY <1>1, <1>2, <1>3, <1>4, <1>5 DEF Next, Stopped

\* The inductive invariant: types, the window on the received bytes, and the
\* limits hold together in every state (all of RequestParser).
THEOREM ParserInvariant == Spec => []Inv
<1>1. QED
    BY InitInv, NextInv, PTL DEF Spec

\* Type correctness: the counters stay values of std::size_t (every handler).
THEOREM ParserTypes == Spec => []TypeOK
<1>1. Inv => TypeOK
    BY DEF Inv
<1>2. QED
    BY ParserInvariant, <1>1, PTL

\* However the stream is cut into reads, m_view is the unread part of
\* m_buffer and m_buffer the last part of what was received.
THEOREM ParserWindow == Spec => []WindowOK
<1>1. Inv => WindowOK
    BY DEF Inv
<1>2. QED
    BY ParserInvariant, <1>1, PTL

\* No body exceeds max_body_size and the subtraction of parse_headers does not
\* wrap, for every stream, also one whose chunk sizes wrap the sum of line 406.
THEOREM ParserLimits == Spec => []SizesWithinLimits
<1>1. Inv => SizesWithinLimits
    BY DEF Inv
<1>2. QED
    BY ParserInvariant, <1>1, PTL

-----------------------------------------------------------------------------
(* No byte is consumed twice.                                              *)

\* A handler leaves the view, moves it forward, or drops it.
LEMMA AdvanceViewShrinks ==
    ASSUME Inv, NEW n \in Nat, AdvanceView(n)
    PROVE  Len(view') <= Len(view)
<1>1. Len(view) = Len(buffer) - viewStart /\ Len(view) \in Nat /\ Len(buffer) \in Nat
    BY ViewLength, LenProperties DEF Inv, TypeOK
<1>2. CASE viewStart + n <= Len(buffer)
    <2>1. viewStart + n \in 0 .. Len(buffer)
        BY <1>1, <1>2 DEF Inv, TypeOK
    <2>2. Len(SubSeq(buffer, viewStart + n + 1, Len(buffer))) = Len(buffer) - (viewStart + n)
        BY <2>1, Rest DEF Inv, TypeOK
    <2>3. QED
        BY <1>1, <2>2 DEF AdvanceView, Inv, TypeOK
<1>3. CASE viewStart + n > Len(buffer)
    <2>1. SubSeq(buffer, viewStart + n + 1, Len(buffer)) = <<>>
        BY <1>1, <1>3, SubSeqEmpty DEF Inv, TypeOK
    <2>2. view' = <<>> /\ Len(<<>>) = 0
        BY <2>1, EmptySeq DEF AdvanceView
    <2>3. QED
        BY <1>1, <2>2
<1>4. QED
    BY <1>1, <1>2, <1>3 DEF Inv, TypeOK

\* An error does not hand out bytes again.
LEMMA FailShrinks ==
    ASSUME Inv, NEW error, Fail(error)
    PROVE  Len(view') <= Len(view)
BY ViewLength, EmptySeq DEF Fail, ResetErr, Inv

\* Nor does a header that is refused.
LEMMA RefuseShrinks ==
    ASSUME Inv, NEW verdict, Refuse(verdict)
    PROVE  Len(view') <= Len(view)
BY FailShrinks, ViewLength DEF Refuse, Throw, window, Inv

\* Nor does pull_until.
LEMMA PullUntilShrinks ==
    ASSUME Inv, NEW chars, NEW max, NEW overflow, PullUntil(chars, max, overflow)
    PROVE  Len(view') <= Len(view)
BY FailShrinks, ViewLength DEF PullUntil, Suspend, window, Inv

\* No handler makes the view longer.
LEMMA HandlerShrinks ==
    ASSUME Inv, Parse
    PROVE  received' = received /\ Len(view') <= Len(view)
<1>1. received' = received
    BY DEF Parse, ParseRequestLine, ParseHeaders, ParseBodyContentLength,
           ParseBodyChunkedSize, ParseBodyChunkedData, ParseChunkedTrailers,
           Complete, input
<1>2. Len(view) \in Nat /\ (view' = view => Len(view') <= Len(view))
    BY ViewLength DEF Inv
<1>3. ASSUME Find(view, CRLF) # NotFound,
             NEW n \in {2, Find(view, CRLF) + 2}, AdvanceView(n)
      PROVE  Len(view') <= Len(view)
    <2>1. n \in Nat
        BY <1>3, LineInView DEF Inv
    <2>2. QED
        BY <1>3, <2>1, AdvanceViewShrinks
<1>4. ASSUME NEW block \in Seq(Symbol), EnterBody(block)
      PROVE  Len(view') <= Len(view)
    <2>1. CASE AdvanceView(Len(block))
        BY <2>1, LenProperties, AdvanceViewShrinks
    <2>2. QED
        BY <1>4, <2>1, FailShrinks, RefuseShrinks DEF EnterBody
<1>5. Len(view') <= Len(view)
    <2>1. CASE ParseRequestLine
        <3>1. CASE Find(view, CRLF) # NotFound
            BY <2>1, <3>1, <1>3, FailShrinks, PullUntilShrinks DEF ParseRequestLine
        <3>2. QED
            BY <2>1, <3>1, FailShrinks, PullUntilShrinks DEF ParseRequestLine, NotFound
    <2>2. CASE ParseHeaders
        <3>1. CASE Find(view, CRLF) = 0 /\ AdvanceView(2)
            BY <3>1, <1>3 DEF NotFound
        <3>2. CASE /\ Find(view, CRLF \o CRLF) # NotFound
                   /\ EnterBody(Prefix(view, Find(view, CRLF \o CRLF) + 4))
            <4>1. Find(view, CRLF \o CRLF) + 4 \in 0 .. Len(view)
                <5>1. /\ Find(view, CRLF \o CRLF) \in Nat
                      /\ Find(view, CRLF \o CRLF) + 4 <= Len(view)
                    BY <3>2, FindInText, BlankLineLength DEF Inv, TypeOK
                <5>2. QED
                    BY <1>2, <5>1
            <4>2. Prefix(view, Find(view, CRLF \o CRLF) + 4) \in Seq(Symbol)
                BY <4>1, PrefixOfText DEF Inv, TypeOK
            <4>3. QED
                BY <1>4, <3>2, <4>2
        <3>3. QED
            BY <2>2, <3>1, <3>2, FailShrinks, PullUntilShrinks DEF ParseHeaders
    <2>3. CASE ParseBodyContentLength
        <3>1. ASSUME NEW n \in 0 .. MaxBody, AdvanceView(n)
              PROVE  Len(view') <= Len(view)
            BY <3>1, LimitsAssumption, AdvanceViewShrinks
        <3>2. QED
            BY <1>2, <2>3, <3>1, FailShrinks DEF ParseBodyContentLength, Suspend, window
    <2>4. CASE ParseBodyChunkedSize
        BY <1>3, <2>4, FailShrinks, PullUntilShrinks DEF ParseBodyChunkedSize
    <2>5. CASE ParseBodyChunkedData
        <3>1. CASE AdvanceView(chunkLeft + 2)
            BY <3>1, AdvanceViewShrinks DEF Inv, TypeOK
        <3>2. QED
            BY <1>2, <2>5, <3>1, FailShrinks DEF ParseBodyChunkedData, Suspend, window
    <2>6. CASE ParseChunkedTrailers
        <3>1. CASE Find(view, CRLF) # NotFound
            BY <1>2, <1>3, <2>6, <3>1, RefuseShrinks, PullUntilShrinks
            DEF ParseChunkedTrailers, window
        <3>2. QED
            BY <1>2, <2>6, <3>1, RefuseShrinks, PullUntilShrinks
            DEF ParseChunkedTrailers, window, NotFound
    <2>7. CASE Complete
        BY <1>2, <2>7 DEF Complete, EraseConsumed, Inv, WindowOK
    <2>8. QED
        BY <2>1, <2>2, <2>3, <2>4, <2>5, <2>6, <2>7 DEF Parse
<1>6. QED
    BY <1>1, <1>5

\* A read lengthens the view by what it brought.
LEMMA PullKeepsConsumed ==
    ASSUME Inv, NEW n \in 1 .. ReadSize, PullData(n)
    PROVE  Consumed' = Consumed
<1>1. /\ Len(buffer) \in Nat /\ received \in Nat /\ viewStart \in 0 .. Len(buffer)
      /\ n \in Nat /\ received + n \in 0 .. Len(stream)
    BY LenProperties, ReadSizeAssumption DEF Inv, TypeOK, WindowOK, PullData
<1>2. Len(view) = Len(buffer) - viewStart
    BY ViewLength DEF Inv
<1>3. Inv' /\ received' = received + n /\ viewStart' = viewStart
    BY PullDataStep DEF PullData
<1>4. buffer' \in Seq(Symbol) /\ Len(buffer') = Len(buffer) + n
    <2>1. \A i \in received + 1 .. received + n : stream[i] \in Symbol
        BY <1>1, ElementOfSeq DEF Inv, TypeOK
    <2>2. /\ SubSeq(stream, received + 1, received + n) \in Seq(Symbol)
          /\ Len(SubSeq(stream, received + 1, received + n)) = n
        BY <1>1, <2>1, SubSeqProperties
    <2>3. QED
        BY <2>2, Concat DEF Inv, TypeOK, PullData
<1>5. view' = SubSeq(buffer', viewStart + 1, Len(buffer')) /\ viewStart \in 0 .. Len(buffer')
    BY <1>1, <1>4 DEF PullData
<1>6. Len(view') = Len(buffer) + n - viewStart
    BY <1>1, <1>4, <1>5, Rest
<1>7. QED
    BY <1>1, <1>2, <1>3, <1>6 DEF Consumed

\* No byte of the stream is handed out twice, whatever the order of reads,
\* handlers, errors and calls of next().
THEOREM ParserConsumesOnce == Spec => NothingConsumedTwice
<1>1. ASSUME Inv, [Next]_vars
      PROVE  Consumed' >= Consumed
    <2>1. Len(view) \in Nat /\ received \in Nat /\ Inv'
        BY <1>1, NextInv, LenProperties DEF Inv, TypeOK
    <2>2. Len(view') \in Nat
        BY <2>1, LenProperties DEF Inv, TypeOK
    <2>3. CASE Parse
        BY <1>1, <2>1, <2>2, <2>3, HandlerShrinks DEF Consumed
    <2>4. CASE Pull
        BY <1>1, <2>1, <2>4, PullKeepsConsumed DEF Pull, Consumed
    <2>5. CASE PullFails
        BY <1>1, <2>1, <2>2, <2>5, FailShrinks DEF PullFails, Consumed, input
    <2>6. CASE CallNext \/ UNCHANGED vars
        BY <2>1, <2>6 DEF CallNext, vars, input, window, Consumed
    <2>7. QED
        BY <1>1, <2>3, <2>4, <2>5, <2>6 DEF Next, Stopped
<1>2. QED
    BY ParserInvariant, <1>1, PTL DEF Spec, NothingConsumedTwice

-----------------------------------------------------------------------------
(* Conversations.  Lines in a text.                                        *)

\* view is the first part of text, as far as it was read.
Begins(view_, text) ==
    /\ view_ \in Seq(Symbol) /\ text \in Seq(Symbol) /\ Len(view_) <= Len(text)
    /\ \A i \in 1 .. Len(view_) : view_[i] = text[i]

\* Where the symbols of two texts are when one follows the other.
LEMMA Joined ==
    ASSUME NEW s \in Seq(Symbol), NEW t \in Seq(Symbol)
    PROVE  /\ s \o t \in Seq(Symbol) /\ Len(s) \in Nat /\ Len(t) \in Nat
           /\ Len(s \o t) = Len(s) + Len(t)
           /\ \A i \in 1 .. Len(s) : (s \o t)[i] = s[i]
           /\ \A i \in 1 .. Len(t) : (s \o t)[Len(s) + i] = t[i]
<1>1. /\ s \o t \in Seq(Symbol) /\ Len(s \o t) = Len(s) + Len(t)
      /\ \A i \in 1 .. Len(s) + Len(t) :
            (s \o t)[i] = IF i <= Len(s) THEN s[i] ELSE t[i - Len(s)]
    BY ConcatProperties
<1>2. Len(s) \in Nat /\ Len(t) \in Nat
    BY LenProperties
<1> DEFINE w == s \o t
<1> HIDE DEF w
<1>3. \A i \in 1 .. Len(s) + Len(t) : w[i] = IF i <= Len(s) THEN s[i] ELSE t[i - Len(s)]
    BY <1>1 DEF w
<1>4. ASSUME NEW i \in 1 .. Len(t)
      PROVE  w[Len(s) + i] = t[i]
    <2> DEFINE j == Len(s) + i
    <2>1. j \in 1 .. Len(s) + Len(t) /\ ~(j <= Len(s)) /\ j - Len(s) = i
        BY <1>2
    <2> HIDE DEF j
    <2>2. w[j] = t[j - Len(s)]
        BY <1>3, <2>1
    <2>3. QED
        BY <2>1, <2>2 DEF j
<1>5. \A i \in 1 .. Len(s) : w[i] = s[i]
    BY <1>2, <1>3
<1>6. QED
    BY <1>1, <1>2, <1>4, <1>5 DEF w

\* Where a line end stands.
LEMMA CRLFOccurs ==
    ASSUME NEW text \in Seq(Symbol), NEW pos \in Nat
    PROVE  OccursAt(text, CRLF, pos) <=>
                pos + 2 <= Len(text) /\ text[pos + 1] = CR /\ text[pos + 2] = LF
<1> DEFINE piece == SubSeq(text, pos + 1, pos + 2)
<1>1. Len(text) \in Nat /\ pos + 1 \in Int /\ pos + 2 \in Int /\ Len(CRLF) = 2
    BY LenProperties, CRLFLength
<1>2. CASE pos + 2 <= Len(text)
    <2>1. \A i \in pos + 1 .. pos + 2 : text[i] \in Symbol
        BY <1>1, <1>2, ElementOfSeq
    <2>2. /\ piece \in Seq(Symbol) /\ Len(piece) = 2
          /\ piece[1] = text[pos + 1] /\ piece[2] = text[pos + 2]
        BY <1>1, <2>1, SubSeqProperties
    <2> HIDE DEF piece
    <2>3. piece = CRLF <=> piece[1] = CR /\ piece[2] = LF
        <3>1. CRLF[1] = CR /\ CRLF[2] = LF
            BY DEF CRLF
        <3>2. ASSUME piece[1] = CR, piece[2] = LF
              PROVE  piece = CRLF
            <4>1. \A i \in 1 .. Len(piece) : piece[i] = CRLF[i]
                BY <2>2, <3>1, <3>2
            <4>2. QED
                BY <1>1, <2>2, <4>1, CRLFLength, SeqEqual
        <3>3. QED
            BY <3>1, <3>2
    <2>4. OccursAt(text, CRLF, pos) <=> piece = CRLF
        BY <1>1, <1>2 DEF OccursAt, piece
    <2>5. QED
        BY <1>2, <2>2, <2>3, <2>4
<1>3. CASE ~(pos + 2 <= Len(text))
    BY <1>1, <1>3 DEF OccursAt
<1>4. QED
    BY <1>2, <1>3

\* Where an empty line stands.
LEMMA BlankOccurs ==
    ASSUME NEW text \in Seq(Symbol), NEW pos \in Nat
    PROVE  OccursAt(text, CRLF \o CRLF, pos) <=>
                OccursAt(text, CRLF, pos) /\ OccursAt(text, CRLF, pos + 2)
<1> DEFINE piece == SubSeq(text, pos + 1, pos + 4)
           blank == CRLF \o CRLF
<1>1. Len(text) \in Nat /\ pos + 1 \in Int /\ pos + 4 \in Int /\ pos + 2 \in Nat
    BY LenProperties
<1>2. /\ blank \in Seq(Symbol) /\ Len(blank) = 4
      /\ blank[1] = CR /\ blank[2] = LF /\ blank[3] = CR /\ blank[4] = LF
    BY BlankLineLength DEF CRLF
<1>3. OccursAt(text, CRLF, pos) <=>
            pos + 2 <= Len(text) /\ text[pos + 1] = CR /\ text[pos + 2] = LF
    BY CRLFOccurs
<1>4. OccursAt(text, CRLF, pos + 2) <=>
            pos + 4 <= Len(text) /\ text[pos + 3] = CR /\ text[pos + 4] = LF
    <2> DEFINE q == pos + 2
    <2>1. q \in Nat /\ q + 2 = pos + 4 /\ q + 1 = pos + 3
        BY <1>1
    <2> HIDE DEF q
    <2>2. OccursAt(text, CRLF, q) <=>
                q + 2 <= Len(text) /\ text[q + 1] = CR /\ text[q + 2] = LF
        BY <2>1, CRLFOccurs
    <2>3. QED
        BY <2>1, <2>2 DEF q
<1> HIDE DEF blank
<1>5. CASE pos + 4 <= Len(text)
    <2>1. \A i \in pos + 1 .. pos + 4 : text[i] \in Symbol
        BY <1>1, <1>5, ElementOfSeq
    <2>2. /\ piece \in Seq(Symbol) /\ Len(piece) = 4
          /\ piece[1] = text[pos + 1] /\ piece[2] = text[pos + 2]
          /\ piece[3] = text[pos + 3] /\ piece[4] = text[pos + 4]
        BY <1>1, <2>1, SubSeqProperties
    <2> HIDE DEF piece
    <2>3. piece = blank <=>
            piece[1] = CR /\ piece[2] = LF /\ piece[3] = CR /\ piece[4] = LF
        <3>1. ASSUME piece[1] = CR, piece[2] = LF, piece[3] = CR, piece[4] = LF
              PROVE  piece = blank
            <4>1. \A i \in 1 .. Len(piece) : piece[i] = blank[i]
                BY <1>2, <2>2, <3>1
            <4>2. QED
                BY <1>2, <2>2, <4>1, SeqEqual
        <3>2. QED
            BY <1>2, <3>1
    <2>4. OccursAt(text, blank, pos) <=> piece = blank
        BY <1>1, <1>2, <1>5 DEF OccursAt, piece
    <2>5. pos + 2 <= Len(text)
        BY <1>1, <1>5
    <2>6. QED
        BY <1>3, <1>4, <1>5, <2>2, <2>3, <2>4, <2>5 DEF blank
<1>6. CASE ~(pos + 4 <= Len(text))
    BY <1>1, <1>2, <1>4, <1>6 DEF OccursAt, blank
<1>7. QED
    BY <1>5, <1>6

\* What Find answers: the first place, or NotFound.
LEMMA FindIs ==
    ASSUME NEW text \in Seq(Symbol), NEW chars
    PROVE  /\ \A p \in 0 .. Len(text) :
                OccursAt(text, chars, p) /\ (\A q \in 0 .. p - 1 : ~OccursAt(text, chars, q))
                    => Find(text, chars) = p
           /\ (\A p \in 0 .. Len(text) : ~OccursAt(text, chars, p))
                    => Find(text, chars) = NotFound
<1> DEFINE hits == {pos \in 0 .. Len(text) : OccursAt(text, chars, pos)}
<1>1. Len(text) \in Nat
    BY LenProperties
<1>2. ASSUME NEW p \in 0 .. Len(text), OccursAt(text, chars, p),
             \A q \in 0 .. p - 1 : ~OccursAt(text, chars, q)
      PROVE  Find(text, chars) = p
    <2>1. p \in hits /\ hits \in SUBSET Nat
        BY <1>2
    <2>2. Min(hits) \in hits /\ \A i \in hits : Min(hits) <= i
        BY <2>1, LeastPosition
    <2>3. Find(text, chars) = Min(hits)
        BY <2>1 DEF Find
    <2> DEFINE m == Min(hits)
    <2>4. m \in 0 .. Len(text) /\ OccursAt(text, chars, m) /\ m <= p
        BY <2>1, <2>2
    <2> HIDE DEF m
    <2>5. m \notin 0 .. p - 1
        BY <1>2, <2>4
    <2>6. m = p
        BY <1>1, <2>4, <2>5
    <2>7. QED
        BY <2>3, <2>6 DEF m
<1>3. ASSUME \A p \in 0 .. Len(text) : ~OccursAt(text, chars, p)
      PROVE  Find(text, chars) = NotFound
    BY <1>3 DEF Find
<1>4. QED
    BY <1>2, <1>3

\* A line that is followed by its end is found, as soon as both are there.
LEMMA LineFound ==
    ASSUME NEW view_, NEW line \in Text, NEW rest \in Seq(Symbol),
           Begins(view_, (line \o CRLF) \o rest)
    PROVE  /\ line \in Seq(Symbol) /\ Len(line) \in Nat /\ Len(view_) \in Nat
           /\ Len(line \o CRLF) = Len(line) + 2 /\ line \o CRLF \in Seq(Symbol)
           /\ Len(view_) < Len(line) + 2 => Find(view_, CRLF) = NotFound
           /\ Len(view_) >= Len(line) + 2 =>
                Find(view_, CRLF) = Len(line) /\ Prefix(view_, Len(line)) = line
<1> DEFINE n == Len(line)
           whole == line \o CRLF
           text == whole \o rest
<1>1. line \in Seq(Symbol) /\ n \in Nat /\ \A i \in 1 .. n : line[i] # CR
    BY ElementOfSeq, LenProperties DEF Text
<1>2. /\ whole \in Seq(Symbol) /\ Len(whole) = n + 2
      /\ \A i \in 1 .. n : whole[i] = line[i]
      /\ whole[n + 1] = CR /\ whole[n + 2] = LF
    <2>1. CRLF \in Seq(Symbol) /\ Len(CRLF) = 2 /\ CRLF[1] = CR /\ CRLF[2] = LF
        BY CRLFLength DEF CRLF
    <2>2. 1 \in 1 .. 2 /\ 2 \in 1 .. 2
        OBVIOUS
    <2>3. /\ whole \in Seq(Symbol) /\ Len(whole) = Len(line) + Len(CRLF)
          /\ \A i \in 1 .. Len(line) : whole[i] = line[i]
          /\ \A i \in 1 .. Len(CRLF) : whole[Len(line) + i] = CRLF[i]
        BY <1>1, <2>1, Joined
    <2> HIDE DEF whole
    <2>4. whole[Len(line) + 1] = CRLF[1] /\ whole[Len(line) + 2] = CRLF[2]
        BY <2>1, <2>2, <2>3
    <2>5. QED
        BY <2>1, <2>3, <2>4
<1> HIDE DEF whole
<1>3. /\ text \in Seq(Symbol) /\ \A i \in 1 .. Len(whole) : text[i] = whole[i]
      /\ Len(text) = Len(whole) + Len(rest) /\ Len(rest) \in Nat
    BY <1>2, Joined
<1>4. /\ view_ \in Seq(Symbol) /\ Len(view_) \in Nat /\ Len(view_) <= Len(text)
      /\ \A i \in 1 .. Len(view_) : view_[i] = text[i]
    BY LenProperties DEF Begins, whole
<1> HIDE DEF text, n
<1>5. /\ \A i \in 1 .. n : i <= Len(view_) => view_[i] = line[i]
      /\ n + 1 <= Len(view_) => view_[n + 1] = CR
      /\ n + 2 <= Len(view_) => view_[n + 2] = LF
    <2>1. ASSUME NEW i \in 1 .. n + 2, i <= Len(view_)
          PROVE  view_[i] = whole[i]
        BY <1>1, <1>2, <1>3, <1>4, <2>1
    <2>2. \A i \in 1 .. n : i \in 1 .. n + 2
        BY <1>1
    <2>3. n + 1 \in 1 .. n + 2 /\ n + 2 \in 1 .. n + 2
        BY <1>1
    <2>4. \A i \in 1 .. n : i <= Len(view_) => view_[i] = line[i]
        BY <1>2, <2>1, <2>2
    <2>5. QED
        BY <1>2, <2>1, <2>3, <2>4
<1>6. ASSUME NEW q \in 0 .. n - 1, q \in Nat
      PROVE  ~OccursAt(view_, CRLF, q)
    <2>1. q + 1 \in 1 .. n
        BY <1>1
    <2>2. q + 2 <= Len(view_) => view_[q + 1] # CR
        BY <1>1, <1>4, <1>5, <2>1
    <2>3. QED
        BY <1>4, <2>2, CRLFOccurs
<1>7. CASE Len(view_) < n + 2
    <2>1. ASSUME NEW q \in 0 .. Len(view_)
          PROVE  ~OccursAt(view_, CRLF, q)
        <3>1. CASE q \in 0 .. n - 1
            BY <1>6, <3>1
        <3>2. CASE q \notin 0 .. n - 1
            <4>1. q \in Nat /\ ~(q + 2 <= Len(view_))
                BY <1>1, <1>4, <1>7, <3>2
            <4>2. QED
                BY <1>4, <4>1, CRLFOccurs
        <3>3. QED
            BY <3>1, <3>2
    <2>2. Find(view_, CRLF) = NotFound
        BY <1>4, <2>1, FindIs
    <2>3. ~(Len(view_) >= n + 2)
        BY <1>1, <1>4, <1>7
    <2>4. QED
        BY <1>1, <1>2, <1>4, <2>2, <2>3 DEF n, whole
<1>8. CASE ~(Len(view_) < n + 2)
    <2>1. n \in 0 .. Len(view_) /\ n + 1 <= Len(view_) /\ n + 2 <= Len(view_)
        BY <1>1, <1>4, <1>8
    <2>2. OccursAt(view_, CRLF, n)
        BY <1>1, <1>4, <1>5, <2>1, CRLFOccurs
    <2>3. Find(view_, CRLF) = n
        <3>1. \A q \in 0 .. n - 1 : ~OccursAt(view_, CRLF, q)
            BY <1>6
        <3>2. QED
            BY <1>4, <2>1, <2>2, <3>1, FindIs
    <2>4. Prefix(view_, n) = line
        <3>1. \A i \in 1 .. n : view_[i] \in Symbol
            BY <1>4, <2>1, ElementOfSeq
        <3> DEFINE first == SubSeq(view_, 1, n)
        <3>2. /\ first \in Seq(Symbol) /\ Len(first) = n
              /\ \A i \in 1 .. n : first[i] = view_[i]
            <4>1. /\ first \in Seq(Symbol)
                  /\ Len(first) = IF 1 <= n THEN n - 1 + 1 ELSE 0
                  /\ \A i \in 1 .. n - 1 + 1 : first[i] = view_[1 + i - 1]
                BY <1>1, <3>1, SubSeqProperties
            <4> HIDE DEF first
            <4>2. \A i \in 1 .. n : i \in 1 .. n - 1 + 1 /\ 1 + i - 1 = i
                BY <1>1
            <4>3. QED
                BY <1>1, <4>1, <4>2
        <3> HIDE DEF first
        <3>3. \A i \in 1 .. Len(first) : first[i] = line[i]
            BY <1>1, <1>5, <2>1, <3>2
        <3>4. first = line
            BY <1>1, <3>2, <3>3, SeqEqual DEF n
        <3>5. QED
            BY <3>4 DEF Prefix, first
    <2>5. QED
        BY <1>1, <1>2, <1>4, <1>8, <2>3, <2>4 DEF n, whole
<1>9. QED
    BY <1>7, <1>8

-----------------------------------------------------------------------------
(* A message from its end: what is left of it behind each of its parts.    *)

\* What Wire puts behind one another.
LineParts(lines) == [i \in DOMAIN lines |-> lines[i] \o CRLF]
ChunkParts(m) == [i \in DOMAIN m.chunks |->
    m.chunks[i].line \o CRLF \o m.chunks[i].data \o m.chunks[i].tail]
LeadParts(m) == [i \in 1 .. m.lead |-> CRLF]
WireParts(messages) == [i \in DOMAIN messages |-> Wire(messages[i])]

\* What is left of lines and the empty line behind the first j of them, of a
\* message behind its chunks, behind the first i of them, its head, its header
\* lines, its request line and its first k empty lines.
LinesRest(lines, j) == Flat(LineParts(lines), j) \o CRLF
AfterChunks(m) == IF m.chunks = <<>> THEN <<>> ELSE LinesRest(m.trailers, 0)
ChunkRest(m, i) == Flat(ChunkParts(m), i) \o AfterChunks(m)
BodyRest(m) == m.body \o ChunkRest(m, 0)
HeadRest(m) == LinesRest(m.headers, 0) \o BodyRest(m)
LineRest(m) == (m.line \o CRLF) \o HeadRest(m)
LeadRest(m, k) == Flat(LeadParts(m), k) \o LineRest(m)

\* A text without line ends is a text.
LEMMA TextIsSymbols ==
    /\ Text \subseteq Seq(Symbol) /\ TextLine \subseteq Text /\ <<>> \in Text
    /\ Seq(Text) \subseteq Seq(Seq(Symbol)) /\ Seq(TextLine) \subseteq Seq(Text)
    /\ \A line \in TextLine : Len(line) \in Nat \ {0}
<1>1. Text \subseteq Seq(Symbol) /\ TextLine \subseteq Text /\ <<>> \in Text
    BY DEF Text, TextLine
<1>2. \A line \in TextLine : Len(line) \in Nat \ {0}
    BY EmptySeq DEF TextLine, Text
<1>3. ASSUME NEW S, NEW T, S \subseteq T
      PROVE  Seq(S) \subseteq Seq(T)
    BY <1>3
<1>4. QED
    BY <1>1, <1>2, <1>3

\* One text behind another, and behind nothing.
LEMMA TextConcat ==
    /\ \A s, t \in Seq(Symbol) : s \o t \in Seq(Symbol)
    /\ \A s \in Seq(Symbol) : << >> \o s = s /\ s \o << >> = s
    /\ \A s, t, u \in Seq(Symbol) : (s \o t) \o u = s \o (t \o u)
    /\ << >> \in Seq(Symbol)
<1>1. \A s, t \in Seq(Symbol) : s \o t \in Seq(Symbol)
    BY ConcatProperties
<1>2. \A s \in Seq(Symbol) : << >> \o s = s /\ s \o << >> = s
    BY ConcatEmptySeq
<1>3. \A s, t, u \in Seq(Symbol) : (s \o t) \o u = s \o (t \o u)
    BY ConcatAssociative
<1>4. << >> \in Seq(Symbol)
    BY EmptySeq
<1>5. QED
    BY <1>1, <1>2, <1>3, <1>4

\* Three texts behind one another, from the front or from the back.
LEMMA TextAssociative ==
    \A s, t, u \in Seq(Symbol) : (s \o t) \o u = s \o (t \o u)
BY ConcatAssociative

\* Lines, from each of them on.
LEMMA LinesStep ==
    ASSUME NEW lines \in Seq(TextLine), NEW i \in 0 .. Len(lines)
    PROVE  /\ LinesRest(lines, i) \in Seq(Symbol)
           /\ i = Len(lines) => LinesRest(lines, i) = CRLF
           /\ i # Len(lines) =>
                /\ i + 1 \in 0 .. Len(lines) /\ lines[i + 1] \in TextLine
                /\ LinesRest(lines, i) = (lines[i + 1] \o CRLF) \o LinesRest(lines, i + 1)
<1> DEFINE parts == LineParts(lines)
<1>1. Len(lines) \in Nat /\ DOMAIN lines = 1 .. Len(lines)
      /\ \A k \in 1 .. Len(lines) : lines[k] \in TextLine
    BY LenProperties, ElementOfSeq
<1>2. \A k \in 1 .. Len(lines) : lines[k] \o CRLF \in Seq(Symbol)
    <2>1. \A s, t \in Seq(Symbol) : s \o t \in Seq(Symbol)
        BY ConcatProperties
    <2>2. QED
        BY <1>1, <2>1, TextIsSymbols, CRLFLength
<1>3. /\ parts \in Seq(Seq(Symbol)) /\ Len(parts) = Len(lines)
      /\ \A k \in 1 .. Len(lines) : parts[k] = lines[k] \o CRLF
    <2> DEFINE n == Len(lines)
               F(k) == lines[k] \o CRLF
    <2>1. parts = [k \in 1 .. n |-> F(k)]
        BY <1>1 DEF LineParts
    <2> HIDE DEF parts, n, F
    <2>2. n \in Nat /\ \A k \in 1 .. n : F(k) \in Seq(Symbol)
        BY <1>1, <1>2 DEF n, F
    <2>3. parts \in Seq(Seq(Symbol)) /\ Len(parts) = n /\ \A k \in 1 .. n : parts[k] = F(k)
        <3>1. parts \in [1 .. n -> Seq(Symbol)]
            BY <2>1, <2>2
        <3>2. DOMAIN parts = 1 .. n /\ \A k \in 1 .. n : parts[k] = F(k)
            BY <2>1
        <3> DEFINE T == Seq(Symbol)
        <3> HIDE DEF T
        <3>3. parts \in Seq(T) /\ Len(parts) = n
            <4>1. parts \in [1 .. n -> T]
                BY <3>1 DEF T
            <4>2. QED
                BY <2>2, <4>1
        <3>4. QED
            BY <3>2, <3>3 DEF T
    <2>4. QED
        BY <2>3 DEF n, F
<1> DEFINE rest(k) == Flat(parts, k)
<1>7. \A k : LinesRest(lines, k) = rest(k) \o CRLF
    BY DEF LinesRest
<1> HIDE DEF parts
<1>4. i \in 0 .. Len(parts)
    BY <1>3
<1>5. /\ rest(i) \in Seq(Symbol)
      /\ i = Len(lines) => rest(i) = << >>
      /\ i # Len(lines) =>
            /\ i + 1 \in 0 .. Len(lines) /\ parts[i + 1] \in Seq(Symbol)
            /\ rest(i) = parts[i + 1] \o rest(i + 1)
    <2>1. /\ Flat(parts, i) \in Seq(Symbol)
          /\ i = Len(parts) => Flat(parts, i) = << >>
          /\ i # Len(parts) =>
                /\ i + 1 \in 0 .. Len(parts) /\ parts[i + 1] \in Seq(Symbol)
                /\ Flat(parts, i) = parts[i + 1] \o Flat(parts, i + 1)
        BY <1>3, <1>4, FlatStep
    <2>2. QED
        BY <1>3, <2>1 DEF rest
<1>6. i # Len(lines) => rest(i + 1) \in Seq(Symbol)
    <2>1. \A k \in 0 .. Len(parts) : Flat(parts, k) \in Seq(Symbol)
        BY <1>3, FlatStep
    <2>2. QED
        BY <1>3, <1>5, <2>1 DEF rest
<1> HIDE DEF rest
<1>8. LinesRest(lines, i) \in Seq(Symbol)
    <2> DEFINE r == rest(i)
    <2>1. LinesRest(lines, i) = r \o CRLF /\ r \in Seq(Symbol)
        BY <1>5, <1>7
    <2> HIDE DEF r
    <2>2. QED
        BY <2>1, TextConcat, CRLFLength
<1>9. ASSUME i = Len(lines)
      PROVE  LinesRest(lines, i) = CRLF
    <2>1. << >> \o CRLF = CRLF
        BY TextConcat, CRLFLength
    <2>2. rest(i) = << >>
        BY <1>5, <1>9
    <2>3. LinesRest(lines, i) = rest(i) \o CRLF
        BY <1>7
    <2>4. QED
        BY <2>1, <2>2, <2>3
<1>10. ASSUME i # Len(lines)
       PROVE  /\ i + 1 \in 0 .. Len(lines) /\ lines[i + 1] \in TextLine
              /\ LinesRest(lines, i) = (lines[i + 1] \o CRLF) \o LinesRest(lines, i + 1)
    <2>1. i + 1 \in 1 .. Len(lines)
        <3> DEFINE n == Len(lines)
        <3>1. n \in Nat /\ i \in 0 .. n /\ i # n
            BY <1>1, <1>10
        <3> HIDE DEF n
        <3>2. i + 1 \in 1 .. n
            BY <3>1
        <3>3. QED
            BY <3>2 DEF n
    <2> DEFINE a == lines[i + 1] \o CRLF
               b == rest(i + 1)
    <2>2. a \in Seq(Symbol) /\ b \in Seq(Symbol) /\ rest(i) = a \o b
        BY <1>2, <1>3, <1>5, <1>6, <1>10, <2>1
    <2>3. LinesRest(lines, i) = (a \o b) \o CRLF /\ LinesRest(lines, i + 1) = b \o CRLF
        BY <1>7, <2>2
    <2> HIDE DEF a, b
    <2>4. (a \o b) \o CRLF = a \o (b \o CRLF)
        BY <2>2, CRLFLength, ConcatAssociative
    <2>5. LinesRest(lines, i) = a \o LinesRest(lines, i + 1)
        BY <2>3, <2>4
    <2>6. QED
        BY <1>1, <2>1, <2>5 DEF a
<1>11. QED
    BY <1>8, <1>9, <1>10

-----------------------------------------------------------------------------
(* A header block.                                                         *)

\* Where the lines of a block start: line i + 1 behind the first i.
Starts(lines, i) == Len(LinesRest(lines, 0)) - Len(LinesRest(lines, i))

\* Line i stands in the block, and behind it a line end.
LineStands(lines, i) ==
    LET block == LinesRest(lines, 0)
        line == lines[i]
        at == Starts(lines, i - 1)
        next == Starts(lines, i)
    IN  /\ line \in TextLine /\ Len(line) \in Nat \ {0}
        /\ at \in Nat /\ next = at + Len(line) + 2
        /\ \A k \in 1 .. Len(line) :
                block[at + k] = line[k] /\ line[k] # CR /\ line[k] # LF
        /\ block[next - 1] = CR /\ block[next] = LF

\* What a line, its end, and what follows them look like.
LEMMA LineShape ==
    ASSUME NEW line \in TextLine, NEW rest \in Seq(Symbol)
    PROVE  LET text == (line \o CRLF) \o rest
           IN  /\ text \in Seq(Symbol) /\ Len(line) \in Nat \ {0} /\ Len(rest) \in Nat
               /\ Len(text) = Len(line) + 2 + Len(rest)
               /\ \A k \in 1 .. Len(line) :
                        text[k] = line[k] /\ line[k] # CR /\ line[k] # LF
               /\ text[Len(line) + 1] = CR /\ text[Len(line) + 2] = LF
               /\ \A k \in 1 .. Len(rest) : text[Len(line) + 2 + k] = rest[k]
<1> DEFINE whole == line \o CRLF
           text == whole \o rest
           n == Len(line)
<1>1. line \in Seq(Symbol) /\ n \in Nat \ {0} /\ Len(rest) \in Nat
      /\ \A k \in 1 .. n : line[k] # CR /\ line[k] # LF
    <2>1. line \in Seq(Symbol \ {CR, LF}) /\ line # << >>
        BY DEF TextLine, Text
    <2>2. QED
        BY <2>1, ElementOfSeq, LenProperties, EmptySeq
<1>2. CRLF \in Seq(Symbol) /\ Len(CRLF) = 2 /\ CRLF[1] = CR /\ CRLF[2] = LF
    BY CRLFLength DEF CRLF
<1>3. /\ whole \in Seq(Symbol) /\ Len(whole) = n + 2
      /\ \A k \in 1 .. n : whole[k] = line[k]
      /\ whole[n + 1] = CR /\ whole[n + 2] = LF
    <2>1. /\ whole \in Seq(Symbol) /\ Len(whole) = Len(line) + Len(CRLF)
          /\ \A k \in 1 .. Len(line) : whole[k] = line[k]
          /\ \A k \in 1 .. Len(CRLF) : whole[Len(line) + k] = CRLF[k]
        BY <1>1, <1>2, Joined
    <2> HIDE DEF whole
    <2>2. 1 \in 1 .. Len(CRLF) /\ 2 \in 1 .. Len(CRLF)
        BY <1>2
    <2>3. QED
        BY <1>2, <2>1, <2>2
<1> HIDE DEF whole
<1>4. /\ text \in Seq(Symbol) /\ Len(text) = n + 2 + Len(rest)
      /\ \A k \in 1 .. n + 2 : text[k] = whole[k]
      /\ \A k \in 1 .. Len(rest) : text[n + 2 + k] = rest[k]
    <2>1. /\ text \in Seq(Symbol) /\ Len(text) = Len(whole) + Len(rest)
          /\ \A k \in 1 .. Len(whole) : text[k] = whole[k]
          /\ \A k \in 1 .. Len(rest) : text[Len(whole) + k] = rest[k]
        BY <1>3, Joined
    <2> HIDE DEF text, n
    <2>2. QED
        BY <1>3, <2>1
<1> HIDE DEF text
<1>5. \A k \in 1 .. n : k \in 1 .. n + 2 /\ n + 1 \in 1 .. n + 2 /\ n + 2 \in 1 .. n + 2
    BY <1>1
<1>6. 1 \in 1 .. n
    BY <1>1
<1>7. QED
    BY <1>1, <1>3, <1>4, <1>5, <1>6 DEF text, whole

\* How long the rests of a block are.
LEMMA RestLengths ==
    ASSUME NEW lines \in Seq(TextLine)
    PROVE  /\ Len(lines) \in Nat
           /\ \A i \in 0 .. Len(lines) :
                LinesRest(lines, i) \in Seq(Symbol) /\ Len(LinesRest(lines, i)) \in Nat
           /\ Len(LinesRest(lines, Len(lines))) = 2
           /\ \A i \in 1 .. Len(lines) :
                /\ lines[i] \in TextLine /\ Len(lines[i]) \in Nat \ {0}
                /\ LinesRest(lines, i - 1) = (lines[i] \o CRLF) \o LinesRest(lines, i)
                /\ Len(LinesRest(lines, i - 1)) =
                        Len(lines[i]) + 2 + Len(LinesRest(lines, i))
<1> DEFINE n == Len(lines)
<1>1. n \in Nat
    BY LenProperties
<1>2. \A i \in 0 .. n : LinesRest(lines, i) \in Seq(Symbol) /\ Len(LinesRest(lines, i)) \in Nat
    BY LinesStep, LenProperties
<1>3. Len(LinesRest(lines, n)) = 2
    <2>1. n \in 0 .. n
        BY <1>1
    <2>2. LinesRest(lines, n) = CRLF
        BY <2>1, LinesStep
    <2>3. QED
        BY <2>2, CRLFLength
<1>4. ASSUME NEW i \in 1 .. n
      PROVE  /\ lines[i] \in TextLine /\ Len(lines[i]) \in Nat \ {0}
             /\ LinesRest(lines, i - 1) = (lines[i] \o CRLF) \o LinesRest(lines, i)
             /\ Len(LinesRest(lines, i - 1)) =
                        Len(lines[i]) + 2 + Len(LinesRest(lines, i))
    <2> DEFINE j == i - 1
    <2>1. j \in 0 .. n /\ j # n /\ j + 1 = i /\ i \in 0 .. n
        BY <1>1
    <2> HIDE DEF j
    <2>2. lines[i] \in TextLine /\ LinesRest(lines, j) = (lines[i] \o CRLF) \o LinesRest(lines, i)
        BY <2>1, LinesStep
    <2>3. LinesRest(lines, i) \in Seq(Symbol)
        BY <1>2, <2>1
    <2> DEFINE rest == LinesRest(lines, i)
    <2> HIDE DEF rest
    <2>4. Len((lines[i] \o CRLF) \o rest) = Len(lines[i]) + 2 + Len(rest)
          /\ Len(lines[i]) \in Nat \ {0}
        BY <2>2, <2>3, LineShape DEF rest
    <2>5. QED
        BY <2>2, <2>4 DEF rest, j
<1>5. QED
    BY <1>1, <1>2, <1>3, <1>4

\* A block from a line on reads like the rest of its lines.
LEMMA BlockFromLine ==
    ASSUME NEW lines \in Seq(TextLine)
    PROVE  \A i \in 0 .. Len(lines) :
            /\ Starts(lines, i) \in Nat
            /\ \A k \in 1 .. Len(LinesRest(lines, i)) :
                LinesRest(lines, 0)[Starts(lines, i) + k] = LinesRest(lines, i)[k]
<1> DEFINE n == Len(lines)
           R(i) == LinesRest(lines, i)
           at(i) == Starts(lines, i)
           Good(i) == at(i) \in Nat /\ \A k \in 1 .. Len(R(i)) : R(0)[at(i) + k] = R(i)[k]
           good == {i \in Nat : i \in 0 .. n => Good(i)}
<1>1. n \in Nat /\ \A i \in 0 .. n : Len(R(i)) \in Nat
    BY RestLengths
<1>2. at(0) = 0 /\ \A i : at(i) = Len(R(0)) - Len(R(i))
    <2>1. 0 \in 0 .. n
        BY <1>1
    <2>2. QED
        BY <1>1, <2>1 DEF Starts
<1>3. 0 \in good
    BY <1>2
<1>4. ASSUME NEW j \in good
      PROVE  j + 1 \in good
    <2> DEFINE i == j + 1
    <2> SUFFICES ASSUME i \in 0 .. n
                 PROVE  Good(i)
        OBVIOUS
    <2>1. j \in Nat /\ j \in 0 .. n /\ i \in 1 .. n /\ i - 1 = j
        BY <1>1
    <2>2. Good(j)
        BY <2>1
    <2>3. /\ lines[i] \in TextLine /\ Len(lines[i]) \in Nat \ {0}
          /\ R(j) = (lines[i] \o CRLF) \o R(i) /\ Len(R(j)) = Len(lines[i]) + 2 + Len(R(i))
          /\ R(i) \in Seq(Symbol) /\ Len(R(i)) \in Nat
        <3>1. R(i - 1) = (lines[i] \o CRLF) \o R(i) /\ Len(R(i - 1)) = Len(lines[i]) + 2 + Len(R(i))
            BY <2>1, RestLengths
        <3>2. /\ lines[i] \in TextLine /\ Len(lines[i]) \in Nat \ {0}
              /\ R(i) \in Seq(Symbol) /\ Len(R(i)) \in Nat
            BY <2>1, RestLengths
        <3>3. QED
            BY <2>1, <3>1, <3>2
    <2>4. \A k \in 1 .. Len(R(i)) : R(j)[Len(lines[i]) + 2 + k] = R(i)[k]
        <3> DEFINE rest == R(i)
                   line == lines[i]
        <3>1. line \in TextLine /\ rest \in Seq(Symbol) /\ R(j) = (line \o CRLF) \o rest
            BY <2>3
        <3> HIDE DEF rest, line, R
        <3>2. \A k \in 1 .. Len(rest) : ((line \o CRLF) \o rest)[Len(line) + 2 + k] = rest[k]
            BY <3>1, LineShape
        <3>3. \A k \in 1 .. Len(rest) : R(j)[Len(line) + 2 + k] = rest[k]
            BY <3>1, <3>2
        <3>4. QED
            BY <3>3 DEF rest, line
    <2>5. at(i) = at(j) + (Len(lines[i]) + 2) /\ at(j) \in Nat
        <3>1. at(i) = Len(R(0)) - Len(R(i)) /\ at(j) = Len(R(0)) - Len(R(j)) /\ at(j) \in Nat
            BY <1>2, <2>2
        <3>2. Len(R(0)) \in Nat
            BY <1>1
        <3> DEFINE a == at(i)
                   b == at(j)
                   x == Len(R(0))
                   y == Len(R(i))
                   z == Len(R(j))
                   w == Len(lines[i])
        <3>3. a = x - y /\ b = x - z /\ b \in Nat /\ x \in Nat /\ y \in Nat /\ w \in Nat
              /\ z = w + 2 + y
            BY <2>3, <3>1, <3>2
        <3> HIDE DEF a, b, x, y, z, w
        <3>4. a = b + (w + 2)
            BY <3>3
        <3>5. QED
            BY <3>3, <3>4 DEF a, b, w
    <2> DEFINE l == Len(lines[i]) + 2
    <2>6. l \in Nat /\ at(i) = at(j) + l /\ at(j) \in Nat /\ Len(R(j)) = l + Len(R(i)) /\ Len(R(i)) \in Nat
        <3> DEFINE w == Len(lines[i])
                   y == Len(R(i))
        <3>1. w \in Nat /\ y \in Nat /\ Len(R(j)) = w + 2 + y
            BY <2>3
        <3> HIDE DEF w, y
        <3>2. w + 2 \in Nat /\ Len(R(j)) = (w + 2) + y
            BY <3>1
        <3>3. QED
            BY <2>5, <3>1, <3>2 DEF w, y
    <2>7. \A k \in 1 .. Len(R(i)) : R(j)[l + k] = R(i)[k]
        BY <2>4
    <2>8. \A k \in 1 .. Len(R(j)) : R(0)[at(j) + k] = R(j)[k]
        BY <2>2
    <2> HIDE DEF l, R, at, i
    <2>9. ASSUME NEW k \in 1 .. Len(R(i))
          PROVE  R(0)[at(i) + k] = R(i)[k]
        <3> DEFINE q == l + k
        <3>1. q \in 1 .. Len(R(j)) /\ at(j) + q = at(i) + k
            BY <2>6
        <3>2. R(j)[q] = R(i)[k]
            BY <2>7
        <3> HIDE DEF q
        <3>3. R(0)[at(j) + q] = R(j)[q]
            BY <2>8, <3>1
        <3>4. QED
            BY <3>1, <3>2, <3>3
    <2>10. at(i) \in Nat
        BY <2>6
    <2>11. QED
        BY <2>9, <2>10
<1>5. good \in SUBSET Nat
    OBVIOUS
<1> HIDE DEF good
<1>6. \A i \in Nat : i \in good
    BY <1>3, <1>4, <1>5, SetInduction
<1>7. \A i \in 0 .. n : Good(i)
    BY <1>1, <1>6 DEF good
<1>8. QED
    BY <1>7

\* Where the lines of a block are.
LEMMA BlockLayout ==
    ASSUME NEW lines \in Seq(TextLine)
    PROVE  /\ Len(lines) \in Nat /\ LinesRest(lines, 0) \in Seq(Symbol)
           /\ Starts(lines, 0) = 0
           /\ Starts(lines, Len(lines)) + 2 = Len(LinesRest(lines, 0))
           /\ LinesRest(lines, 0)[Starts(lines, Len(lines)) + 1] = CR
           /\ LinesRest(lines, 0)[Starts(lines, Len(lines)) + 2] = LF
           /\ \A i \in 1 .. Len(lines) : LineStands(lines, i)
<1> DEFINE n == Len(lines)
           R(i) == LinesRest(lines, i)
           at(i) == Starts(lines, i)
<1>1. n \in Nat /\ 0 \in 0 .. n /\ n \in 0 .. n /\ Len(R(n)) = 2
      /\ \A i \in 0 .. n : R(i) \in Seq(Symbol) /\ Len(R(i)) \in Nat
    BY RestLengths
<1>2. \A i : at(i) = Len(R(0)) - Len(R(i))
    BY DEF Starts
<1>3. at(0) = 0 /\ at(n) + 2 = Len(R(0))
    <2>1. at(0) = Len(R(0)) - Len(R(0)) /\ at(n) = Len(R(0)) - Len(R(n)) /\ Len(R(0)) \in Nat
        BY <1>1, <1>2
    <2> HIDE DEF at, R, n
    <2>2. QED
        BY <1>1, <2>1
<1>4. \A i \in 0 .. n : at(i) \in Nat /\ \A k \in 1 .. Len(R(i)) : R(0)[at(i) + k] = R(i)[k]
    BY BlockFromLine
<1>5. R(0)[at(n) + 1] = CR /\ R(0)[at(n) + 2] = LF
    <2>1. R(n) = CRLF /\ CRLF[1] = CR /\ CRLF[2] = LF
        BY <1>1, LinesStep DEF CRLF
    <2>2. 1 \in 1 .. 2 /\ 2 \in 1 .. 2
        OBVIOUS
    <2> HIDE DEF at, R, n
    <2>3. QED
        BY <1>1, <1>4, <2>1, <2>2
<1>6. ASSUME NEW i \in 1 .. n
      PROVE  LineStands(lines, i)
    <2> DEFINE line == lines[i]
               j == i - 1
               l == Len(line)
    <2>1. j \in 0 .. n /\ i \in 0 .. n
        BY <1>1
    <2>2. /\ line \in TextLine /\ l \in Nat \ {0}
          /\ R(j) = (line \o CRLF) \o R(i) /\ Len(R(j)) = l + 2 + Len(R(i))
        BY <2>1, RestLengths
    <2>3. R(i) \in Seq(Symbol) /\ Len(R(i)) \in Nat /\ at(j) \in Nat
          /\ at(i) = Len(R(0)) - Len(R(i)) /\ at(j) = Len(R(0)) - Len(R(j))
          /\ Len(R(0)) \in Nat
        BY <1>1, <1>2, <1>4, <2>1
    <2>4. \A k \in 1 .. Len(R(j)) : R(0)[at(j) + k] = R(j)[k]
        BY <1>4, <2>1
    <2>5. /\ \A k \in 1 .. l : R(j)[k] = line[k] /\ line[k] # CR /\ line[k] # LF
          /\ R(j)[l + 1] = CR /\ R(j)[l + 2] = LF
        <3> DEFINE rest == R(i)
        <3>1. line \in TextLine /\ rest \in Seq(Symbol) /\ R(j) = (line \o CRLF) \o rest
            BY <2>2, <2>3
        <3> HIDE DEF rest, line, R
        <3> DEFINE text == (line \o CRLF) \o rest
        <3>2. /\ \A k \in 1 .. Len(line) : text[k] = line[k] /\ line[k] # CR /\ line[k] # LF
              /\ text[Len(line) + 1] = CR /\ text[Len(line) + 2] = LF
            BY <3>1, LineShape
        <3> HIDE DEF text
        <3>3. QED
            BY <3>1, <3>2 DEF text
    <2> HIDE DEF R, at, line, j, l
    <2>6. at(i) = at(j) + l + 2 /\ at(i) - 1 = at(j) + (l + 1) /\ at(i) = at(j) + (l + 2)
        BY <2>2, <2>3
    <2>7. /\ \A k \in 1 .. l : k \in 1 .. Len(R(j))
          /\ l + 1 \in 1 .. Len(R(j)) /\ l + 2 \in 1 .. Len(R(j))
        BY <2>2, <2>3
    <2>8. /\ \A k \in 1 .. l : R(0)[at(j) + k] = line[k] /\ line[k] # CR /\ line[k] # LF
          /\ R(0)[at(i) - 1] = CR /\ R(0)[at(i)] = LF
        <3>1. \A k \in 1 .. l : R(0)[at(j) + k] = line[k] /\ line[k] # CR /\ line[k] # LF
            BY <2>4, <2>5, <2>7
        <3>2. R(0)[at(j) + (l + 1)] = CR /\ R(0)[at(j) + (l + 2)] = LF
            BY <2>4, <2>5, <2>7
        <3>3. QED
            BY <2>6, <3>1, <3>2
    <2>9. QED
        BY <2>2, <2>3, <2>6, <2>8 DEF LineStands, R, at, line, j, l
<1>7. QED
    BY <1>1, <1>3, <1>5, <1>6

\* The lines of a block follow one another, at least a letter and a line end each.
LEMMA StartsGrow ==
    ASSUME NEW lines \in Seq(TextLine)
    PROVE  /\ \A i \in 0 .. Len(lines) : Starts(lines, i) \in Nat
           /\ \A i \in 0 .. Len(lines), j \in 0 .. Len(lines) :
                i < j => Starts(lines, i) + 3 <= Starts(lines, j)
<1> DEFINE n == Len(lines)
           at(i) == Starts(lines, i)
<1>1. n \in Nat /\ \A i \in 0 .. n : at(i) \in Nat
    BY BlockFromLine, RestLengths
<1>2. \A i \in 1 .. n : at(i - 1) + 3 <= at(i)
    <2>1. ASSUME NEW i \in 1 .. n
          PROVE  at(i - 1) + 3 <= at(i)
        <3> DEFINE l == Len(lines[i])
                   j == i - 1
        <3>1. l \in Nat \ {0} /\ at(j) \in Nat /\ at(i) = at(j) + l + 2
            BY BlockLayout DEF LineStands
        <3> HIDE DEF l, at, j
        <3>2. at(j) + 3 <= at(i)
            BY <3>1
        <3>3. QED
            BY <3>2 DEF j
    <2>2. QED
        BY <2>1
<1> DEFINE good == {j \in Nat : j \in 0 .. n => \A i \in 0 .. n : i < j => at(i) + 3 <= at(j)}
<1> HIDE DEF at, n
<1>3. 0 \in good /\ good \in SUBSET Nat
    BY <1>1
<1>4. ASSUME NEW j \in good
      PROVE  j + 1 \in good
    <2> SUFFICES ASSUME j + 1 \in 0 .. n, NEW i \in 0 .. n, i < j + 1
                 PROVE  at(i) + 3 <= at(j + 1)
        OBVIOUS
    <2> DEFINE k == j + 1
    <2>1. j \in 0 .. n /\ k \in 1 .. n /\ k \in 0 .. n /\ k - 1 = j /\ i < k
        BY <1>1
    <2>2. at(j) \in Nat /\ at(k) \in Nat /\ at(i) \in Nat
        BY <1>1, <2>1
    <2>3. at(j) + 3 <= at(k)
        BY <1>2, <2>1
    <2>4. CASE i = j
        BY <2>3, <2>4
    <2>5. CASE i # j
        <3>1. i < j
            BY <1>1, <2>1, <2>5
        <3>2. at(i) + 3 <= at(j)
            BY <2>1, <3>1
        <3> HIDE DEF k
        <3>3. at(i) + 3 <= at(k)
            BY <2>2, <2>3, <3>2
        <3>4. QED
            BY <3>3 DEF k
    <2>6. QED
        BY <2>4, <2>5
<1> HIDE DEF good
<1>5. \A j \in Nat : j \in good
    BY <1>3, <1>4, SetInduction
<1>6. \A i \in 0 .. n, j \in 0 .. n : i < j => at(i) + 3 <= at(j)
    BY <1>1, <1>5 DEF good
<1>7. QED
    BY <1>1, <1>6 DEF at, n

\* Every place in a block, before the empty line, is in one of its lines or in
\* the line end behind it.
LEMMA LineCovers ==
    ASSUME NEW lines \in Seq(TextLine), NEW p \in Nat, p < Starts(lines, Len(lines))
    PROVE  \E i \in 1 .. Len(lines) :
                Starts(lines, i - 1) <= p /\ p < Starts(lines, i)
<1> DEFINE n == Len(lines)
           at(i) == Starts(lines, i)
           behind == {i \in 0 .. n : p < at(i)}
           i == Min(behind)
<1>1. n \in Nat /\ at(0) = 0 /\ \A k \in 0 .. n : at(k) \in Nat
    BY BlockLayout, StartsGrow
<1> HIDE DEF at
<1>2. n \in behind /\ behind \in SUBSET Nat /\ 0 \notin behind
    BY <1>1 DEF at
<1>3. i \in behind /\ \A k \in behind : i <= k
    BY <1>2, LeastPosition
<1> HIDE DEF i
<1>4. i \in 1 .. n /\ i - 1 \in 0 .. n /\ p < at(i)
    BY <1>1, <1>2, <1>3
<1>5. i - 1 \notin behind
    BY <1>1, <1>3, <1>4
<1>6. at(i - 1) <= p
    <2>1. at(i - 1) \in Nat /\ ~(p < at(i - 1))
        BY <1>1, <1>4, <1>5
    <2>2. QED
        BY <2>1
<1>7. QED
    BY <1>4, <1>6 DEF at

\* The line ends of a block: one behind each line, and the empty line.
LEMMA BlockLineEnds ==
    ASSUME NEW lines \in Seq(TextLine), NEW rest \in Seq(Symbol),
           NEW p \in 0 .. Starts(lines, Len(lines))
    PROVE  OccursAt(LinesRest(lines, 0) \o rest, CRLF, p) <=>
                \/ p = Starts(lines, Len(lines))
                \/ \E i \in 1 .. Len(lines) : p = Starts(lines, i) - 2
<1> DEFINE n == Len(lines)
           at(i) == Starts(lines, i)
           block == LinesRest(lines, 0)
           text == block \o rest
<1>1. /\ n \in Nat /\ block \in Seq(Symbol) /\ at(0) = 0 /\ at(n) + 2 = Len(block)
      /\ block[at(n) + 1] = CR /\ block[at(n) + 2] = LF
      /\ \A i \in 1 .. n : LineStands(lines, i)
    BY BlockLayout
<1>2. \A i \in 0 .. n : at(i) \in Nat
    BY StartsGrow
<1>3. \A i \in 1 .. n : at(i) <= at(n) /\ at(i) - 2 \in Nat
    <2>1. ASSUME NEW i \in 1 .. n
          PROVE  at(i) <= at(n) /\ at(i) - 2 \in Nat
        <3>1. i \in 0 .. n /\ n \in 0 .. n /\ 0 \in 0 .. n /\ 0 < i /\ (i = n \/ i < n)
            BY <1>1
        <3>2. at(0) + 3 <= at(i) /\ (i < n => at(i) + 3 <= at(n))
            BY <3>1, StartsGrow
        <3>3. at(i) \in Nat /\ at(n) \in Nat
            BY <1>2, <3>1
        <3> HIDE DEF at, n
        <3>4. at(i) <= at(n)
            BY <3>1, <3>2, <3>3
        <3>5. QED
            BY <1>1, <3>2, <3>3, <3>4
    <2>2. QED
        BY <2>1
<1>4. /\ text \in Seq(Symbol) /\ Len(text) \in Nat /\ Len(block) <= Len(text)
      /\ \A k \in 1 .. at(n) + 2 : text[k] = block[k]
    <2>1. /\ text \in Seq(Symbol) /\ Len(text) = Len(block) + Len(rest) /\ Len(rest) \in Nat
          /\ Len(block) \in Nat /\ \A k \in 1 .. Len(block) : text[k] = block[k]
        BY <1>1, Joined
    <2> HIDE DEF text, block, at
    <2>2. QED
        BY <1>1, <2>1, LenProperties
<1> HIDE DEF text, block, at, n
<1>5. p \in Nat /\ p <= at(n) /\ at(n) \in Nat
    BY <1>1, <1>2 DEF at, n
<1>6. OccursAt(text, CRLF, p) <=> text[p + 1] = CR /\ text[p + 2] = LF
    <2>1. p + 2 <= Len(text)
        BY <1>1, <1>4, <1>5
    <2>2. QED
        BY <1>4, <1>5, <2>1, CRLFOccurs
<1>7. text[p + 1] = block[p + 1] /\ text[p + 2] = block[p + 2]
    <2>1. p + 1 \in 1 .. at(n) + 2 /\ p + 2 \in 1 .. at(n) + 2
        BY <1>5
    <2>2. QED
        BY <1>4, <2>1
<1>8. ASSUME p = at(n)
      PROVE  OccursAt(text, CRLF, p)
    BY <1>1, <1>6, <1>7, <1>8
<1>9. ASSUME NEW i \in 1 .. n, p = at(i) - 2
      PROVE  OccursAt(text, CRLF, p)
    <2>1. block[at(i) - 1] = CR /\ block[at(i)] = LF
        BY <1>1 DEF LineStands, at, block
    <2>2. at(i) \in Nat
        BY <1>1, <1>2
    <2>3. p + 1 = at(i) - 1 /\ p + 2 = at(i)
        BY <1>9, <2>2
    <2>4. QED
        BY <1>6, <1>7, <2>1, <2>3
<1>10. ASSUME OccursAt(text, CRLF, p), p # at(n)
       PROVE  \E i \in 1 .. n : p = at(i) - 2
    <2>1. p < at(n)
        BY <1>5, <1>10
    <2>2. PICK i \in 1 .. n : at(i - 1) <= p /\ p < at(i)
        BY <1>5, <2>1, LineCovers DEF at, n
    <2> DEFINE l == Len(lines[i])
               b == at(i - 1)
               k == p + 1 - b
    <2>3. /\ l \in Nat \ {0} /\ b \in Nat /\ at(i) = b + l + 2
          /\ \A q \in 1 .. l : block[b + q] # CR
          /\ block[at(i)] = LF
        <3>1. LineStands(lines, i)
            BY <1>1
        <3>2. /\ l \in Nat \ {0} /\ b \in Nat /\ at(i) = b + l + 2
              /\ block[at(i)] = LF
              /\ \A q \in 1 .. l : block[b + q] = lines[i][q] /\ lines[i][q] # CR
            BY <3>1 DEF LineStands, at, block
        <3> HIDE DEF l, b
        <3>3. QED
            BY <3>2
    <2>4. b <= p
        BY <2>2
    <2> HIDE DEF l, b
    <2>5. k \in 1 .. l + 2 /\ b + k = p + 1
        BY <1>5, <2>2, <2>3, <2>4
    <2>6. block[p + 1] = CR
        BY <1>6, <1>7, <1>10
    <2>7. k \notin 1 .. l
        <3> HIDE DEF k
        <3>1. QED
            BY <2>3, <2>5, <2>6
    <2>8. p + 1 # at(i)
        <3>1. CR # LF
            BY DEF CR, LF, Sym
        <3>2. QED
            BY <2>3, <2>6, <3>1
    <2>9. k # l + 2
        <3> HIDE DEF k
        <3>1. QED
            BY <1>5, <2>3, <2>5, <2>8
    <2>10. k = l + 1
        <3> HIDE DEF k
        <3>1. QED
            BY <2>3, <2>5, <2>7, <2>9
    <2>11. p = at(i) - 2
        BY <1>5, <2>3, <2>5, <2>10
    <2>12. QED
        BY <2>11
<1>11. QED
    BY <1>8, <1>9, <1>10 DEF text, block, at, n

\* What stands in a view stands in the text it begins.
LEMMA BeginsOccurs ==
    ASSUME NEW view_, NEW text, Begins(view_, text), NEW p \in Nat
    PROVE  /\ OccursAt(view_, CRLF, p) <=> p + 2 <= Len(view_) /\ OccursAt(text, CRLF, p)
           /\ OccursAt(view_, CRLF \o CRLF, p) <=>
                p + 4 <= Len(view_) /\ OccursAt(text, CRLF \o CRLF, p)
<1>1. /\ view_ \in Seq(Symbol) /\ text \in Seq(Symbol)
      /\ Len(view_) \in Nat /\ Len(text) \in Nat /\ Len(view_) <= Len(text)
      /\ \A i \in 1 .. Len(view_) : view_[i] = text[i]
    BY LenProperties DEF Begins
<1>2. ASSUME NEW q \in Nat
      PROVE  OccursAt(view_, CRLF, q) <=> q + 2 <= Len(view_) /\ OccursAt(text, CRLF, q)
    <2>1. OccursAt(view_, CRLF, q) <=>
            q + 2 <= Len(view_) /\ view_[q + 1] = CR /\ view_[q + 2] = LF
        BY <1>1, CRLFOccurs
    <2>2. OccursAt(text, CRLF, q) <=>
            q + 2 <= Len(text) /\ text[q + 1] = CR /\ text[q + 2] = LF
        BY <1>1, CRLFOccurs
    <2>3. q + 2 <= Len(view_) =>
            q + 2 <= Len(text) /\ view_[q + 1] = text[q + 1] /\ view_[q + 2] = text[q + 2]
        <3>1. q + 2 <= Len(view_) => q + 1 \in 1 .. Len(view_) /\ q + 2 \in 1 .. Len(view_)
            BY <1>1
        <3>2. q + 2 <= Len(view_) => q + 2 <= Len(text)
            BY <1>1
        <3>3. QED
            BY <1>1, <3>1, <3>2
    <2>4. QED
        BY <2>1, <2>2, <2>3
<1>3. OccursAt(view_, CRLF \o CRLF, p) <=>
            OccursAt(view_, CRLF, p) /\ OccursAt(view_, CRLF, p + 2)
    BY <1>1, BlankOccurs
<1>4. OccursAt(text, CRLF \o CRLF, p) <=>
            OccursAt(text, CRLF, p) /\ OccursAt(text, CRLF, p + 2)
    BY <1>1, BlankOccurs
<1> DEFINE q == p + 2
<1>5. q \in Nat /\ q + 2 = p + 4 /\ (q + 2 <= Len(view_) => p + 2 <= Len(view_))
    BY <1>1
<1> HIDE DEF q
<1>6. OccursAt(view_, CRLF, q) <=> q + 2 <= Len(view_) /\ OccursAt(text, CRLF, q)
    BY <1>2, <1>5
<1>7. OccursAt(view_, CRLF, p) <=> p + 2 <= Len(view_) /\ OccursAt(text, CRLF, p)
    BY <1>2
<1>8. OccursAt(view_, CRLF \o CRLF, p) <=>
            p + 4 <= Len(view_) /\ OccursAt(text, CRLF \o CRLF, p)
    BY <1>3, <1>4, <1>5, <1>6, <1>7 DEF q
<1>9. QED
    BY <1>7, <1>8

\* The first part of a text, once the view has it.
LEMMA BeginsPrefix ==
    ASSUME NEW view_, NEW a \in Seq(Symbol), NEW b \in Seq(Symbol), Begins(view_, a \o b),
           Len(a) <= Len(view_)
    PROVE  Prefix(view_, Len(a)) = a
<1> DEFINE n == Len(a)
           text == a \o b
           first == SubSeq(view_, 1, n)
<1>1. n \in Nat /\ text \in Seq(Symbol) /\ \A i \in 1 .. n : text[i] = a[i]
    BY Joined
<1>2. /\ view_ \in Seq(Symbol) /\ Len(view_) \in Nat /\ n <= Len(view_)
      /\ \A i \in 1 .. Len(view_) : view_[i] = text[i]
    BY LenProperties DEF Begins
<1> HIDE DEF n, text
<1>3. \A i \in 1 .. n : view_[i] \in Symbol
    BY <1>1, <1>2, ElementOfSeq
<1>4. /\ first \in Seq(Symbol) /\ Len(first) = n
      /\ \A i \in 1 .. n : first[i] = view_[i]
    <2>1. /\ first \in Seq(Symbol)
          /\ Len(first) = IF 1 <= n THEN n - 1 + 1 ELSE 0
          /\ \A i \in 1 .. n - 1 + 1 : first[i] = view_[1 + i - 1]
        BY <1>1, <1>3, SubSeqProperties
    <2> HIDE DEF first
    <2>2. \A i \in 1 .. n : i \in 1 .. n - 1 + 1 /\ 1 + i - 1 = i
        BY <1>1
    <2>3. QED
        BY <1>1, <2>1, <2>2
<1> HIDE DEF first
<1>5. \A i \in 1 .. Len(first) : first[i] = a[i]
    <2>1. \A i \in 1 .. n : i \in 1 .. Len(view_)
        BY <1>1, <1>2
    <2>2. QED
        BY <1>1, <1>2, <1>4, <2>1
<1>6. first = a
    BY <1>1, <1>4, <1>5, SeqEqual DEF n
<1>7. QED
    BY <1>6 DEF Prefix, first, n

\* A block ends with the first empty line.
LEMMA BlockBlank ==
    ASSUME NEW lines \in Seq(TextLine), lines # << >>, NEW rest \in Seq(Symbol),
           NEW p \in 0 .. Starts(lines, Len(lines)) - 2
    PROVE  OccursAt(LinesRest(lines, 0) \o rest, CRLF \o CRLF, p) <=>
                p = Starts(lines, Len(lines)) - 2
<1> DEFINE n == Len(lines)
           at(i) == Starts(lines, i)
           block == LinesRest(lines, 0)
           text == block \o rest
<1>1. /\ n \in Nat \ {0} /\ block \in Seq(Symbol) /\ at(n) + 2 = Len(block)
      /\ \A i \in 1 .. n : LineStands(lines, i)
    BY BlockLayout, EmptySeq
<1>2. \A i \in 0 .. n : at(i) \in Nat
    BY StartsGrow
<1>3. p \in Nat /\ p \in 0 .. at(n) /\ p # at(n) /\ p + 2 \in 0 .. at(n) /\ at(n) \in Nat
    <2>1. at(n) \in Nat
        BY <1>1, <1>2
    <2> HIDE DEF at
    <2>2. p \in 0 .. at(n) - 2
        BY DEF at
    <2>3. QED
        BY <2>1, <2>2
<1>4. OccursAt(text, CRLF, p) <=> \E i \in 1 .. n : p = at(i) - 2
    <2>1. OccursAt(text, CRLF, p) <=> p = at(n) \/ \E i \in 1 .. n : p = at(i) - 2
        BY <1>3, BlockLineEnds
    <2>2. QED
        BY <1>3, <2>1
<1>5. text \in Seq(Symbol)
    BY <1>1, TextConcat
<1>6. OccursAt(text, CRLF \o CRLF, p) <=>
            OccursAt(text, CRLF, p) /\ OccursAt(text, CRLF, p + 2)
    BY <1>3, <1>5, BlankOccurs
<1>7. ASSUME p = at(n) - 2
      PROVE  OccursAt(text, CRLF, p) /\ OccursAt(text, CRLF, p + 2)
    <2>1. n \in 1 .. n
        BY <1>1
    <2>2. OccursAt(text, CRLF, p)
        BY <1>4, <1>7, <2>1
    <2>3. OccursAt(text, CRLF, at(n))
        <3>1. at(n) \in 0 .. at(n)
            BY <1>3
        <3>2. QED
            BY <3>1, BlockLineEnds
    <2>4. p + 2 = at(n)
        BY <1>3, <1>7
    <2>5. QED
        BY <2>2, <2>3, <2>4
<1>8. ASSUME OccursAt(text, CRLF, p), OccursAt(text, CRLF, p + 2)
      PROVE  p = at(n) - 2
    <2>1. PICK i \in 1 .. n : p = at(i) - 2
        BY <1>4, <1>8
    <2>2. CASE i = n
        BY <2>1, <2>2
    <2>3. CASE i # n
        <3> DEFINE j == i + 1
        <3>1. j \in 1 .. n /\ j - 1 = i
            BY <1>1, <2>3
        <3> HIDE DEF j
        <3>2. LineStands(lines, j)
            BY <1>1, <3>1
        <3> DEFINE l == Len(lines[j])
        <3>3. l \in Nat \ {0} /\ \A k \in 1 .. l : block[at(i) + k] # CR
            <4>1. /\ l \in Nat \ {0}
                  /\ \A k \in 1 .. l : block[at(i) + k] = lines[j][k] /\ lines[j][k] # CR
                BY <3>1, <3>2 DEF LineStands
            <4> HIDE DEF block, at, l
            <4>2. QED
                BY <4>1
        <3> HIDE DEF l
        <3>4. 1 \in 1 .. l
            BY <3>3
        <3>5. block[at(i) + 1] # CR
            BY <3>3, <3>4
        <3>6. text[at(i) + 1] = CR
            <4> DEFINE q == p + 2
            <4>1. q \in Nat
                BY <1>3
            <4> HIDE DEF q
            <4>2. OccursAt(text, CRLF, q)
                BY <1>8 DEF q
            <4>3. text[q + 1] = CR
                BY <1>5, <4>1, <4>2, CRLFOccurs
            <4>4. at(i) \in Nat
                BY <1>1, <1>2
            <4> HIDE DEF at, text
            <4>5. q = at(i)
                BY <2>1, <4>4 DEF q
            <4>6. QED
                BY <4>3, <4>5
        <3>7. text[at(i) + 1] = block[at(i) + 1]
            <4>1. /\ \A k \in 1 .. Len(block) : text[k] = block[k]
                BY <1>1, Joined
            <4>2. at(i) \in Nat /\ at(i) = p + 2
                <5>1. at(i) \in Nat
                    BY <1>1, <1>2
                <5> HIDE DEF at
                <5>2. QED
                    BY <1>3, <2>1, <5>1
            <4> HIDE DEF at, text, block
            <4>3. at(i) + 1 \in 1 .. Len(block)
                BY <1>1, <1>3, <4>2
            <4>4. QED
                BY <4>1, <4>3
        <3>8. QED
            BY <3>5, <3>6, <3>7
    <2>4. QED
        BY <2>2, <2>3
<1>9. QED
    BY <1>6, <1>7, <1>8

\* The parser finds the end of a header block as soon as the block is there.
LEMMA BlockFound ==
    ASSUME NEW view_, NEW lines \in Seq(TextLine), lines # << >>, NEW rest \in Seq(Symbol),
           Begins(view_, LinesRest(lines, 0) \o rest)
    PROVE  LET block == LinesRest(lines, 0)
               end == Find(view_, CRLF \o CRLF)
           IN  /\ block \in Seq(Symbol) /\ Len(block) \in Nat /\ Len(view_) \in Nat
               /\ Len(view_) < Len(block) => end = NotFound
               /\ Len(view_) >= Len(block) =>
                    end \in Nat /\ end + 4 = Len(block) /\ Prefix(view_, end + 4) = block
<1> DEFINE n == Len(lines)
           top == Starts(lines, n)
           block == LinesRest(lines, 0)
           text == block \o rest
           blank == CRLF \o CRLF
           size == Len(block)
           end == Find(view_, blank)
<1>1. n \in Nat \ {0} /\ block \in Seq(Symbol) /\ top + 2 = size /\ size \in Nat
    BY BlockLayout, EmptySeq, LenProperties
<1>2. top \in Nat /\ top - 2 \in Nat
    <2>1. 0 \in 0 .. n /\ n \in 0 .. n /\ 0 < n
        BY <1>1
    <2>2. Starts(lines, 0) + 3 <= top /\ Starts(lines, 0) \in Nat /\ top \in Nat
        BY <2>1, StartsGrow
    <2>3. QED
        BY <2>2
<1>3. view_ \in Seq(Symbol) /\ Len(view_) \in Nat
    BY LenProperties DEF Begins
<1>4. ASSUME NEW p \in 0 .. top - 2
      PROVE  OccursAt(text, blank, p) <=> p = top - 2
    BY BlockBlank
<1>5. ASSUME NEW p \in Nat
      PROVE  OccursAt(view_, blank, p) <=> p + 4 <= Len(view_) /\ OccursAt(text, blank, p)
    BY BeginsOccurs
<1> HIDE DEF blank, text, top
<1>6. ASSUME Len(view_) < size
      PROVE  end = NotFound
    <2>1. ASSUME NEW p \in 0 .. Len(view_)
          PROVE  ~OccursAt(view_, blank, p)
        <3>1. CASE p + 4 <= Len(view_)
            <4>1. p \in 0 .. top - 2 /\ p # top - 2 /\ p \in Nat
                BY <1>1, <1>2, <1>3, <1>6, <3>1
            <4>2. QED
                BY <1>4, <1>5, <4>1
        <3>2. CASE ~(p + 4 <= Len(view_))
            BY <1>5, <3>2
        <3>3. QED
            BY <3>1, <3>2
    <2>2. QED
        BY <1>3, <2>1, FindIs
<1>7. ASSUME Len(view_) >= size
      PROVE  end \in Nat /\ end + 4 = size /\ Prefix(view_, end + 4) = block
    <2> DEFINE p == top - 2
    <2>1. p \in Nat /\ p \in 0 .. top - 2 /\ p + 4 = size /\ p \in 0 .. Len(view_)
          /\ p + 4 <= Len(view_)
        BY <1>1, <1>2, <1>3, <1>7
    <2>2. \A q \in 0 .. p - 1 : q \in Nat /\ q \in 0 .. top - 2 /\ q # p
        BY <1>2
    <2>3. OccursAt(view_, blank, p)
        BY <1>4, <1>5, <2>1
    <2>4. \A q \in 0 .. p - 1 : ~OccursAt(view_, blank, q)
        <3>1. ASSUME NEW q \in 0 .. p - 1
              PROVE  ~OccursAt(view_, blank, q)
            <4>1. q \in Nat /\ q \in 0 .. top - 2 /\ q # top - 2
                BY <2>2
            <4>2. QED
                BY <1>4, <1>5, <4>1
        <3>2. QED
            BY <3>1
    <2> HIDE DEF p
    <2>5. end = p
        BY <1>3, <2>1, <2>3, <2>4, FindIs
    <2>6. Len(block) <= Len(view_)
        BY <1>1, <1>3, <1>7
    <2>7. Prefix(view_, size) = block
        BY <1>1, <2>6, BeginsPrefix
    <2>8. QED
        BY <2>1, <2>5, <2>7
<1>8. QED
    BY <1>1, <1>3, <1>6, <1>7 DEF blank

\* The parser takes the lines of a block for what they are.
LEMMA BlockStarts ==
    ASSUME NEW lines \in Seq(TextLine), lines # << >>
    PROVE  LineStarts(LinesRest(lines, 0)) = {Starts(lines, i - 1) : i \in 1 .. Len(lines)}
<1> DEFINE n == Len(lines)
           at(i) == Starts(lines, i)
           block == LinesRest(lines, 0)
           size == Len(block)
           inner == {pos \in 2 .. size - 3 : OccursAt(block, CRLF, pos - 2)}
           all == {at(i - 1) : i \in 1 .. n}
<1>1. /\ n \in Nat \ {0} /\ block \in Seq(Symbol) /\ at(0) = 0 /\ at(n) + 2 = size
    BY BlockLayout, EmptySeq
<1>2. /\ \A i \in 0 .. n : at(i) \in Nat
      /\ \A i \in 0 .. n, j \in 0 .. n : i < j => at(i) + 3 <= at(j)
    BY StartsGrow
<1>3. ASSUME NEW p \in 0 .. at(n)
      PROVE  OccursAt(block, CRLF, p) <=> p = at(n) \/ \E i \in 1 .. n : p = at(i) - 2
    <2>1. block \o << >> = block /\ << >> \in Seq(Symbol)
        BY <1>1, TextConcat
    <2>2. OccursAt(block \o << >>, CRLF, p) <=> p = at(n) \/ \E i \in 1 .. n : p = at(i) - 2
        BY <2>1, BlockLineEnds
    <2>3. QED
        BY <2>1, <2>2
<1>4. n \in 0 .. n /\ 0 \in 0 .. n /\ at(n) \in Nat
    BY <1>1, <1>2
<1>5. LineStarts(block) = {0} \cup inner
    BY DEF LineStarts
<1> HIDE DEF at, n, block, size
<1>6. ASSUME NEW pos \in inner
      PROVE  pos \in all
    <2> DEFINE p == pos - 2
    <2>1. pos \in 2 .. size - 3 /\ OccursAt(block, CRLF, p)
        OBVIOUS
    <2>2. p \in 0 .. at(n) /\ p # at(n) /\ pos < at(n) /\ pos \in Nat /\ p + 2 = pos
        BY <1>1, <1>4, <2>1
    <2> HIDE DEF p
    <2>3. PICK i \in 1 .. n : p = at(i) - 2
        BY <1>3, <2>1, <2>2
    <2>4. i \in 0 .. n /\ at(i) \in Nat
        BY <1>1, <1>2
    <2>5. pos = at(i) /\ i # n
        BY <2>2, <2>3, <2>4
    <2> DEFINE j == i + 1
    <2>6. j \in 1 .. n /\ j - 1 = i
        BY <1>1, <2>5
    <2> HIDE DEF j
    <2>7. pos = at(j - 1)
        BY <2>5, <2>6
    <2>8. QED
        BY <2>6, <2>7
<1>7. ASSUME NEW i \in 1 .. n
      PROVE  at(i - 1) \in {0} \cup inner
    <2>1. CASE i = 1
        <3>1. at(i - 1) = 0
            BY <1>1, <2>1
        <3>2. QED
            BY <3>1
    <2>2. CASE i # 1
        <3> DEFINE j == i - 1
        <3>1. j \in 1 .. n /\ j \in 0 .. n /\ 0 < j /\ j < n
            BY <1>1, <2>2
        <3> HIDE DEF j
        <3>2. at(j) \in Nat /\ 3 <= at(j) /\ at(j) + 3 <= at(n)
            BY <1>1, <1>2, <1>4, <3>1
        <3> DEFINE p == at(j) - 2
        <3>3. p \in 0 .. at(n) /\ at(j) \in 2 .. size - 3
            BY <1>1, <1>4, <3>2
        <3>4. OccursAt(block, CRLF, p)
            <4> HIDE DEF p
            <4>1. \E k \in 1 .. n : p = at(k) - 2
                BY <3>1 DEF p
            <4>2. QED
                BY <1>3, <3>3, <4>1
        <3>5. at(j) \in inner
            BY <3>3, <3>4
        <3>6. QED
            BY <3>5 DEF j
    <2>3. QED
        BY <2>1, <2>2
<1>8. 0 \in all
    <2>1. 1 \in 1 .. n /\ at(1 - 1) = 0
        BY <1>1
    <2>2. QED
        BY <2>1
<1>9. {0} \cup inner = all
    BY <1>6, <1>7, <1>8
<1>10. QED
    BY <1>5, <1>9 DEF all, at, n, block

\* The headers of a kind, by the number of their line.
Named(lines, kind) == {i \in DOMAIN lines : Head(lines[i]).kind = kind}

\* Where the parser sees the headers of a kind.
LEMMA BlockHeaders ==
    ASSUME NEW lines \in Seq(TextLine), lines # << >>, NEW kind
    PROVE  /\ HeaderPositions(LinesRest(lines, 0), kind) =
                    {Starts(lines, i - 1) : i \in Named(lines, kind)}
           /\ \A i \in 1 .. Len(lines) :
                LinesRest(lines, 0)[Starts(lines, i - 1) + 1] = Head(lines[i])
<1> DEFINE n == Len(lines)
           at(i) == Starts(lines, i)
           block == LinesRest(lines, 0)
<1>1. n \in Nat /\ DOMAIN lines = 1 .. n
    BY LenProperties
<1>2. ASSUME NEW i \in 1 .. n
      PROVE  block[at(i - 1) + 1] = Head(lines[i])
    <2>1. LineStands(lines, i)
        BY BlockLayout
    <2> DEFINE l == Len(lines[i])
    <2>2. l \in Nat \ {0} /\ \A k \in 1 .. l : block[at(i - 1) + k] = lines[i][k]
        BY <2>1 DEF LineStands
    <2> HIDE DEF l, block, at
    <2>3. 1 \in 1 .. l
        BY <2>2
    <2>4. block[at(i - 1) + 1] = lines[i][1]
        BY <2>2, <2>3
    <2>5. QED
        BY <2>4
<1>3. LineStarts(block) = {at(i - 1) : i \in 1 .. n}
    BY BlockStarts
<1>4. HeaderPositions(block, kind) = {pos \in LineStarts(block) : block[pos + 1].kind = kind}
    BY DEF HeaderPositions
<1> HIDE DEF at, n, block
<1>5. HeaderPositions(block, kind) = {at(i - 1) : i \in Named(lines, kind)}
    <2>1. ASSUME NEW pos \in HeaderPositions(block, kind)
          PROVE  pos \in {at(i - 1) : i \in Named(lines, kind)}
        <3>1. PICK i \in 1 .. n : pos = at(i - 1)
            BY <1>3, <1>4
        <3>2. Head(lines[i]).kind = kind
            BY <1>2, <1>4, <3>1
        <3>3. i \in Named(lines, kind)
            BY <1>1, <3>2 DEF Named
        <3>4. QED
            BY <3>1, <3>3
    <2>2. ASSUME NEW i \in Named(lines, kind)
          PROVE  at(i - 1) \in HeaderPositions(block, kind)
        <3>1. i \in 1 .. n /\ Head(lines[i]).kind = kind
            BY <1>1 DEF Named
        <3>2. QED
            BY <1>2, <1>3, <1>4, <3>1
    <2>3. QED
        BY <2>1, <2>2
<1>6. QED
    BY <1>2, <1>5 DEF at, n, block

\* The value that counts for the parser is that of the last header of a kind.
LEMMA BlockValue ==
    ASSUME NEW lines \in Seq(TextLine), lines # << >>, NEW kind
    PROVE  /\ HeaderPositions(LinesRest(lines, 0), kind) # {} <=> Named(lines, kind) # {}
           /\ Named(lines, kind) # {} =>
                HeaderValue(LinesRest(lines, 0), kind) =
                    lines[Max(Named(lines, kind))][1].val
<1> DEFINE n == Len(lines)
           at(i) == Starts(lines, i)
           block == LinesRest(lines, 0)
           named == Named(lines, kind)
           places == HeaderPositions(block, kind)
           last == Max(named)
<1>1. n \in Nat /\ DOMAIN lines = 1 .. n
    BY LenProperties
<1>2. named \subseteq 1 .. n
    BY <1>1 DEF Named
<1>3. places = {at(i - 1) : i \in named}
    BY BlockHeaders
<1>4. \A i \in 1 .. n : block[at(i - 1) + 1] = Head(lines[i])
    BY BlockHeaders
<1>5. /\ \A i \in 0 .. n : at(i) \in Nat
      /\ \A i \in 0 .. n, j \in 0 .. n : i < j => at(i) + 3 <= at(j)
    BY StartsGrow
<1>6. ASSUME named # {}
      PROVE  HeaderValue(block, kind) = lines[last][1].val
    <2>1. last \in named /\ \A i \in named : i <= last
        <3>1. named \in SUBSET (0 .. n)
            BY <1>1, <1>2
        <3> HIDE DEF named
        <3>2. QED
            BY <1>1, <1>6, <3>1, GreatestPosition
    <2> HIDE DEF last, named, at, block, n, places
    <2>2. last \in 1 .. n
        BY <1>2, <2>1
    <2> DEFINE top == at(last - 1)
    <2>3. top \in places
        BY <1>3, <2>1
    <2>4. ASSUME NEW i \in named
          PROVE  at(i - 1) <= top /\ at(i - 1) \in Nat /\ top \in Nat
        <3>1. i \in 1 .. n /\ i <= last
            BY <1>2, <2>1
        <3> DEFINE a == i - 1
                   b == last - 1
        <3>2. a \in 0 .. n /\ b \in 0 .. n /\ (a = b \/ a < b)
            BY <1>1, <2>2, <3>1
        <3> HIDE DEF a, b
        <3>3. at(a) \in Nat /\ at(b) \in Nat /\ (a < b => at(a) + 3 <= at(b))
            BY <1>5, <3>2
        <3>4. at(a) <= at(b)
            BY <3>2, <3>3
        <3>5. QED
            BY <3>3, <3>4 DEF a, b
    <2>5. top \in Nat /\ \A pos \in places : pos \in Nat /\ pos <= top
        BY <1>3, <2>1, <2>4
    <2>6. Max(places) = top
        <3> HIDE DEF top
        <3>1. places \in SUBSET (0 .. top) /\ top \in Nat /\ places # {}
            BY <2>3, <2>5
        <3>2. QED
            BY <2>3, <2>5, <3>1, GreatestPosition
    <2>7. block[top + 1] = lines[last][1]
        <3>1. block[top + 1] = Head(lines[last])
            BY <1>4, <2>2
        <3>2. QED
            BY <3>1
    <2>8. HeaderValue(block, kind) = block[top + 1].val
        <3> HIDE DEF top
        <3>1. QED
            BY <2>6 DEF HeaderValue, places
    <2>9. QED
        BY <2>7, <2>8
<1>7. places # {} <=> named # {}
    BY <1>3
<1>8. QED
    BY <1>6, <1>7

-----------------------------------------------------------------------------
(* A message, from each of its parts on.                                   *)

\* One chunk of Messages.
ChunkForm == [line : Text, data : Seq(Symbol), tail : Seq(Symbol)]

\* What a well-formed message is made of.
LEMMA MessageForm ==
    ASSUME NEW m \in WellFormed
    PROVE  /\ m.lead \in Nat /\ m.line \in TextLine /\ m.headers \in Seq(TextLine)
           /\ m.body \in Seq(Symbol) /\ m.chunks \in Seq(ChunkForm)
           /\ m.trailers \in Seq(TextLine) /\ Framed(m)
           /\ Len(m.chunks) \in Nat /\ DOMAIN m.chunks = 1 .. Len(m.chunks)
           /\ \A i \in 1 .. Len(m.chunks) : m.chunks[i] \in ChunkForm
<1>1. m \in Messages /\ Framed(m)
    BY DEF WellFormed
<1>2. /\ m.lead \in Nat /\ m.line \in TextLine /\ m.headers \in Seq(TextLine)
      /\ m.body \in Seq(Symbol) /\ m.chunks \in Seq(ChunkForm)
      /\ m.trailers \in Seq(TextLine)
    BY <1>1 DEF Messages, ChunkForm
<1>3. /\ Len(m.chunks) \in Nat /\ DOMAIN m.chunks = 1 .. Len(m.chunks)
      /\ \A i \in 1 .. Len(m.chunks) : m.chunks[i] \in ChunkForm
    <2> DEFINE chunks == m.chunks
    <2>1. chunks \in Seq(ChunkForm)
        BY <1>2
    <2> HIDE DEF chunks
    <2>2. /\ Len(chunks) \in Nat /\ DOMAIN chunks = 1 .. Len(chunks)
          /\ \A i \in 1 .. Len(chunks) : chunks[i] \in ChunkForm
        BY <2>1, LenProperties, ElementOfSeq
    <2>3. QED
        BY <2>2 DEF chunks
<1>4. QED
    BY <1>1, <1>2, <1>3

\* A sequence of texts, given as a function.
LEMMA PartsForm ==
    ASSUME NEW n \in Nat, NEW parts \in [1 .. n -> Seq(Symbol)]
    PROVE  parts \in Seq(Seq(Symbol)) /\ Len(parts) = n
<1> DEFINE T == Seq(Symbol)
<1>1. parts \in [1 .. n -> T]
    OBVIOUS
<1> HIDE DEF T
<1>2. parts \in Seq(T) /\ Len(parts) = n
    BY <1>1
<1>3. QED
    BY <1>2 DEF T

\* The chunks, from each of them on, and what follows the last.
LEMMA ChunkStep ==
    ASSUME NEW m \in WellFormed, NEW i \in 0 .. Len(m.chunks)
    PROVE  /\ ChunkRest(m, i) \in Seq(Symbol) /\ AfterChunks(m) \in Seq(Symbol)
           /\ i = Len(m.chunks) => ChunkRest(m, i) = AfterChunks(m)
           /\ i # Len(m.chunks) =>
                LET chunk == m.chunks[i + 1]
                IN  /\ i + 1 \in 1 .. Len(m.chunks) /\ chunk \in ChunkForm
                    /\ chunk.data \o chunk.tail \in Seq(Symbol)
                    /\ ChunkRest(m, i + 1) \in Seq(Symbol)
                    /\ ChunkRest(m, i) = (chunk.line \o CRLF)
                            \o ((chunk.data \o chunk.tail) \o ChunkRest(m, i + 1))
<1> DEFINE n == Len(m.chunks)
           c(k) == m.chunks[k]
           part(k) == c(k).line \o CRLF \o c(k).data \o c(k).tail
           parts == ChunkParts(m)
           R(k) == Flat(parts, k)
<1>1. n \in Nat /\ i \in 0 .. n /\ \A k \in 1 .. n : c(k) \in ChunkForm
    BY MessageForm
<1>2. \A k \in 1 .. n : /\ c(k).line \in Text /\ c(k).line \in Seq(Symbol)
                        /\ c(k).data \in Seq(Symbol) /\ c(k).tail \in Seq(Symbol)
    BY <1>1, TextIsSymbols DEF ChunkForm
<1>3. ASSUME NEW k \in 1 .. n
      PROVE  /\ part(k) \in Seq(Symbol) /\ c(k).line \o CRLF \in Seq(Symbol)
             /\ c(k).data \o c(k).tail \in Seq(Symbol)
             /\ part(k) = (c(k).line \o CRLF) \o (c(k).data \o c(k).tail)
    <2> DEFINE x == c(k).line
               y == c(k).data
               z == c(k).tail
    <2>1. x \in Seq(Symbol) /\ y \in Seq(Symbol) /\ z \in Seq(Symbol)
        BY <1>2
    <2> HIDE DEF x, y, z
    <2>2. x \o CRLF \in Seq(Symbol) /\ y \o z \in Seq(Symbol)
        BY <2>1, CRLFLength, TextConcat
    <2> DEFINE w == x \o CRLF
    <2>5. w \in Seq(Symbol)
        BY <2>2
    <2> HIDE DEF w
    <2>3. (w \o y) \o z = w \o (y \o z) /\ w \o (y \o z) \in Seq(Symbol)
        <3>1. (w \o y) \o z = w \o (y \o z)
            BY <2>1, <2>5, TextConcat
        <3> DEFINE v == y \o z
        <3>2. v \in Seq(Symbol)
            BY <2>2
        <3> HIDE DEF v
        <3>3. w \o v \in Seq(Symbol)
            BY <2>5, <3>2, TextConcat
        <3>4. QED
            BY <3>1, <3>3 DEF v
    <2>4. QED
        BY <2>2, <2>3 DEF w, x, y, z
<1>4. parts = [k \in 1 .. n |-> part(k)]
    BY MessageForm DEF ChunkParts
<1> HIDE DEF parts, part
<1>5. parts \in Seq(Seq(Symbol)) /\ Len(parts) = n /\ \A k \in 1 .. n : parts[k] = part(k)
    <2>1. parts \in [1 .. n -> Seq(Symbol)] /\ \A k \in 1 .. n : parts[k] = part(k)
        BY <1>3, <1>4
    <2>2. QED
        BY <1>1, <2>1, PartsForm
<1>6. ASSUME NEW k \in 0 .. n
      PROVE  /\ R(k) \in Seq(Symbol) /\ (k = n => R(k) = << >>)
             /\ k # n => k + 1 \in 0 .. n /\ parts[k + 1] \in Seq(Symbol)
                         /\ R(k) = parts[k + 1] \o R(k + 1)
    <2>1. k \in 0 .. Len(parts)
        BY <1>5
    <2>2. /\ Flat(parts, k) \in Seq(Symbol)
          /\ k = Len(parts) => Flat(parts, k) = << >>
          /\ k # Len(parts) =>
                /\ k + 1 \in 0 .. Len(parts) /\ parts[k + 1] \in Seq(Symbol)
                /\ Flat(parts, k) = parts[k + 1] \o Flat(parts, k + 1)
        BY <1>5, <2>1, FlatStep
    <2>3. QED
        BY <1>5, <2>2
<1> HIDE DEF R
<1>7. AfterChunks(m) \in Seq(Symbol)
    <2>1. 0 \in 0 .. Len(m.trailers) /\ m.trailers \in Seq(TextLine)
        BY MessageForm, LenProperties
    <2>2. LinesRest(m.trailers, 0) \in Seq(Symbol)
        BY <2>1, LinesStep
    <2>3. QED
        BY <2>2, TextConcat DEF AfterChunks
<1> DEFINE after == AfterChunks(m)
<1>8. \A k : ChunkRest(m, k) = R(k) \o after
    BY DEF ChunkRest, R, parts
<1> HIDE DEF after
<1>9. ASSUME NEW k \in 0 .. n
      PROVE  ChunkRest(m, k) \in Seq(Symbol)
    <2>1. R(k) \in Seq(Symbol) /\ after \in Seq(Symbol)
        BY <1>6, <1>7 DEF after
    <2>2. R(k) \o after \in Seq(Symbol)
        BY <2>1, TextConcat
    <2>3. QED
        BY <1>8, <2>2
<1>10. ASSUME i = n
       PROVE  ChunkRest(m, i) = after
    <2>1. R(i) = << >>
        BY <1>1, <1>6, <1>10
    <2>2. << >> \o after = after
        BY <1>7, TextConcat DEF after
    <2>3. QED
        BY <1>8, <2>1, <2>2
<1>11. ASSUME i # n
       PROVE  /\ i + 1 \in 1 .. n /\ c(i + 1) \in ChunkForm
              /\ c(i + 1).data \o c(i + 1).tail \in Seq(Symbol)
              /\ ChunkRest(m, i + 1) \in Seq(Symbol)
              /\ ChunkRest(m, i) = (c(i + 1).line \o CRLF)
                        \o ((c(i + 1).data \o c(i + 1).tail) \o ChunkRest(m, i + 1))
    <2> DEFINE k == i + 1
               x == c(k).line \o CRLF
               y == c(k).data \o c(k).tail
    <2>1. k \in 1 .. n /\ k \in 0 .. n
        <3> HIDE DEF n
        <3>1. QED
            BY <1>1, <1>11
    <2>2. R(i) = parts[k] \o R(k) /\ R(k) \in Seq(Symbol)
        BY <1>1, <1>6, <1>11, <2>1
    <2>3. x \in Seq(Symbol) /\ y \in Seq(Symbol) /\ parts[k] = x \o y /\ c(k) \in ChunkForm
        BY <1>1, <1>3, <1>5, <2>1
    <2>4. ChunkRest(m, k) \in Seq(Symbol) /\ ChunkRest(m, k) = R(k) \o after
          /\ ChunkRest(m, i) = R(i) \o after
        BY <1>8, <1>9, <2>1
    <2> DEFINE r == R(k)
    <2>5. r \in Seq(Symbol) /\ after \in Seq(Symbol)
        BY <1>7, <2>2 DEF after
    <2> HIDE DEF x, y, r
    <2>6. ((x \o y) \o r) \o after = x \o (y \o (r \o after))
        <3> DEFINE z == r \o after
        <3>1. x \o y \in Seq(Symbol) /\ z \in Seq(Symbol)
            BY <2>3, <2>5, TextConcat
        <3>2. ((x \o y) \o r) \o after = (x \o y) \o z
            BY <2>5, <3>1, TextConcat
        <3> HIDE DEF z
        <3>3. (x \o y) \o z = x \o (y \o z)
            BY <2>3, <3>1, TextAssociative
        <3>4. QED
            BY <3>2, <3>3 DEF z
    <2>7. ChunkRest(m, i) = x \o (y \o ChunkRest(m, k))
        BY <2>2, <2>3, <2>4, <2>6 DEF r
    <2>8. QED
        BY <2>1, <2>3, <2>4, <2>7 DEF x, y, k
<1>12. QED
    BY <1>1, <1>7, <1>9, <1>10, <1>11 DEF after

\* What follows the head, and the head with it.
LEMMA HeadStep ==
    ASSUME NEW m \in WellFormed
    PROVE  /\ BodyRest(m) \in Seq(Symbol) /\ HeadRest(m) \in Seq(Symbol)
           /\ LineRest(m) \in Seq(Symbol) /\ LinesRest(m.headers, 0) \in Seq(Symbol)
           /\ m.headers = << >> => LinesRest(m.headers, 0) = CRLF
<1>1. m.body \in Seq(Symbol) /\ m.headers \in Seq(TextLine) /\ m.line \in Seq(Symbol)
    BY MessageForm, TextIsSymbols
<1>2. 0 \in 0 .. Len(m.chunks)
    BY MessageForm
<1>3. ChunkRest(m, 0) \in Seq(Symbol)
    BY <1>2, ChunkStep
<1>4. BodyRest(m) \in Seq(Symbol)
    BY <1>1, <1>3, TextConcat DEF BodyRest
<1>5. 0 \in 0 .. Len(m.headers) /\ (m.headers = << >> => 0 = Len(m.headers))
    BY <1>1, LenProperties
<1>6. /\ LinesRest(m.headers, 0) \in Seq(Symbol)
      /\ m.headers = << >> => LinesRest(m.headers, 0) = CRLF
    BY <1>1, <1>5, LinesStep
<1>7. HeadRest(m) \in Seq(Symbol)
    <2> DEFINE a == LinesRest(m.headers, 0)
               b == BodyRest(m)
    <2>1. a \in Seq(Symbol) /\ b \in Seq(Symbol)
        BY <1>4, <1>6
    <2> HIDE DEF a, b
    <2>2. a \o b \in Seq(Symbol)
        BY <2>1, TextConcat
    <2>3. QED
        BY <2>2 DEF HeadRest, a, b
<1>8. m.line \o CRLF \in Seq(Symbol)
    BY <1>1, CRLFLength, TextConcat
<1>9. LineRest(m) \in Seq(Symbol)
    <2> DEFINE a == m.line \o CRLF
               b == HeadRest(m)
    <2>1. a \in Seq(Symbol) /\ b \in Seq(Symbol)
        BY <1>7, <1>8
    <2> HIDE DEF a, b
    <2>2. a \o b \in Seq(Symbol)
        BY <2>1, TextConcat
    <2>3. QED
        BY <2>2 DEF LineRest, a, b
<1>10. QED
    BY <1>4, <1>6, <1>7, <1>9

\* The empty lines before a message.
LEMMA LeadStep ==
    ASSUME NEW m \in WellFormed, NEW k \in 0 .. m.lead
    PROVE  /\ LeadRest(m, k) \in Seq(Symbol)
           /\ k = m.lead => LeadRest(m, k) = LineRest(m)
           /\ k # m.lead =>
                /\ k + 1 \in 0 .. m.lead /\ LeadRest(m, k + 1) \in Seq(Symbol)
                /\ LeadRest(m, k) = (<< >> \o CRLF) \o LeadRest(m, k + 1)
<1> DEFINE n == m.lead
           parts == LeadParts(m)
           R(j) == Flat(parts, j)
           line == LineRest(m)
<1>1. n \in Nat /\ k \in 0 .. n /\ line \in Seq(Symbol)
    BY MessageForm, HeadStep
<1>2. parts \in Seq(Seq(Symbol)) /\ Len(parts) = n /\ \A j \in 1 .. n : parts[j] = CRLF
    <2>1. parts \in [1 .. n -> Seq(Symbol)] /\ \A j \in 1 .. n : parts[j] = CRLF
        BY CRLFLength DEF LeadParts
    <2> HIDE DEF parts
    <2>2. QED
        BY <1>1, <2>1, PartsForm
<1>3. \A j : LeadRest(m, j) = R(j) \o line
    BY DEF LeadRest
<1> HIDE DEF parts, n
<1>4. ASSUME NEW j \in 0 .. n
      PROVE  /\ R(j) \in Seq(Symbol) /\ (j = n => R(j) = << >>)
             /\ j # n => j + 1 \in 0 .. n /\ R(j) = parts[j + 1] \o R(j + 1)
    <2>1. j \in 0 .. Len(parts)
        BY <1>2
    <2>2. /\ Flat(parts, j) \in Seq(Symbol)
          /\ j = Len(parts) => Flat(parts, j) = << >>
          /\ j # Len(parts) =>
                /\ j + 1 \in 0 .. Len(parts) /\ parts[j + 1] \in Seq(Symbol)
                /\ Flat(parts, j) = parts[j + 1] \o Flat(parts, j + 1)
        BY <1>2, <2>1, FlatStep
    <2>3. QED
        BY <1>2, <2>2
<1> HIDE DEF R, line
<1>5. ASSUME NEW j \in 0 .. n
      PROVE  LeadRest(m, j) \in Seq(Symbol)
    <2> DEFINE r == R(j)
    <2>1. r \in Seq(Symbol)
        BY <1>4
    <2> HIDE DEF r
    <2>2. r \o line \in Seq(Symbol)
        BY <1>1, <2>1, TextConcat
    <2>3. QED
        BY <1>3, <2>2 DEF r
<1>6. ASSUME k = n
      PROVE  LeadRest(m, k) = line
    <2>1. R(k) = << >>
        BY <1>1, <1>4, <1>6
    <2>2. << >> \o line = line
        BY <1>1, TextConcat
    <2>3. QED
        BY <1>3, <2>1, <2>2
<1>7. ASSUME k # n
      PROVE  /\ k + 1 \in 0 .. n /\ LeadRest(m, k + 1) \in Seq(Symbol)
             /\ LeadRest(m, k) = (<< >> \o CRLF) \o LeadRest(m, k + 1)
    <2> DEFINE j == k + 1
               r == R(j)
    <2>1. j \in 1 .. n /\ j \in 0 .. n
        BY <1>1, <1>7
    <2>2. R(k) = CRLF \o r
        <3>1. R(k) = parts[j] \o r
            BY <1>1, <1>4, <1>7
        <3>2. parts[j] = CRLF
            BY <1>2, <2>1
        <3>3. QED
            BY <3>1, <3>2
    <2>3. r \in Seq(Symbol)
        BY <1>4, <2>1
    <2>4. LeadRest(m, k) = R(k) \o line /\ LeadRest(m, j) = r \o line
        BY <1>3
    <2>5. LeadRest(m, j) \in Seq(Symbol)
        BY <1>5, <2>1
    <2> HIDE DEF r
    <2>6. (CRLF \o r) \o line = CRLF \o (r \o line)
        BY <1>1, <2>3, CRLFLength, TextConcat
    <2>7. << >> \o CRLF = CRLF
        BY CRLFLength, TextConcat
    <2>8. LeadRest(m, k) = (<< >> \o CRLF) \o LeadRest(m, j)
        BY <2>2, <2>4, <2>6, <2>7
    <2>9. QED
        BY <2>1, <2>5, <2>8
<1>8. QED
    BY <1>1, <1>5, <1>6, <1>7 DEF line, n

\* Seven texts, and two ways to put them behind one another with a line end
\* c after two of them.
AreTexts(a, b, c, d, e, f, g) == {a, b, c, d, e, f, g} \subseteq Seq(Symbol)
Regroups(a, b, c, d, e, f, g) ==
    ((((((a \o b) \o c) \o d) \o c) \o e) \o f) \o g
        = a \o ((b \o c) \o ((d \o c) \o (e \o (f \o g))))

\* Texts behind one another, from the front or from the back.
LEMMA Regroup ==
    ASSUME NEW a, NEW b, NEW c, NEW d, NEW e, NEW f, NEW g, AreTexts(a, b, c, d, e, f, g)
    PROVE  Regroups(a, b, c, d, e, f, g)
<1> DEFINE p1 == a \o b
           p2 == p1 \o c
           p3 == p2 \o d
           p4 == p3 \o c
           p5 == p4 \o e
           t5 == f \o g
           t4 == e \o t5
           dc == d \o c
           bc == b \o c
           t3 == dc \o t4
<1>0. \A x, y \in Seq(Symbol) : x \o y \in Seq(Symbol)
    BY TextConcat
<1>a. a \in Seq(Symbol)
    BY DEF AreTexts
<1>b. b \in Seq(Symbol)
    BY DEF AreTexts
<1>c. c \in Seq(Symbol)
    BY DEF AreTexts
<1>d. d \in Seq(Symbol)
    BY DEF AreTexts
<1>e. e \in Seq(Symbol)
    BY DEF AreTexts
<1>f. f \in Seq(Symbol)
    BY DEF AreTexts
<1>g. g \in Seq(Symbol)
    BY DEF AreTexts
<1> HIDE DEF p1, p2, p3, p4, p5, t3, t4, t5, dc, bc
<1>p1. p1 \in Seq(Symbol)
    BY <1>0, <1>a, <1>b DEF p1
<1>p2. p2 \in Seq(Symbol)
    BY <1>0, <1>p1, <1>c DEF p2
<1>p3. p3 \in Seq(Symbol)
    BY <1>0, <1>p2, <1>d DEF p3
<1>p4. p4 \in Seq(Symbol)
    BY <1>0, <1>p3, <1>c DEF p4
<1>p5. p5 \in Seq(Symbol)
    BY <1>0, <1>p4, <1>e DEF p5
<1>t5. t5 \in Seq(Symbol)
    BY <1>0, <1>f, <1>g DEF t5
<1>t4. t4 \in Seq(Symbol)
    BY <1>0, <1>e, <1>t5 DEF t4
<1>dc. dc \in Seq(Symbol)
    BY <1>0, <1>d, <1>c DEF dc
<1>bc. bc \in Seq(Symbol)
    BY <1>0, <1>b, <1>c DEF bc
<1>t3. t3 \in Seq(Symbol)
    BY <1>0, <1>dc, <1>t4 DEF t3
<1>1. (p5 \o f) \o g = p5 \o (f \o g)
    BY <1>p5, <1>f, <1>g, TextAssociative
<1>2. (p4 \o e) \o t5 = p4 \o (e \o t5)
    BY <1>p4, <1>e, <1>t5, TextAssociative
<1>3. (p2 \o d) \o c = p2 \o (d \o c)
    BY <1>p2, <1>d, <1>c, TextAssociative
<1>4. (p2 \o dc) \o t4 = p2 \o (dc \o t4)
    BY <1>p2, <1>dc, <1>t4, TextAssociative
<1>5. (a \o b) \o c = a \o (b \o c)
    BY <1>a, <1>b, <1>c, TextAssociative
<1>6. (a \o bc) \o t3 = a \o (bc \o t3)
    BY <1>a, <1>bc, <1>t3, TextAssociative
<1>7. p5 \o t5 = p4 \o t4
    BY <1>2 DEF p5, t4
<1>8. p4 \o t4 = p2 \o t3
    BY <1>3, <1>4 DEF p4, p3, dc, t3
<1>9. p2 \o t3 = a \o (bc \o t3)
    BY <1>5, <1>6 DEF p2, p1, bc
<1>10. (p5 \o f) \o g = a \o (bc \o t3)
    BY <1>1, <1>7, <1>8, <1>9 DEF t5
<1>11. QED
    BY <1>10 DEF Regroups, p1, p2, p3, p4, p5, t3, t4, t5, bc, dc

\* A message is what is left of it before anything is read.
LEMMA WireFromStart ==
    ASSUME NEW m \in WellFormed
    PROVE  Wire(m) = LeadRest(m, 0) /\ Wire(m) \in Seq(Symbol)
<1> DEFINE a == FlattenSeq(LeadParts(m))
           b == m.line
           d == Lines(m.headers)
           e == m.body
           f == FlattenSeq(ChunkParts(m))
           g == AfterChunks(m)
           h == IF m.chunks = <<>> THEN <<>> ELSE Lines(m.trailers) \o CRLF
<1>1. \A lines : Lines(lines) = FlattenSeq(LineParts(lines))
    BY DEF Lines, LineParts
<1>2. Wire(m) = ((((((a \o b) \o CRLF) \o d) \o CRLF) \o e) \o f) \o h
    BY DEF Wire, LeadParts, ChunkParts
<1>3. ASSUME NEW lines \in Seq(TextLine)
      PROVE  /\ LinesRest(lines, 0) = Lines(lines) \o CRLF
             /\ Lines(lines) \in Seq(Symbol)
    <2> DEFINE T == Seq(Symbol)
               parts == LineParts(lines)
               n == Len(lines)
    <2>1. n \in Nat /\ DOMAIN lines = 1 .. n /\ \A i \in 1 .. n : lines[i] \in Seq(Symbol)
        BY LenProperties, ElementOfSeq, TextIsSymbols
    <2>2. \A i \in 1 .. n : lines[i] \o CRLF \in Seq(Symbol)
        BY <2>1, CRLFLength, TextConcat
    <2>3. parts \in [1 .. n -> Seq(Symbol)]
        BY <2>1, <2>2 DEF LineParts
    <2> HIDE DEF parts
    <2>4. parts \in Seq(Seq(Symbol)) /\ Len(parts) = n /\ 0 \in 0 .. Len(parts)
        BY <2>1, <2>3, PartsForm
    <2>5. Flat(parts, 0) = FlattenSeq(parts) /\ FlattenSeq(parts) \in Seq(Symbol)
        BY <2>4, FlatStep
    <2>6. QED
        BY <1>1, <2>5 DEF LinesRest, parts
<1>4. h = g
    <2>1. m.trailers \in Seq(TextLine)
        BY MessageForm
    <2>2. QED
        BY <1>3, <2>1 DEF AfterChunks
<1>5. Flat(LeadParts(m), 0) = a /\ a \in Seq(Symbol)
    <2> DEFINE parts == LeadParts(m)
    <2>1. m.lead \in Nat
        BY MessageForm
    <2>2. parts \in [1 .. m.lead -> Seq(Symbol)]
        BY CRLFLength DEF LeadParts
    <2> HIDE DEF parts
    <2>3. parts \in Seq(Seq(Symbol)) /\ 0 \in 0 .. Len(parts)
        BY <2>1, <2>2, PartsForm
    <2>4. QED
        BY <2>3, FlatStep DEF parts
<1>6. Flat(ChunkParts(m), 0) = f /\ f \in Seq(Symbol)
    <2> DEFINE parts == ChunkParts(m)
               n == Len(m.chunks)
               part(k) == m.chunks[k].line \o CRLF \o m.chunks[k].data \o m.chunks[k].tail
    <2>1. n \in Nat /\ parts = [k \in 1 .. n |-> part(k)]
        BY MessageForm DEF ChunkParts
    <2>2. ASSUME NEW k \in 1 .. n
          PROVE  part(k) \in Seq(Symbol)
        <3> DEFINE x == m.chunks[k].line
                   y == m.chunks[k].data
                   z == m.chunks[k].tail
        <3>1. x \in Seq(Symbol) /\ y \in Seq(Symbol) /\ z \in Seq(Symbol)
            BY MessageForm, TextIsSymbols DEF ChunkForm
        <3> HIDE DEF x, y, z
        <3>2. x \o CRLF \in Seq(Symbol)
            BY <3>1, CRLFLength, TextConcat
        <3> DEFINE w == x \o CRLF
        <3>3. w \in Seq(Symbol)
            BY <3>2
        <3> HIDE DEF w
        <3>4. w \o y \in Seq(Symbol)
            BY <3>1, <3>3, TextConcat
        <3> DEFINE v == w \o y
        <3>5. v \in Seq(Symbol)
            BY <3>4
        <3> HIDE DEF v
        <3>6. v \o z \in Seq(Symbol)
            BY <3>1, <3>5, TextConcat
        <3>7. QED
            BY <3>6 DEF v, w, x, y, z
    <2> HIDE DEF part, parts
    <2>3. parts \in [1 .. n -> Seq(Symbol)]
        BY <2>1, <2>2
    <2>4. parts \in Seq(Seq(Symbol)) /\ 0 \in 0 .. Len(parts)
        BY <2>1, <2>3, PartsForm
    <2>5. QED
        BY <2>4, FlatStep DEF parts
<1>7. b \in Seq(Symbol) /\ d \in Seq(Symbol) /\ e \in Seq(Symbol) /\ g \in Seq(Symbol)
      /\ CRLF \in Seq(Symbol)
    <2>1. m.headers \in Seq(TextLine) /\ m.line \in Seq(Symbol) /\ m.body \in Seq(Symbol)
          /\ 0 \in 0 .. Len(m.chunks)
        BY MessageForm, TextIsSymbols
    <2>2. AfterChunks(m) \in Seq(Symbol)
        BY <2>1, ChunkStep
    <2>3. QED
        BY <1>3, <2>1, <2>2, CRLFLength
<1>8. LeadRest(m, 0) = a \o ((b \o CRLF) \o ((d \o CRLF) \o (e \o (f \o g))))
    <2>1. m.headers \in Seq(TextLine)
        BY MessageForm
    <2>2. LinesRest(m.headers, 0) = d \o CRLF
        BY <1>3, <2>1
    <2>3. ChunkRest(m, 0) = f \o g
        BY <1>6 DEF ChunkRest
    <2>4. LeadRest(m, 0) = a \o LineRest(m)
        BY <1>5 DEF LeadRest
    <2> HIDE DEF a, d, f, g
    <2>5. QED
        BY <2>2, <2>3, <2>4 DEF LineRest, HeadRest, BodyRest
<1> HIDE DEF a, b, d, e, f, g, h
<1>12. ((((((a \o b) \o CRLF) \o d) \o CRLF) \o e) \o f) \o g
        = a \o ((b \o CRLF) \o ((d \o CRLF) \o (e \o (f \o g))))
    <2>1. AreTexts(a, b, CRLF, d, e, f, g)
        BY <1>5, <1>6, <1>7 DEF AreTexts
    <2>2. Regroups(a, b, CRLF, d, e, f, g)
        BY <2>1, Regroup
    <2>3. QED
        BY <2>2 DEF Regroups
<1>13. Wire(m) = LeadRest(m, 0)
    BY <1>2, <1>4, <1>8, <1>12
<1>14. LeadRest(m, 0) \in Seq(Symbol)
    <2>1. 0 \in 0 .. m.lead
        BY MessageForm
    <2>2. QED
        BY <2>1, LeadStep
<1>15. QED
    BY <1>13, <1>14

\* The body is as long as the head says, where the parser takes it.
LengthFits(m, block) ==
    HeaderValue(block, "clen") \in 0 .. MaxBody => Len(m.body) = HeaderValue(block, "clen")

\* What prepare_parse_body concludes from the head is how the message goes on.
LEMMA FramingMeans ==
    ASSUME NEW m \in WellFormed, m.headers # << >>
    PROVE  LET block == LinesRest(m.headers, 0)
               framing == BodyFraming(block)
           IN  \/ framing \in {"INVALID_HEADER", "UNSUPPORTED_TRANSFER_ENCODING"}
               \/ /\ framing = "CONTENT_LENGTH"
                  /\ BodyRest(m) = m.body /\ LengthFits(m, block)
               \/ /\ framing = "CHUNKED_SIZE" /\ 0 \in 0 .. Len(m.chunks) - 1
                  /\ BodyRest(m) = ChunkRest(m, 0)
               \/ framing = "COMPLETE" /\ BodyRest(m) = << >>
<1> DEFINE block == LinesRest(m.headers, 0)
           framing == BodyFraming(block)
           has(kind) == HasHeader(m, kind)
           value(kind) == LastValue(m, kind)
<1>1. m.headers \in Seq(TextLine) /\ m.body \in Seq(Symbol)
    BY MessageForm
<1>2. ASSUME NEW kind
      PROVE  /\ HeaderPositions(block, kind) # {} <=> has(kind)
             /\ has(kind) => HeaderValue(block, kind) = value(kind)
    <2>1. has(kind) <=> Named(m.headers, kind) # {}
        BY DEF HasHeader, Named
    <2>2. value(kind) = m.headers[Max(Named(m.headers, kind))][1].val
        BY DEF LastValue, Named
    <2> HIDE DEF has, value
    <2>3. QED
        BY <1>1, <2>1, <2>2, BlockValue
<1>3. /\ ~has("clen") => m.body = <<>>
      /\ has("clen") /\ value("clen") \in 0 .. MaxBody => Len(m.body) = value("clen")
      /\ m.chunks # <<>> <=> ~has("clen") /\ has("tenc") /\ value("tenc") = 1
    BY MessageForm DEF Framed
<1>4. framing =
        CASE has("tenc") /\ has("clen") -> "INVALID_HEADER"
          [] has("tenc") /\ ~has("clen") /\ value("tenc") = 1 -> "CHUNKED_SIZE"
          [] has("tenc") /\ ~has("clen") /\ value("tenc") # 1 -> "UNSUPPORTED_TRANSFER_ENCODING"
          [] has("clen") /\ ~has("tenc") -> "CONTENT_LENGTH"
          [] OTHER -> "COMPLETE"
    <2>1. /\ HeaderPositions(block, "tenc") # {} <=> has("tenc")
          /\ HeaderPositions(block, "clen") # {} <=> has("clen")
          /\ has("tenc") => HeaderValue(block, "tenc") = value("tenc")
        BY <1>2
    <2> HIDE DEF has, value, block
    <2>2. QED
        BY <2>1 DEF BodyFraming
<1> HIDE DEF has, value
<1>5. has("clen") => LengthFits(m, block)
    <2>1. has("clen") => HeaderValue(block, "clen") = value("clen")
        BY <1>2
    <2> HIDE DEF block
    <2>2. QED
        BY <1>3, <2>1 DEF LengthFits
<1>6. /\ 0 \in 0 .. Len(m.chunks) /\ Len(m.chunks) \in Nat
      /\ m.chunks = << >> => 0 = Len(m.chunks) /\ AfterChunks(m) = << >>
      /\ m.chunks # << >> => 0 \in 0 .. Len(m.chunks) - 1
    <2>1. m.chunks \in Seq(ChunkForm) /\ Len(m.chunks) \in Nat
        BY MessageForm
    <2>2. m.chunks # << >> => Len(m.chunks) # 0
        BY <2>1, EmptySeq
    <2>3. m.chunks = << >> => 0 = Len(m.chunks)
        BY EmptySeq
    <2>4. m.chunks = << >> => AfterChunks(m) = << >>
        BY DEF AfterChunks
    <2> DEFINE n == Len(m.chunks)
    <2> HIDE DEF n
    <2>5. n \in Nat /\ (m.chunks # << >> => n # 0)
        BY <2>1, <2>2 DEF n
    <2>6. 0 \in 0 .. n /\ (m.chunks # << >> => 0 \in 0 .. n - 1)
        BY <2>5
    <2>7. QED
        BY <2>1, <2>3, <2>4, <2>6 DEF n
<1>7. /\ m.chunks = << >> => BodyRest(m) = m.body
      /\ m.body = << >> => BodyRest(m) = ChunkRest(m, 0)
    <2> DEFINE b == m.body
               r == ChunkRest(m, 0)
    <2>1. b \in Seq(Symbol) /\ r \in Seq(Symbol) /\ (m.chunks = << >> => r = << >>)
        BY <1>1, <1>6, ChunkStep
    <2>2. BodyRest(m) = b \o r
        BY DEF BodyRest
    <2> HIDE DEF b, r
    <2>3. b \o << >> = b /\ << >> \o r = r
        BY <2>1, TextConcat
    <2>4. QED
        BY <2>1, <2>2, <2>3 DEF b, r
<1>8. CASE has("clen") /\ has("tenc")
    BY <1>4, <1>8
<1>9. CASE ~has("clen") /\ has("tenc") /\ value("tenc") = 1
    BY <1>3, <1>4, <1>6, <1>7, <1>9
<1>10. CASE ~has("clen") /\ has("tenc") /\ value("tenc") # 1
    BY <1>4, <1>10
<1>11. CASE has("clen") /\ ~has("tenc")
    BY <1>3, <1>4, <1>5, <1>7, <1>11
<1>12. CASE ~has("clen") /\ ~has("tenc")
    BY <1>3, <1>4, <1>7, <1>12
<1>13. QED
    BY <1>8, <1>9, <1>10, <1>11, <1>12

\* A message without headers ends with its head.
LEMMA NoHeaders ==
    ASSUME NEW m \in WellFormed, m.headers = << >>
    PROVE  BodyRest(m) = << >>
<1>1. DOMAIN m.headers = {}
    <2>1. DOMAIN << >> = {}
        BY EmptySeq
    <2>2. QED
        BY <2>1
<1>2. ~HasHeader(m, "clen") /\ ~HasHeader(m, "tenc")
    BY <1>1 DEF HasHeader
<1>3. m.body = << >> /\ m.chunks = << >>
    BY <1>2, MessageForm DEF Framed
<1>4. Len(m.chunks) = 0 /\ 0 \in 0 .. Len(m.chunks)
    BY <1>3, EmptySeq
<1>5. ChunkRest(m, 0) = << >>
    <2>1. ChunkRest(m, 0) = AfterChunks(m)
        BY <1>4, ChunkStep
    <2>2. QED
        BY <1>3, <2>1 DEF AfterChunks
<1>6. << >> \o << >> = << >>
    BY TextConcat
<1>7. QED
    BY <1>3, <1>5, <1>6 DEF BodyRest

\* A chunk whose size the parser takes.
LEMMA ChunkMeans ==
    ASSUME NEW m \in WellFormed, NEW i \in 1 .. Len(m.chunks),
           ChunkSize(m.chunks[i].line) \in 0 .. MaxBody
    PROVE  LET chunk == m.chunks[i]
               size == ChunkSize(chunk.line)
           IN  /\ size = 0 => /\ chunk.data \o chunk.tail = << >>
                              /\ i = Len(m.chunks)
               /\ size # 0 => /\ Len(chunk.data \o chunk.tail) = size + 2
                              /\ i \in 0 .. Len(m.chunks) - 1
               /\ chunk.data \o chunk.tail \in Seq(Symbol)
<1> DEFINE d == m.chunks[i].data
           t == m.chunks[i].tail
           size == ChunkSize(m.chunks[i].line)
           n == Len(m.chunks)
<1>1. d \in Seq(Symbol) /\ t \in Seq(Symbol) /\ i \in DOMAIN m.chunks /\ n \in Nat
    BY MessageForm DEF ChunkForm
<1>2. /\ Len(d) = size /\ Len(t) = (IF size = 0 THEN 0 ELSE 2)
      /\ size = 0 <=> i = n
    BY <1>1, MessageForm DEF Framed
<1>3. size \in Nat
    BY LimitsAssumption
<1> HIDE DEF d, t, size, n
<1>4. d \o t \in Seq(Symbol) /\ Len(d \o t) = Len(d) + Len(t)
    BY <1>1, Joined
<1>5. ASSUME size = 0
      PROVE  d \o t = << >> /\ i = n
    <2>1. d = << >> /\ t = << >>
        <3>1. \A s \in Seq(Symbol) : s # << >> => Len(s) # 0
            BY EmptySeq
        <3>2. QED
            BY <1>1, <1>2, <1>5, <3>1
    <2>2. << >> \o << >> = << >>
        BY TextConcat
    <2>3. QED
        BY <1>2, <1>5, <2>1, <2>2
<1>6. ASSUME size # 0
      PROVE  Len(d \o t) = size + 2 /\ i \in 0 .. n - 1
    <2>1. i \in 1 .. n /\ i # n
        BY <1>2, <1>6 DEF n
    <2>2. i \in 0 .. n - 1
        BY <1>1, <2>1
    <2>3. QED
        BY <1>2, <1>3, <1>4, <1>6, <2>2
<1>7. QED
    BY <1>4, <1>5, <1>6 DEF d, t, size, n

-----------------------------------------------------------------------------
(* Where the parser stands in a conversation.                              *)

\* What the parser has not used up of the stream, received or not.
Unread == SubSeq(stream, Consumed + 1, Len(stream))

\* The view is the first part of it.
LEMMA ViewOfUnread ==
    ASSUME Inv
    PROVE  /\ Begins(view, Unread) /\ Unread \in Seq(Symbol)
           /\ Consumed \in 0 .. Len(stream) /\ Len(stream) \in Nat
           /\ Len(Unread) = Len(stream) - Consumed
           /\ received = Consumed + Len(view) /\ Len(view) \in Nat
<1> DEFINE n == Len(stream)
           v == Len(view)
           l == Len(buffer)
<1>1. /\ n \in Nat /\ v \in Nat /\ l \in Nat /\ received \in 0 .. n /\ l \in 0 .. received
      /\ v = l - viewStart /\ viewStart \in 0 .. l
      /\ stream \in Seq(Symbol) /\ view \in Seq(Symbol)
    BY ViewLength, LenProperties DEF Inv, TypeOK, WindowOK
<1>2. Consumed = received - v
    BY DEF Consumed
<1>3. view = SubSeq(stream, received - v + 1, received)
    <2>1. buffer = SubSeq(stream, received - l + 1, received)
          /\ view = SubSeq(buffer, viewStart + 1, l)
        BY DEF Inv, WindowOK
    <2> DEFINE piece == SubSeq(stream, received - l + 1, received)
    <2>2. SubSeq(piece, viewStart + 1, l) = SubSeq(stream, received - (l - viewStart) + 1, received)
        <3> HIDE DEF l, n
        <3>1. QED
            BY <1>1, RestOfPiece DEF n
    <2> HIDE DEF l, v
    <2>3. QED
        BY <1>1, <2>1, <2>2
<1>4. Consumed \in 0 .. n /\ received = Consumed + v
    <2> HIDE DEF n, v, l
    <2>1. QED
        BY <1>1, <1>2
<1>5. Unread \in Seq(Symbol) /\ Len(Unread) = n - Consumed
    BY <1>1, <1>4, Rest DEF Unread
<1>6. \A i \in 1 .. n - Consumed : Unread[i] = stream[Consumed + i]
    <2> DEFINE u == SubSeq(stream, Consumed + 1, n)
    <2>1. \A i \in Consumed + 1 .. n : stream[i] \in Symbol
        BY <1>1, <1>4, ElementOfSeq
    <2>2. Consumed + 1 \in Int /\ n \in Int
        BY <1>1, <1>4
    <2>3. \A i \in 1 .. n - (Consumed + 1) + 1 : u[i] = stream[Consumed + 1 + i - 1]
        BY <2>1, <2>2, SubSeqProperties
    <2> HIDE DEF u, n
    <2>4. \A i \in 1 .. n - Consumed :
            i \in 1 .. n - (Consumed + 1) + 1 /\ Consumed + 1 + i - 1 = Consumed + i
        BY <1>1, <1>4
    <2>5. \A i \in 1 .. n - Consumed : u[i] = stream[Consumed + i]
        BY <2>3, <2>4
    <2>6. QED
        BY <2>5 DEF Unread, u, n
<1>7. \A i \in 1 .. v : view[i] = stream[Consumed + i]
    <2> DEFINE a == received - v + 1
               u == SubSeq(stream, a, received)
    <2>1. a \in Int /\ received \in Int /\ a = Consumed + 1 /\ received \in 0 .. n
          /\ a \in 1 .. n + 1
        <3> HIDE DEF v, n
        <3>1. QED
            BY <1>1, <1>2, <1>4
    <2>2. \A i \in a .. received : stream[i] \in Symbol
        BY <1>1, <2>1, ElementOfSeq
    <2> HIDE DEF a
    <2>3. \A i \in 1 .. received - a + 1 : u[i] = stream[a + i - 1]
        BY <2>1, <2>2, SubSeqProperties
    <2> HIDE DEF u, n, v
    <2>4. \A i \in 1 .. v : i \in 1 .. received - a + 1 /\ a + i - 1 = Consumed + i
        BY <1>1, <1>4, <2>1
    <2>5. \A i \in 1 .. v : u[i] = stream[Consumed + i]
        BY <2>3, <2>4
    <2>6. QED
        BY <1>3, <2>5 DEF u, a, v
<1> HIDE DEF n, v
<1>8. \A i \in 1 .. v : i \in 1 .. n - Consumed
    BY <1>1, <1>4
<1>9. \A i \in 1 .. v : view[i] = Unread[i]
    BY <1>6, <1>7, <1>8
<1>10. v <= n - Consumed
    BY <1>1, <1>4
<1>11. QED
    BY <1>1, <1>4, <1>5, <1>9, <1>10 DEF Begins, n, v

\* Behind place c and then a, b is left of the text.
Leaves(text, c, a, b) ==
    /\ c + Len(a) \in 0 .. Len(text)
    /\ SubSeq(text, (c + Len(a)) + 1, Len(text)) = b

\* What is left of a text when a first part of what was left is taken.
LEMMA Skip ==
    ASSUME NEW text \in Seq(Symbol), NEW c \in 0 .. Len(text),
           NEW a \in Seq(Symbol), NEW b \in Seq(Symbol),
           SubSeq(text, c + 1, Len(text)) = a \o b
    PROVE  Leaves(text, c, a, b)
<1> DEFINE n == Len(text)
           l == Len(a)
           w == a \o b
           d == c + l
           left == SubSeq(text, c + 1, n)
           rest == SubSeq(text, d + 1, n)
<1>1. n \in Nat /\ l \in Nat /\ Len(b) \in Nat /\ c \in 0 .. n
    BY LenProperties
<1>2. Len(w) = l + Len(b) /\ \A i \in 1 .. Len(b) : w[l + i] = b[i]
    BY Joined
<1>3. /\ Len(left) = n - c
      /\ \A i \in 1 .. n - c : left[i] = text[c + i]
    <2>1. Len(left) = n - c
        BY Rest
    <2>2. \A i \in c + 1 .. n : text[i] \in Symbol
        BY <1>1, ElementOfSeq
    <2>3. \A i \in 1 .. n - (c + 1) + 1 : left[i] = text[c + 1 + i - 1]
        BY <1>1, <2>2, SubSeqProperties
    <2> HIDE DEF left, n
    <2>4. \A i \in 1 .. n - c : i \in 1 .. n - (c + 1) + 1 /\ c + 1 + i - 1 = c + i
        BY <1>1
    <2>5. QED
        BY <2>1, <2>3, <2>4
<1>4. left = w
    OBVIOUS
<1>5. d \in 0 .. n /\ n - d = Len(b) /\ n - c = l + Len(b)
    <2> HIDE DEF n, l, left, w
    <2>1. n - c = l + Len(b)
        BY <1>2, <1>3, <1>4
    <2>2. QED
        BY <1>1, <2>1
<1>6. /\ rest \in Seq(Symbol) /\ Len(rest) = n - d
      /\ \A i \in 1 .. n - d : rest[i] = text[d + i]
    <2> HIDE DEF d
    <2>1. rest \in Seq(Symbol) /\ Len(rest) = n - d
        BY <1>5, Rest
    <2>2. \A i \in d + 1 .. n : text[i] \in Symbol
        BY <1>1, <1>5, ElementOfSeq
    <2>3. \A i \in 1 .. n - (d + 1) + 1 : rest[i] = text[d + 1 + i - 1]
        BY <1>1, <1>5, <2>2, SubSeqProperties
    <2> HIDE DEF rest, n
    <2>4. \A i \in 1 .. n - d : i \in 1 .. n - (d + 1) + 1 /\ d + 1 + i - 1 = d + i
        BY <1>1, <1>5
    <2>5. QED
        BY <2>1, <2>3, <2>4
<1> HIDE DEF rest, left, w
<1>7. ASSUME NEW i \in 1 .. Len(b)
      PROVE  rest[i] = b[i]
    <2> DEFINE j == l + i
    <2>1. j \in 1 .. n - c /\ i \in 1 .. n - d /\ d + i = c + j
        <3> HIDE DEF n, l
        <3>1. QED
            BY <1>1, <1>5
    <2> HIDE DEF d, n
    <2>2. rest[i] = text[c + j]
        BY <1>6, <2>1
    <2>3. w[j] = b[i]
        BY <1>2
    <2> HIDE DEF j
    <2>4. left[j] = text[c + j]
        BY <1>3, <2>1
    <2>5. QED
        BY <1>4, <2>2, <2>3, <2>4
<1>8. rest = b
    BY <1>5, <1>6, <1>7, SeqEqual
<1>9. QED
    BY <1>5, <1>8 DEF Leaves, rest, d, n, l

\* advance_view takes the first part of what was left.
LEMMA Taken ==
    ASSUME Inv, UNCHANGED input,
           NEW a \in Seq(Symbol), NEW b \in Seq(Symbol), NEW later \in Seq(Symbol),
           Unread = (a \o b) \o later, Len(a) <= Len(view), AdvanceView(Len(a))
    PROVE  Unread' = b \o later
<1> DEFINE n == Len(a)
           behind == b \o later
<1>1. /\ n \in Nat /\ Len(view) \in Nat /\ Len(buffer) \in Nat /\ viewStart \in Nat
      /\ Len(view) = Len(buffer) - viewStart /\ n <= Len(view) /\ buffer \in Seq(Symbol)
    BY ViewLength, LenProperties DEF Inv, TypeOK
<1>2. stream' = stream /\ received' = received
      /\ view' = SubSeq(buffer, viewStart + n + 1, Len(buffer))
    BY DEF input, AdvanceView
<1>3. Len(view') = Len(view) - n
    <2> DEFINE at == viewStart + n
    <2>1. at \in 0 .. Len(buffer) /\ Len(buffer) - at = Len(view) - n
        <3> HIDE DEF n
        <3>1. QED
            BY <1>1
    <2> HIDE DEF at
    <2>2. Len(SubSeq(buffer, at + 1, Len(buffer))) = Len(buffer) - at
        BY <1>1, <2>1, Rest
    <2>3. QED
        BY <1>2, <2>1, <2>2 DEF at
<1>4. Consumed' = Consumed + n
    <2>1. Consumed' = received' - Len(view') /\ Consumed = received - Len(view)
        BY DEF Consumed
    <2>2. received \in Nat
        BY DEF Inv, TypeOK
    <2> HIDE DEF n
    <2>3. QED
        BY <1>1, <1>2, <1>3, <2>1, <2>2
<1>5. behind \in Seq(Symbol)
    BY TextConcat
<1>6. (a \o b) \o later = a \o behind
    BY ConcatAssociative
<1>7. SubSeq(stream, Consumed + 1, Len(stream)) = a \o behind
    BY <1>6 DEF Unread
<1>8. stream \in Seq(Symbol) /\ Consumed \in 0 .. Len(stream)
    BY ViewOfUnread DEF Inv, TypeOK
<1> DEFINE c == Consumed
           text == stream
<1> HIDE DEF behind
<1>9. SubSeq(stream, (c + Len(a)) + 1, Len(stream)) = behind
    <2>1. /\ text \in Seq(Symbol) /\ c \in 0 .. Len(text) /\ behind \in Seq(Symbol)
          /\ SubSeq(text, c + 1, Len(text)) = a \o behind
        BY <1>5, <1>7, <1>8
    <2> HIDE DEF c, text
    <2>2. Leaves(text, c, a, behind)
        BY <2>1, Skip
    <2>3. QED
        BY <2>2 DEF Leaves, text
<1>10. Unread' = SubSeq(stream', Consumed' + 1, Len(stream'))
    BY DEF Unread
<1>11. QED
    BY <1>2, <1>4, <1>9, <1>10 DEF behind

\* Whatever keeps the view, or replaces it by an equal one, keeps what was left.
LEMMA UnreadStays ==
    ASSUME Inv, stream' = stream, Consumed' = Consumed
    PROVE  Unread' = Unread
BY DEF Unread

\* What is left of the message that the parser works on, by its state.
StandsRequestLine(m, left) ==
    /\ state = "REQUEST_LINE"
    /\ \E k \in 0 .. m.lead : left = LeadRest(m, k) /\ (pc = "idle" => k = 0)
StandsContentLength(m, left) ==
    state = "CONTENT_LENGTH" /\ left = m.body /\ LengthFits(m, req.headers)
StandsChunkedSize(m, left) ==
    state = "CHUNKED_SIZE" /\ \E i \in 0 .. Len(m.chunks) - 1 : left = ChunkRest(m, i)
StandsChunkedData(m, left) ==
    /\ state = "CHUNKED_DATA"
    /\ \E i \in 1 .. Len(m.chunks) :
            /\ chunkLeft = ChunkSize(m.chunks[i].line) /\ chunkLeft \in 0 .. MaxBody
            /\ left = (m.chunks[i].data \o m.chunks[i].tail) \o ChunkRest(m, i)
StandsTrailers(m, left) ==
    /\ state = "CHUNKED_TRAILERS"
    /\ \E j \in 0 .. Len(m.trailers) : left = LinesRest(m.trailers, j)

\* The parser stands before left, in one of these states or at an end.
Stands(m, left) ==
    /\ pc = "idle" => state = "REQUEST_LINE"
    /\ \/ StandsRequestLine(m, left)
       \/ state = "HEADERS" /\ left = HeadRest(m)
       \/ StandsContentLength(m, left)
       \/ StandsChunkedSize(m, left)
       \/ StandsChunkedData(m, left)
       \/ StandsTrailers(m, left)
       \/ state = "COMPLETE" /\ left = << >>

\* The parser is in the middle of m, and later follows m in the stream.  It
\* waits for a read only while it has less than is left of m.
WorksOn(m, later) ==
    \E left \in Seq(Symbol) :
        /\ Unread = left \o later
        /\ Stands(m, left)
        /\ pc = "pull" => Len(view) < Len(left)

\* A step ends the use of the parser or leaves it at work on m.
GoesOnWith(m, later) ==
    \/ pc' = "stopped"
    \/ stream' = stream /\ results' = results /\ WorksOn(m, later)'

\* An error ends the use of the parser.
LEMMA FailStops ==
    ASSUME NEW m, NEW later
    PROVE  /\ \A error : Fail(error) => GoesOnWith(m, later)
           /\ \A verdict : Refuse(verdict) => GoesOnWith(m, later)
BY DEF Fail, Refuse, Throw, GoesOnWith

\* Waiting, while less is here than is left of the message.
LEMMA SuspendGoesOn ==
    ASSUME Inv, NEW m, NEW left \in Seq(Symbol), NEW later, Unread = left \o later,
           Stands(m, left), pc = "run", Len(view) < Len(left), Suspend, UNCHANGED input
    PROVE  GoesOnWith(m, later)
<1>1. /\ stream' = stream /\ received' = received /\ view' = view /\ results' = results
      /\ state' = state /\ req' = req /\ chunkLeft' = chunkLeft /\ pc' = "pull"
    BY DEF Suspend, input, window, message
<1>2. Unread' = Unread
    BY <1>1 DEF Unread, Consumed
<1>3. Stands(m, left)'
    BY <1>1 DEF Stands, StandsRequestLine, StandsContentLength, StandsChunkedSize,
                StandsChunkedData, StandsTrailers
<1>4. WorksOn(m, later)'
    BY <1>1, <1>2, <1>3 DEF WorksOn
<1>5. QED
    BY <1>1, <1>4 DEF GoesOnWith

\* A turn of the loop that changes nothing.
LEMMA StayGoesOn ==
    ASSUME Inv, NEW m, NEW later, WorksOn(m, later),
           UNCHANGED <<input, pc, state, window, message, results>>
    PROVE  GoesOnWith(m, later)
<1>1. WorksOn(m, later)'
    BY DEF WorksOn, Unread, Consumed, Stands, StandsRequestLine, StandsContentLength,
           StandsChunkedSize, StandsChunkedData, StandsTrailers, input, window, message
<1>2. QED
    BY <1>1 DEF GoesOnWith, input

\* Taking a first part of what is left.
LEMMA AdvanceGoesOn ==
    ASSUME Inv, NEW m, NEW a \in Seq(Symbol), NEW b \in Seq(Symbol),
           NEW later \in Seq(Symbol), Unread = (a \o b) \o later,
           Len(a) <= Len(view), AdvanceView(Len(a)),
           UNCHANGED <<input, pc, results>>, pc = "run", Stands(m, b)'
    PROVE  GoesOnWith(m, later)
<1>1. Unread' = b \o later
    BY Taken DEF input
<1>2. WorksOn(m, later)'
    BY <1>1 DEF WorksOn
<1>3. QED
    BY <1>2 DEF GoesOnWith, input

\* A line is next in what is left: what the parser finds of it.
LineAhead(line, rest) ==
    /\ line \o CRLF \in Seq(Symbol) /\ (line \o CRLF) \o rest \in Seq(Symbol)
    /\ Find(view, CRLF) = NotFound => Len(view) < Len((line \o CRLF) \o rest)
    /\ Find(view, CRLF) # NotFound =>
            /\ Find(view, CRLF) = Len(line) /\ Len(line) \in Nat
            /\ Len(line \o CRLF) = Find(view, CRLF) + 2
            /\ Len(line \o CRLF) <= Len(view)
            /\ Prefix(view, Find(view, CRLF)) = line

\* The parser finds the line once it is there with its line end, and not before.
LEMMA FindsLine ==
    ASSUME Inv, NEW line \in Text, NEW rest \in Seq(Symbol), NEW later \in Seq(Symbol),
           Unread = ((line \o CRLF) \o rest) \o later
    PROVE  LineAhead(line, rest)
<1> DEFINE whole == line \o CRLF
           behind == rest \o later
           n == Len(line)
<1>1. line \in Seq(Symbol) /\ n \in Nat /\ Len(view) \in Nat
    BY TextIsSymbols, LenProperties, ViewOfUnread
<1>2. whole \in Seq(Symbol) /\ Len(whole) = n + 2
    <2>1. Len(whole) = Len(line) + Len(CRLF) /\ whole \in Seq(Symbol)
        BY <1>1, CRLFLength, Joined
    <2>2. QED
        BY <2>1, CRLFLength
<1>3. behind \in Seq(Symbol)
    BY TextConcat
<1>4. Begins(view, whole \o behind)
    <2> HIDE DEF whole
    <2>1. (whole \o rest) \o later = whole \o behind
        BY <1>2, ConcatAssociative
    <2>2. Begins(view, Unread)
        BY ViewOfUnread
    <2>3. QED
        BY <2>1, <2>2 DEF whole
<1>5. /\ Len(view) < n + 2 => Find(view, CRLF) = NotFound
      /\ Len(view) >= n + 2 =>
            Find(view, CRLF) = n /\ Prefix(view, n) = line
    <2> HIDE DEF behind
    <2>1. QED
        BY <1>3, <1>4, LineFound
<1>6. /\ whole \o rest \in Seq(Symbol) /\ Len(whole \o rest) = Len(whole) + Len(rest)
      /\ Len(rest) \in Nat
    BY <1>2, Joined
<1>7. NotFound \notin Nat
    BY DEF NotFound
<1> HIDE DEF whole, behind, n
<1>8. CASE Len(view) < n + 2
    <2>1. Len(view) < Len(whole \o rest)
        BY <1>1, <1>2, <1>6, <1>8
    <2>2. QED
        BY <1>2, <1>5, <1>6, <1>8, <2>1 DEF LineAhead, whole
<1>9. CASE ~(Len(view) < n + 2)
    <2>1. Len(view) >= n + 2
        BY <1>1, <1>9
    <2>2. Find(view, CRLF) = n /\ Prefix(view, n) = line /\ Find(view, CRLF) # NotFound
        BY <1>1, <1>5, <1>7, <2>1
    <2>3. n + 2 <= Len(view)
        BY <1>1, <2>1
    <2>4. QED
        BY <1>1, <1>2, <1>6, <2>2, <2>3 DEF LineAhead, whole, n
<1>10. QED
    BY <1>8, <1>9

\* An empty line has no length.
LEMMA EmptyLine ==
    /\ << >> \in Text /\ Len(<< >>) = 0 /\ << >> \o CRLF = CRLF /\ << >> \in Seq(Symbol)
    /\ \A n \in Nat : NotFound # n /\ ~(NotFound > 0) /\ ~(NotFound = 0)
BY TextIsSymbols, EmptySeq, CRLFLength, TextConcat DEF NotFound

-----------------------------------------------------------------------------
(* Each handler takes the part of the message that is next.                *)

\* parse_request_line takes an empty line or the request line.
LEMMA RequestLineWorks ==
    ASSUME Inv, NEW m \in WellFormed, NEW later \in Seq(Symbol), WorksOn(m, later),
           ParseRequestLine
    PROVE  GoesOnWith(m, later)
<1>1. pc = "run" /\ state = "REQUEST_LINE" /\ UNCHANGED input
    BY DEF ParseRequestLine
<1>2. PICK left \in Seq(Symbol) : Unread = left \o later /\ Stands(m, left)
    BY DEF WorksOn
<1>3. PICK k \in 0 .. m.lead : left = LeadRest(m, k)
    BY <1>1, <1>2 DEF Stands, StandsRequestLine, StandsContentLength, StandsChunkedSize,
                      StandsChunkedData, StandsTrailers
<1> DEFINE crlf == Find(view, CRLF)
<1>4. CASE k # m.lead
    <2> DEFINE rest == LeadRest(m, k + 1)
    <2>1. k + 1 \in 0 .. m.lead /\ rest \in Seq(Symbol) /\ left = (<< >> \o CRLF) \o rest
        BY <1>3, <1>4, LeadStep
    <2> HIDE DEF rest
    <2>2. LineAhead(<< >>, rest)
        BY <1>2, <2>1, EmptyLine, FindsLine
    <2>3. CASE PullUntil(CRLF, MaxHeaders, "HEADER_TOO_LARGE")
        <3>1. Len(view) < Len(left)
            BY <2>1, <2>2, <2>3 DEF LineAhead, PullUntil
        <3>2. QED
            BY <1>1, <1>2, <2>3, <3>1, FailStops, SuspendGoesOn DEF PullUntil
    <2>4. CASE crlf = 0 /\ AdvanceView(2) /\ UNCHANGED <<pc, state, message, results>>
        <3> DEFINE a == << >> \o CRLF
        <3>1. a \in Seq(Symbol) /\ Len(a) = 2 /\ Len(a) <= Len(view)
            BY <2>2, <2>4, EmptyLine DEF LineAhead
        <3>2. Stands(m, rest)'
            BY <1>1, <2>1, <2>4 DEF Stands, StandsRequestLine, rest
        <3>3. Unread = (a \o rest) \o later
            BY <1>2, <2>1
        <3> HIDE DEF a
        <3>4. QED
            BY <1>1, <2>1, <2>4, <3>1, <3>2, <3>3, AdvanceGoesOn
    <2>5. ~(crlf > 0)
        BY <2>2, EmptyLine DEF LineAhead
    <2>6. QED
        BY <2>3, <2>4, <2>5 DEF ParseRequestLine
<1>5. CASE k = m.lead
    <2> DEFINE rest == HeadRest(m)
               line == m.line
    <2>1. /\ line \in Text /\ Len(line) \in Nat \ {0} /\ rest \in Seq(Symbol)
          /\ left = (line \o CRLF) \o rest
        BY <1>3, <1>5, LeadStep, HeadStep, MessageForm, TextIsSymbols DEF LineRest
    <2> HIDE DEF rest, line
    <2>2. LineAhead(line, rest)
        BY <1>2, <2>1, FindsLine
    <2>3. CASE PullUntil(CRLF, MaxHeaders, "HEADER_TOO_LARGE")
        <3>1. Len(view) < Len(left)
            BY <2>1, <2>2, <2>3 DEF LineAhead, PullUntil
        <3>2. QED
            BY <1>1, <1>2, <2>3, <3>1, FailStops, SuspendGoesOn DEF PullUntil
    <2>4. crlf # 0
        BY <2>1, <2>2, EmptyLine DEF LineAhead
    <2>5. CASE /\ crlf > 0 /\ AdvanceView(crlf + 2) /\ state' = "HEADERS"
               /\ UNCHANGED <<pc, chunkLeft, results>>
        <3> DEFINE a == line \o CRLF
        <3>1. a \in Seq(Symbol) /\ Len(a) = crlf + 2 /\ Len(a) <= Len(view)
            BY <2>2, <2>5, EmptyLine DEF LineAhead
        <3>2. Stands(m, rest)'
            BY <1>1, <2>5 DEF Stands, rest
        <3>3. Unread = (a \o rest) \o later
            BY <1>2, <2>1
        <3> HIDE DEF a, crlf
        <3>4. QED
            BY <1>1, <2>1, <2>5, <3>1, <3>2, <3>3, AdvanceGoesOn
    <2>6. QED
        BY <2>3, <2>4, <2>5, FailStops DEF ParseRequestLine
<1>6. QED
    BY <1>4, <1>5

\* A handler that takes the line that is next, with its end.
LEMMA TakesLine ==
    ASSUME Inv, NEW m, NEW line \in Text, NEW rest \in Seq(Symbol), NEW later \in Seq(Symbol),
           Unread = ((line \o CRLF) \o rest) \o later, LineAhead(line, rest),
           Find(view, CRLF) # NotFound, AdvanceView(Find(view, CRLF) + 2),
           UNCHANGED <<input, pc, results>>, pc = "run", Stands(m, rest)'
    PROVE  GoesOnWith(m, later)
<1> DEFINE a == line \o CRLF
           crlf == Find(view, CRLF)
<1>1. a \in Seq(Symbol) /\ Len(a) = crlf + 2 /\ Len(a) <= Len(view)
    BY DEF LineAhead
<1>2. Unread = (a \o rest) \o later
    OBVIOUS
<1> HIDE DEF a, crlf
<1>3. AdvanceView(Len(a))
    BY <1>1 DEF crlf
<1>4. QED
    BY <1>1, <1>2, <1>3, AdvanceGoesOn

\* parse_headers takes the empty line, or the whole block.
LEMMA HeadersWorks ==
    ASSUME Inv, NEW m \in WellFormed, NEW later \in Seq(Symbol), WorksOn(m, later),
           ParseHeaders
    PROVE  GoesOnWith(m, later)
<1>1. pc = "run" /\ state = "HEADERS" /\ UNCHANGED input
    BY DEF ParseHeaders
<1>2. PICK left \in Seq(Symbol) : Unread = left \o later /\ Stands(m, left)
    BY DEF WorksOn
<1>3. left = HeadRest(m)
    BY <1>1, <1>2 DEF Stands, StandsRequestLine, StandsContentLength, StandsChunkedSize,
                      StandsChunkedData, StandsTrailers
<1> DEFINE first == Find(view, CRLF)
           end == Find(view, CRLF \o CRLF)
           budget == WrapSub(MaxHeaders, headersSize)
           block == LinesRest(m.headers, 0)
           behind == BodyRest(m)
<1>4. /\ block \in Seq(Symbol) /\ behind \in Seq(Symbol) /\ left = block \o behind
      /\ m.headers \in Seq(TextLine)
    BY <1>3, HeadStep, MessageForm DEF HeadRest
<1>5. ASSUME PullUntil(CRLF, budget, "HEADER_TOO_LARGE"), Len(view) < Len(left)
      PROVE  GoesOnWith(m, later)
    BY <1>1, <1>2, <1>5, FailStops, SuspendGoesOn DEF PullUntil
<1>6. CASE m.headers = << >>
    <2> DEFINE none == << >>
    <2>1. none \in Text /\ none \in Seq(Symbol) /\ left = (none \o CRLF) \o none
        <3>1. block = CRLF /\ behind = none
            BY <1>6, HeadStep, NoHeaders
        <3>2. none \o CRLF = CRLF
            BY EmptyLine
        <3>3. QED
            BY <1>4, <3>1, <3>2, EmptyLine
    <2> HIDE DEF block, behind
    <2>2. LineAhead(none, none)
        <3> HIDE DEF none
        <3>1. QED
            BY <1>2, <2>1, FindsLine
    <2>3. first # NotFound => first = 0
        BY <2>2, EmptyLine DEF LineAhead
    <2>4. first = NotFound => Len(view) < Len(left)
        BY <2>1, <2>2 DEF LineAhead
    <2>5. CASE PullUntil(CRLF, budget, "HEADER_TOO_LARGE")
        BY <1>5, <2>4, <2>5 DEF PullUntil
    <2>6. CASE /\ first = 0 /\ AdvanceView(2) /\ state' = "COMPLETE"
               /\ UNCHANGED <<pc, message, results>>
        <3>1. Stands(m, none)'
            BY <1>1, <2>6 DEF Stands
        <3>2. first # NotFound /\ AdvanceView(first + 2)
            BY <2>6, EmptyLine
        <3> HIDE DEF none
        <3>3. QED
            BY <1>1, <1>2, <2>1, <2>2, <2>6, <3>1, <3>2, TakesLine
    <2>7. ~(first > 0)
        BY <2>3, EmptyLine
    <2>8. QED
        BY <2>5, <2>6, <2>7 DEF ParseHeaders
<1>7. CASE m.headers # << >>
    <2> DEFINE line == m.headers[1]
               rest == LinesRest(m.headers, 1)
    <2>1. /\ line \in Text /\ Len(line) \in Nat \ {0} /\ rest \in Seq(Symbol)
          /\ block = (line \o CRLF) \o rest
        <3>1. 0 \in 0 .. Len(m.headers) /\ 0 # Len(m.headers) /\ 1 \in 0 .. Len(m.headers)
            <4>1. Len(m.headers) \in Nat \ {0}
                BY <1>4, <1>7, LenProperties, EmptySeq
            <4>2. QED
                BY <4>1
        <3>2. /\ m.headers[0 + 1] \in TextLine
              /\ LinesRest(m.headers, 0) = (m.headers[0 + 1] \o CRLF) \o LinesRest(m.headers, 0 + 1)
            BY <1>4, <3>1, LinesStep
        <3>3. 0 + 1 = 1
            OBVIOUS
        <3>4. QED
            BY <1>4, <3>1, <3>2, <3>3, LinesStep, TextIsSymbols
    <2> HIDE DEF line, rest
    <2> DEFINE more == rest \o behind
    <2>2. more \in Seq(Symbol) /\ left = (line \o CRLF) \o more
        <3> DEFINE l == line \o CRLF
        <3>1. l \in Seq(Symbol)
            BY <2>1, TextIsSymbols, CRLFLength, TextConcat
        <3> HIDE DEF l, block, behind
        <3>2. rest \in Seq(Symbol) /\ behind \in Seq(Symbol)
            BY <1>4, <2>1
        <3>3. (l \o rest) \o behind = l \o (rest \o behind)
            BY <3>1, <3>2, TextAssociative
        <3>4. QED
            BY <1>4, <2>1, <3>3, TextConcat DEF l
    <2> HIDE DEF more
    <2>3. LineAhead(line, more)
        BY <1>2, <2>1, <2>2, FindsLine
    <2>4. first = NotFound => Len(view) < Len(left)
        BY <2>2, <2>3 DEF LineAhead
    <2>5. first # 0
        BY <2>1, <2>3, EmptyLine DEF LineAhead
    <2>6. /\ Len(block) \in Nat /\ Len(view) \in Nat
          /\ Len(view) < Len(block) => end = NotFound
          /\ Len(view) >= Len(block) =>
                end \in Nat /\ end + 4 = Len(block) /\ Prefix(view, end + 4) = block
        <3> DEFINE all == behind \o later
        <3>1. all \in Seq(Symbol)
            BY <1>4, TextConcat
        <3>2. Begins(view, block \o all)
            <4>1. (block \o behind) \o later = block \o (behind \o later)
                <5> HIDE DEF block, behind
                <5>1. QED
                    BY <1>4, ConcatAssociative
            <4>2. Begins(view, Unread)
                BY ViewOfUnread
            <4>3. QED
                BY <1>2, <1>4, <4>1, <4>2
        <3> HIDE DEF all
        <3>3. QED
            BY <1>4, <1>7, <3>1, <3>2, BlockFound
    <2>7. Len(block) <= Len(left)
        <3> HIDE DEF block, behind
        <3>1. Len(left) = Len(block) + Len(behind) /\ Len(behind) \in Nat
            BY <1>4, Joined
        <3>2. QED
            BY <2>6, <3>1
    <2>8. CASE PullUntil(CRLF, budget, "HEADER_TOO_LARGE")
        BY <1>5, <2>4, <2>8 DEF PullUntil
    <2>9. CASE PullUntil(CRLF \o CRLF, budget, "HEADER_TOO_LARGE")
        <3>1. end = NotFound
            BY <2>9 DEF PullUntil
        <3>2. end \notin Nat
            BY <3>1 DEF NotFound
        <3>3. Len(view) < Len(left)
            <4>1. ~(Len(view) >= Len(block))
                BY <2>6, <3>2
            <4>2. Len(left) \in Nat
                BY <1>4, LenProperties
            <4>3. QED
                BY <2>6, <2>7, <4>1, <4>2
        <3>4. QED
            BY <1>1, <1>2, <2>9, <3>3, FailStops, SuspendGoesOn DEF PullUntil
    <2>10. CASE end # NotFound /\ EnterBody(Prefix(view, end + 4))
        <3>1. Len(block) <= Len(view) /\ Prefix(view, end + 4) = block
            BY <2>6, <2>10
        <3> DEFINE verdict == BlockVerdict(block)
                   framing == BodyFraming(block)
        <3>2. CASE \/ verdict # "ok" /\ Refuse(verdict)
                   \/ verdict = "ok" /\ framing \in Errors /\ Fail(framing)
            BY <3>2, FailStops
        <3>3. CASE /\ framing \in States /\ req' = [req EXCEPT !.headers = block]
                   /\ AdvanceView(Len(block)) /\ state' = framing
                   /\ UNCHANGED <<pc, chunkLeft, results>>
            <4>1. \/ framing \in {"INVALID_HEADER", "UNSUPPORTED_TRANSFER_ENCODING"}
                  \/ framing = "CONTENT_LENGTH" /\ behind = m.body /\ LengthFits(m, block)
                  \/ /\ framing = "CHUNKED_SIZE" /\ 0 \in 0 .. Len(m.chunks) - 1
                     /\ behind = ChunkRest(m, 0)
                  \/ framing = "COMPLETE" /\ behind = << >>
                BY <1>7, FramingMeans
            <4>2. req'.headers = block /\ pc' = "run"
                BY <1>1, <3>3 DEF Inv, TypeOK, Request
            <4> HIDE DEF block, behind, framing
            <4>3. Stands(m, behind)'
                <5>1. framing \notin {"INVALID_HEADER", "UNSUPPORTED_TRANSFER_ENCODING"}
                    BY <3>3 DEF States
                <5>2. CASE framing = "CONTENT_LENGTH" /\ behind = m.body /\ LengthFits(m, block)
                    <6>1. StandsContentLength(m, behind)'
                        BY <3>3, <4>2, <5>2 DEF StandsContentLength, LengthFits, behind
                    <6>2. QED
                        BY <4>2, <6>1 DEF Stands
                <5>3. CASE /\ framing = "CHUNKED_SIZE" /\ 0 \in 0 .. Len(m.chunks) - 1
                           /\ behind = ChunkRest(m, 0)
                    <6>1. StandsChunkedSize(m, behind)'
                        BY <3>3, <5>3 DEF StandsChunkedSize, behind
                    <6>2. QED
                        BY <4>2, <6>1 DEF Stands
                <5>4. CASE framing = "COMPLETE" /\ behind = << >>
                    BY <3>3, <4>2, <5>4 DEF Stands, behind
                <5>5. QED
                    BY <4>1, <5>1, <5>2, <5>3, <5>4
            <4>4. Unread = (block \o behind) \o later
                BY <1>2, <1>4
            <4>5. QED
                BY <1>1, <1>4, <3>1, <3>3, <4>3, <4>4, AdvanceGoesOn
        <3>4. QED
            BY <2>10, <3>1, <3>2, <3>3 DEF EnterBody
    <2>11. ASSUME Fail("HEADER_TOO_LARGE")
            PROVE  GoesOnWith(m, later)
        BY <2>11, FailStops
    <2>12. QED
        BY <2>5, <2>8, <2>9, <2>10, <2>11 DEF ParseHeaders
<1>8. QED
    BY <1>6, <1>7

\* parse_body_content_length takes the body, once it is there.
LEMMA ContentLengthWorks ==
    ASSUME Inv, NEW m \in WellFormed, NEW later \in Seq(Symbol), WorksOn(m, later),
           ParseBodyContentLength
    PROVE  GoesOnWith(m, later)
<1>1. pc = "run" /\ state = "CONTENT_LENGTH" /\ UNCHANGED input
    BY DEF ParseBodyContentLength
<1>2. PICK left \in Seq(Symbol) : Unread = left \o later /\ Stands(m, left)
    BY DEF WorksOn
<1>3. left = m.body /\ LengthFits(m, req.headers)
    BY <1>1, <1>2 DEF Stands, StandsRequestLine, StandsContentLength, StandsChunkedSize,
                      StandsChunkedData, StandsTrailers
<1> DEFINE length == HeaderValue(req.headers, "clen")
<1>4. length \in 0 .. MaxBody => Len(left) = length
    BY <1>3 DEF LengthFits
<1>5. CASE length \in 0 .. MaxBody /\ Missing(length) /\ Suspend
    <2>1. Len(view) < Len(left)
        BY <1>4, <1>5 DEF Missing
    <2>2. QED
        BY <1>1, <1>2, <1>5, <2>1, SuspendGoesOn
<1>6. CASE /\ length \in 0 .. MaxBody /\ ~Missing(length) /\ AdvanceView(length)
           /\ state' = "COMPLETE" /\ UNCHANGED <<pc, chunkLeft, headersSize, results>>
    <2> DEFINE none == << >>
    <2>1. none \in Seq(Symbol) /\ left \o none = left
        BY EmptyLine, TextConcat
    <2>2. Len(left) <= Len(view) /\ AdvanceView(Len(left))
        <3>1. Len(view) \in Nat /\ length \in Int
            BY <1>6, ViewOfUnread
        <3>2. QED
            BY <1>4, <1>6, <3>1 DEF Missing
    <2>3. Stands(m, none)'
        BY <1>1, <1>6 DEF Stands
    <2>4. Unread = (left \o none) \o later
        BY <1>2, <2>1
    <2> HIDE DEF none
    <2>5. QED
        BY <1>1, <1>6, <2>1, <2>2, <2>3, <2>4, AdvanceGoesOn
<1>7. QED
    BY <1>5, <1>6, FailStops DEF ParseBodyContentLength

\* What from_chars makes of a size line is a number.
LEMMA SizeIsNumber ==
    \A line \in Text : ChunkSize(line) \in Int
<1> SUFFICES ASSUME NEW line \in Text
             PROVE  ChunkSize(line) \in Int
    OBVIOUS
<1>1. CASE line = << >>
    BY <1>1 DEF ChunkSize
<1>2. CASE line # << >>
    <2>1. line \in Seq(Symbol)
        BY TextIsSymbols
    <2>2. Head(line) \in Symbol
        BY <1>2, <2>1, HeadTailProperties
    <2>3. QED
        BY <2>2 DEF ChunkSize, Symbol
<1>3. QED
    BY <1>1, <1>2

\* parse_body_chunked_size takes the size line.
LEMMA ChunkedSizeWorks ==
    ASSUME Inv, NEW m \in WellFormed, NEW later \in Seq(Symbol), WorksOn(m, later),
           ParseBodyChunkedSize
    PROVE  GoesOnWith(m, later)
<1>1. pc = "run" /\ state = "CHUNKED_SIZE" /\ UNCHANGED input
    BY DEF ParseBodyChunkedSize
<1>2. PICK left \in Seq(Symbol) : Unread = left \o later /\ Stands(m, left)
    BY DEF WorksOn
<1>3. PICK i \in 0 .. Len(m.chunks) - 1 : left = ChunkRest(m, i)
    BY <1>1, <1>2 DEF Stands, StandsRequestLine, StandsContentLength, StandsChunkedSize,
                      StandsChunkedData, StandsTrailers
<1> DEFINE chunk == m.chunks[i + 1]
           line == chunk.line
           rest == (chunk.data \o chunk.tail) \o ChunkRest(m, i + 1)
           crlf == Find(view, CRLF)
           size == ChunkSize(Prefix(view, crlf))
<1>4. /\ i + 1 \in 1 .. Len(m.chunks) /\ line \in Text
      /\ rest \in Seq(Symbol) /\ left = (line \o CRLF) \o rest
    <2>1. Len(m.chunks) \in Nat
        BY MessageForm
    <2>2. i \in 0 .. Len(m.chunks) /\ i # Len(m.chunks)
        BY <2>1
    <2>3. /\ i + 1 \in 1 .. Len(m.chunks) /\ chunk \in ChunkForm
          /\ chunk.data \o chunk.tail \in Seq(Symbol) /\ ChunkRest(m, i + 1) \in Seq(Symbol)
          /\ ChunkRest(m, i) = (chunk.line \o CRLF) \o rest
        BY <2>2, ChunkStep
    <2>4. rest \in Seq(Symbol)
        BY <2>3, TextConcat
    <2>5. line \in Text
        BY <2>3 DEF ChunkForm
    <2>6. QED
        BY <1>3, <2>3, <2>4, <2>5
<1> HIDE DEF rest, line
<1>5. LineAhead(line, rest)
    BY <1>2, <1>4, FindsLine
<1>6. CASE PullUntil(CRLF, MaxSizeLine, "INVALID_CHUNK_ENCODING")
    <2>1. Len(view) < Len(left)
        BY <1>4, <1>5, <1>6 DEF LineAhead, PullUntil
    <2>2. QED
        BY <1>1, <1>2, <1>6, <2>1, FailStops, SuspendGoesOn DEF PullUntil
<1>7. CASE /\ crlf # NotFound /\ size >= 0 /\ ~ChunkTooLarge(size)
           /\ chunkLeft' = size /\ state' = "CHUNKED_DATA" /\ AdvanceView(crlf + 2)
           /\ UNCHANGED <<pc, req, headersSize, results>>
    <2>1. size = ChunkSize(line) /\ size \in Int
        BY <1>4, <1>5, <1>7, SizeIsNumber DEF LineAhead
    <2>2. size \in 0 .. MaxBody
        <3> HIDE DEF size
        <3>1. MaxBody \in Int
            BY LimitsAssumption
        <3>2. ~(size > MaxBody) /\ size >= 0
            BY <1>7 DEF ChunkTooLarge
        <3>3. QED
            BY <2>1, <3>1, <3>2
    <2>3. StandsChunkedData(m, rest)'
        <3>1. /\ chunkLeft' = ChunkSize(m.chunks[i + 1].line) /\ chunkLeft' \in 0 .. MaxBody
              /\ rest = (m.chunks[i + 1].data \o m.chunks[i + 1].tail) \o ChunkRest(m, i + 1)
            BY <1>7, <2>1, <2>2 DEF line, rest
        <3> DEFINE n == i + 1
        <3> HIDE DEF size, crlf, n
        <3>2. /\ n \in 1 .. Len(m.chunks)
              /\ chunkLeft' = ChunkSize(m.chunks[n].line) /\ chunkLeft' \in 0 .. MaxBody
              /\ rest = (m.chunks[n].data \o m.chunks[n].tail) \o ChunkRest(m, n)
            BY <1>4, <3>1 DEF n
        <3>3. \E k \in 1 .. Len(m.chunks) :
                /\ chunkLeft' = ChunkSize(m.chunks[k].line) /\ chunkLeft' \in 0 .. MaxBody
                /\ rest = (m.chunks[k].data \o m.chunks[k].tail) \o ChunkRest(m, k)
            BY <3>2
        <3>4. state' = "CHUNKED_DATA"
            BY <1>7
        <3>5. QED
            BY <3>3, <3>4 DEF StandsChunkedData, rest
    <2>4. Stands(m, rest)'
        BY <1>1, <1>7, <2>3 DEF Stands, rest
    <2>5. Unread = ((line \o CRLF) \o rest) \o later
        BY <1>2, <1>4
    <2>6. QED
        BY <1>1, <1>4, <1>5, <1>7, <2>4, <2>5, TakesLine
<1>8. QED
    BY <1>6, <1>7, FailStops DEF ParseBodyChunkedSize

\* parse_body_chunked_data takes the data with what follows it, or goes over
\* to the trailers.
LEMMA ChunkedDataWorks ==
    ASSUME Inv, NEW m \in WellFormed, NEW later \in Seq(Symbol), WorksOn(m, later),
           ParseBodyChunkedData
    PROVE  GoesOnWith(m, later)
<1>1. pc = "run" /\ state = "CHUNKED_DATA" /\ UNCHANGED input
    BY DEF ParseBodyChunkedData
<1>2. PICK left \in Seq(Symbol) : Unread = left \o later /\ Stands(m, left)
    BY DEF WorksOn
<1>3. PICK i \in 1 .. Len(m.chunks) :
            /\ chunkLeft = ChunkSize(m.chunks[i].line) /\ chunkLeft \in 0 .. MaxBody
            /\ left = (m.chunks[i].data \o m.chunks[i].tail) \o ChunkRest(m, i)
    BY <1>1, <1>2 DEF Stands, StandsRequestLine, StandsContentLength, StandsChunkedSize,
                      StandsChunkedData, StandsTrailers
<1> DEFINE a == m.chunks[i].data \o m.chunks[i].tail
           rest == ChunkRest(m, i)
<1>4. /\ chunkLeft = 0 => a = << >> /\ i = Len(m.chunks)
      /\ chunkLeft # 0 => Len(a) = chunkLeft + 2 /\ i \in 0 .. Len(m.chunks) - 1
      /\ a \in Seq(Symbol) /\ left = a \o rest
    BY <1>3, ChunkMeans
<1>5. rest \in Seq(Symbol) /\ Len(m.chunks) \in Nat /\ m.trailers \in Seq(TextLine)
    <2>1. Len(m.chunks) \in Nat /\ m.trailers \in Seq(TextLine)
        BY MessageForm
    <2>2. i \in 0 .. Len(m.chunks)
        BY <2>1
    <2>3. QED
        BY <2>1, <2>2, ChunkStep
<1>6. WrapAdd(chunkLeft, 2) = chunkLeft + 2
    BY <1>3, LimitsAssumption DEF WrapAdd
<1>7. chunkLeft = 0 => left = LinesRest(m.trailers, 0)
    <2> SUFFICES ASSUME chunkLeft = 0
                 PROVE  left = LinesRest(m.trailers, 0)
        OBVIOUS
    <2>1. rest = AfterChunks(m)
        <3>1. i = Len(m.chunks) /\ i \in 0 .. Len(m.chunks)
            BY <1>4, <1>5
        <3>2. QED
            BY <3>1, ChunkStep
    <2>2. m.chunks # << >>
        BY <1>5
    <2>3. left = rest
        <3> HIDE DEF a, rest
        <3>1. QED
            BY <1>4, <1>5, TextConcat
    <2>4. QED
        BY <2>1, <2>2, <2>3 DEF AfterChunks
<1>8. chunkLeft + 2 <= Len(left)
    <2>1. CASE chunkLeft = 0
        <3> DEFINE block == LinesRest(m.trailers, 0)
        <3>1. Len(block) >= 2
            <4>1. Starts(m.trailers, Len(m.trailers)) \in Nat
                  /\ Starts(m.trailers, Len(m.trailers)) + 2 = Len(block)
                <5>1. Len(m.trailers) \in 0 .. Len(m.trailers)
                    BY <1>5, LenProperties
                <5>2. QED
                    BY <1>5, <5>1, BlockLayout, StartsGrow
            <4> DEFINE s == Starts(m.trailers, Len(m.trailers))
            <4> HIDE DEF s, block
            <4>2. s \in Nat /\ s + 2 = Len(block)
                BY <4>1 DEF s
            <4>3. QED
                BY <4>2
        <3>2. QED
            BY <1>7, <2>1, <3>1
    <2>2. CASE chunkLeft # 0
        <3> HIDE DEF a, rest
        <3>1. Len(left) = Len(a) + Len(rest) /\ Len(rest) \in Nat /\ Len(a) \in Nat
            BY <1>4, <1>5, Joined
        <3>2. QED
            BY <1>3, <1>4, <2>2, <3>1
    <2>3. QED
        BY <2>1, <2>2
<1>9. Len(view) \in Nat /\ Len(left) \in Nat /\ chunkLeft \in Nat
    <2>1. Len(view) \in Nat
        BY ViewOfUnread
    <2>2. Len(left) \in Nat
        BY LenProperties
    <2>3. chunkLeft \in Nat
        <3> HIDE DEF a, rest
        <3>1. QED
            BY <1>3
    <2>4. QED
        BY <2>1, <2>2, <2>3
<1>10. CASE Missing(chunkLeft + 2) /\ Suspend
    <2>1. Len(view) < Len(left)
        BY <1>8, <1>9, <1>10 DEF Missing
    <2>2. QED
        BY <1>1, <1>2, <1>10, <2>1, SuspendGoesOn
<1>11. CASE /\ chunkLeft = 0 /\ state' = "CHUNKED_TRAILERS"
            /\ UNCHANGED <<pc, window, message, results>>
    <2>1. Unread' = left \o later
        BY <1>1, <1>2, <1>11 DEF Unread, Consumed, input, window
    <2>2. StandsTrailers(m, left)'
        <3>1. 0 \in 0 .. Len(m.trailers)
            BY <1>5, LenProperties
        <3>2. left = LinesRest(m.trailers, 0)
            BY <1>7, <1>11
        <3>3. QED
            BY <1>11, <3>1, <3>2 DEF StandsTrailers
    <2>3. Stands(m, left)' /\ pc' = "run"
        BY <1>1, <1>11, <2>2 DEF Stands
    <2>4. WorksOn(m, later)'
        BY <2>1, <2>3 DEF WorksOn
    <2>5. QED
        BY <1>1, <1>11, <2>4 DEF GoesOnWith, input
<1>12. CASE /\ chunkLeft # 0 /\ ~Missing(chunkLeft + 2) /\ AdvanceView(chunkLeft + 2)
            /\ state' = "CHUNKED_SIZE" /\ UNCHANGED <<pc, headersSize, results>>
    <2>1. Len(a) = chunkLeft + 2 /\ i \in 0 .. Len(m.chunks) - 1
        BY <1>4, <1>12
    <2>2. Len(a) <= Len(view)
        <3> HIDE DEF a
        <3>1. QED
            BY <1>9, <1>12, <2>1 DEF Missing
    <2>3. StandsChunkedSize(m, rest)'
        BY <1>12, <2>1 DEF StandsChunkedSize
    <2>4. Stands(m, rest)'
        BY <1>1, <1>12, <2>3 DEF Stands
    <2>5. Unread = (a \o rest) \o later
        BY <1>2, <1>4
    <2> HIDE DEF a, rest
    <2>6. AdvanceView(Len(a))
        BY <1>12, <2>1
    <2>7. QED
        BY <1>1, <1>4, <1>5, <1>12, <2>2, <2>4, <2>5, <2>6, AdvanceGoesOn
<1>13. QED
    BY <1>6, <1>10, <1>11, <1>12, FailStops DEF ParseBodyChunkedData

\* parse_chunked_trailers takes a line, or the empty one behind the last.
LEMMA TrailersWorks ==
    ASSUME Inv, NEW m \in WellFormed, NEW later \in Seq(Symbol), WorksOn(m, later),
           ParseChunkedTrailers
    PROVE  GoesOnWith(m, later)
<1>1. pc = "run" /\ state = "CHUNKED_TRAILERS" /\ UNCHANGED input
    BY DEF ParseChunkedTrailers
<1>2. PICK left \in Seq(Symbol) : Unread = left \o later /\ Stands(m, left)
    BY DEF WorksOn
<1>3. PICK j \in 0 .. Len(m.trailers) : left = LinesRest(m.trailers, j)
    BY <1>1, <1>2 DEF Stands, StandsRequestLine, StandsContentLength, StandsChunkedSize,
                      StandsChunkedData, StandsTrailers
<1>4. m.trailers \in Seq(TextLine)
    BY MessageForm
<1> DEFINE crlf == Find(view, CRLF)
<1>5. CASE view = << >> /\ UNCHANGED <<pc, state, window, message, results>>
    BY <1>1, <1>5, StayGoesOn
<1>6. ASSUME PullUntil(CRLF, MaxHeaders, "HEADER_TOO_LARGE"), Len(view) < Len(left)
      PROVE  GoesOnWith(m, later)
    BY <1>1, <1>2, <1>6, FailStops, SuspendGoesOn DEF PullUntil
<1>7. CASE j = Len(m.trailers)
    <2> DEFINE none == << >>
    <2>1. none \in Text /\ none \in Seq(Symbol) /\ left = (none \o CRLF) \o none
        <3>1. left = CRLF
            BY <1>3, <1>4, <1>7, LinesStep
        <3>2. none \o CRLF = CRLF /\ CRLF \o none = CRLF
            BY EmptyLine, TextConcat, CRLFLength
        <3>3. QED
            BY <3>1, <3>2, EmptyLine
    <2>2. LineAhead(none, none)
        <3> HIDE DEF none
        <3>1. QED
            BY <1>2, <2>1, FindsLine
    <2>3. crlf # NotFound => crlf = 0
        BY <2>2, EmptyLine DEF LineAhead
    <2>4. crlf = NotFound => Len(view) < Len(left)
        BY <2>1, <2>2 DEF LineAhead
    <2>5. CASE PullUntil(CRLF, MaxHeaders, "HEADER_TOO_LARGE")
        BY <1>6, <2>4, <2>5 DEF PullUntil
    <2>6. CASE /\ crlf = 0 /\ AdvanceView(2) /\ state' = "COMPLETE"
               /\ UNCHANGED <<pc, message, results>>
        <3>1. Stands(m, none)'
            BY <1>1, <2>6 DEF Stands
        <3>2. crlf # NotFound /\ AdvanceView(crlf + 2)
            BY <2>6, EmptyLine
        <3> HIDE DEF none
        <3>3. QED
            BY <1>1, <1>2, <2>1, <2>2, <2>6, <3>1, <3>2, TakesLine
    <2>7. ~(crlf > 0)
        BY <2>3, EmptyLine
    <2>8. QED
        BY <1>5, <2>5, <2>6, <2>7 DEF ParseChunkedTrailers
<1>8. CASE j # Len(m.trailers)
    <2> DEFINE line == m.trailers[j + 1]
               rest == LinesRest(m.trailers, j + 1)
    <2>1. /\ line \in Text /\ Len(line) \in Nat \ {0} /\ rest \in Seq(Symbol)
          /\ left = (line \o CRLF) \o rest /\ j + 1 \in 0 .. Len(m.trailers)
        <3>1. /\ j + 1 \in 0 .. Len(m.trailers) /\ line \in TextLine
              /\ left = (line \o CRLF) \o rest
            BY <1>3, <1>4, <1>8, LinesStep
        <3>2. rest \in Seq(Symbol)
            BY <1>4, <3>1, LinesStep
        <3>3. QED
            BY <3>1, <3>2, TextIsSymbols
    <2> HIDE DEF line, rest
    <2>2. LineAhead(line, rest)
        BY <1>2, <2>1, FindsLine
    <2>3. crlf = NotFound => Len(view) < Len(left)
        BY <2>1, <2>2 DEF LineAhead
    <2>4. crlf # 0
        BY <2>1, <2>2, EmptyLine DEF LineAhead
    <2>5. CASE PullUntil(CRLF, MaxHeaders, "HEADER_TOO_LARGE")
        BY <1>6, <2>3, <2>5 DEF PullUntil
    <2>6. CASE /\ crlf > 0 /\ AdvanceView(crlf + 2)
               /\ UNCHANGED <<pc, state, chunkLeft, headersSize, results>>
        <3>1. StandsTrailers(m, rest)'
            BY <1>1, <2>1, <2>6 DEF StandsTrailers, rest
        <3>2. Stands(m, rest)'
            BY <1>1, <2>6, <3>1 DEF Stands, rest
        <3>3. crlf # NotFound
            BY <2>6, EmptyLine
        <3>4. Unread = ((line \o CRLF) \o rest) \o later
            BY <1>2, <2>1
        <3>5. QED
            BY <1>1, <2>1, <2>2, <2>6, <3>2, <3>3, <3>4, TakesLine
    <2>7. QED
        BY <1>5, <2>4, <2>5, <2>6, FailStops DEF ParseChunkedTrailers
<1>9. QED
    BY <1>7, <1>8

-----------------------------------------------------------------------------
(* A conversation and its stream.                                          *)

\* The messages behind a stream, and their texts.
LEMMA ConversationForm ==
    ASSUME NEW s \in Streams
    PROVE  LET messages == Sent[s]
               parts == WireParts(messages)
           IN  /\ messages \in Conversations /\ messages \in Seq(WellFormed)
               /\ Len(messages) \in Nat
               /\ parts \in Seq(Seq(Symbol)) /\ Len(parts) = Len(messages)
               /\ \A i \in 1 .. Len(messages) : parts[i] = Wire(messages[i])
               /\ s = FlattenSeq(parts)
<1> DEFINE messages == Sent[s]
           parts == WireParts(messages)
           n == Len(messages)
<1>1. \E c \in Conversations : WireOf(c) = s
    BY ConversationsAssumption
<1>2. messages \in Conversations /\ WireOf(messages) = s
    BY <1>1 DEF Sent
<1>3. messages \in Seq(WellFormed)
    BY <1>2, ConversationsAssumption
<1> HIDE DEF messages
<1>4. n \in Nat /\ DOMAIN messages = 1 .. n /\ \A i \in 1 .. n : messages[i] \in WellFormed
    BY <1>3, LenProperties, ElementOfSeq
<1>5. parts = [i \in 1 .. n |-> Wire(messages[i])]
    BY <1>4 DEF WireParts
<1>6. parts \in [1 .. n -> Seq(Symbol)]
    BY <1>4, <1>5, WireFromStart
<1>7. \A i \in 1 .. n : parts[i] = Wire(messages[i])
    BY <1>5
<1>8. s = FlattenSeq(parts)
    BY <1>2 DEF WireOf, WireParts
<1> HIDE DEF parts
<1>9. parts \in Seq(Seq(Symbol)) /\ Len(parts) = n
    BY <1>4, <1>6, PartsForm
<1>10. QED
    BY <1>2, <1>3, <1>4, <1>7, <1>8, <1>9 DEF messages, parts

\* Where message i ends: the text behind it is all that is left.
LEMMA EndsAt ==
    ASSUME NEW s \in Streams, NEW i \in 1 .. Len(Sent[s])
    PROVE  LET behind == Flat(WireParts(Sent[s]), i)
           IN  /\ Ends[s][i] = Len(s) - Len(behind)
               /\ Len(behind) \in Nat /\ Len(s) \in Nat
<1> DEFINE messages == Sent[s]
           parts == WireParts(messages)
           n == Len(messages)
           first == SubSeq(messages, 1, i)
           before == SubSeq(parts, 1, i)
<1>1. /\ messages \in Seq(WellFormed) /\ n \in Nat
      /\ parts \in Seq(Seq(Symbol)) /\ Len(parts) = n
      /\ \A k \in 1 .. n : parts[k] = Wire(messages[k])
      /\ s = FlattenSeq(parts)
    BY ConversationForm
<1>2. i \in 1 .. n
    OBVIOUS
<1>3. Ends[s][i] = Len(WireOf(first))
    <2>1. i \in DOMAIN Sent[s]
        BY <1>1, LenProperties
    <2>2. QED
        BY <2>1 DEF Ends
<1> HIDE DEF messages, parts, n
<1>4. /\ first \in Seq(WellFormed) /\ Len(first) = i
      /\ \A k \in 1 .. i : first[k] = messages[k]
    <2>1. \A k \in 1 .. i : messages[k] \in WellFormed
        BY <1>1, <1>2, ElementOfSeq DEF n
    <2>2. /\ first \in Seq(WellFormed)
          /\ Len(first) = IF 1 <= i THEN i - 1 + 1 ELSE 0
          /\ \A k \in 1 .. i - 1 + 1 : first[k] = messages[1 + k - 1]
        BY <1>1, <1>2, <2>1, SubSeqProperties
    <2> HIDE DEF first
    <2>3. \A k \in 1 .. i : k \in 1 .. i - 1 + 1 /\ 1 + k - 1 = k
        BY <1>1, <1>2
    <2>4. QED
        BY <1>1, <1>2, <2>2, <2>3
<1>5. /\ before \in Seq(Seq(Symbol)) /\ Len(before) = i
      /\ \A k \in 1 .. i : before[k] = parts[k]
    <2>1. \A k \in 1 .. i : parts[k] \in Seq(Symbol)
        BY <1>1, <1>2, ElementOfSeq
    <2>2. /\ before \in Seq(Seq(Symbol))
          /\ Len(before) = IF 1 <= i THEN i - 1 + 1 ELSE 0
          /\ \A k \in 1 .. i - 1 + 1 : before[k] = parts[1 + k - 1]
        BY <1>1, <1>2, <2>1, SubSeqProperties
    <2> HIDE DEF before
    <2>3. \A k \in 1 .. i : k \in 1 .. i - 1 + 1 /\ 1 + k - 1 = k
        BY <1>1, <1>2
    <2>4. QED
        BY <1>1, <1>2, <2>2, <2>3
<1> HIDE DEF first
<1>6. WireParts(first) = before
    <2> DEFINE wires == WireParts(first)
    <2>1. DOMAIN first = 1 .. i
        BY <1>4, LenProperties
    <2>2. wires = [k \in 1 .. i |-> Wire(messages[k])]
        BY <1>4, <2>1 DEF WireParts
    <2> HIDE DEF wires, before
    <2>3. DOMAIN before = 1 .. i /\ before = [k \in DOMAIN before |-> before[k]]
        BY <1>5, LenProperties
    <2>4. \A k \in 1 .. i : before[k] = Wire(messages[k])
        BY <1>1, <1>2, <1>5
    <2>5. before = [k \in 1 .. i |-> Wire(messages[k])]
        BY <2>3, <2>4
    <2>6. QED
        BY <2>2, <2>5 DEF wires
<1>7. WireOf(first) = FlattenSeq(before)
    BY <1>6 DEF WireOf, WireParts
<1>8. /\ FlattenSeq(before) \in Seq(Symbol) /\ Flat(parts, i) \in Seq(Symbol)
      /\ s = FlattenSeq(before) \o Flat(parts, i)
    <2>1. i \in 0 .. Len(parts)
        BY <1>1, <1>2
    <2>2. QED
        BY <1>1, <2>1, FlatStep
<1> DEFINE a == FlattenSeq(before)
           b == Flat(parts, i)
<1> HIDE DEF a, b
<1>9. a \in Seq(Symbol) /\ b \in Seq(Symbol) /\ s = a \o b /\ Ends[s][i] = Len(a)
    BY <1>3, <1>7, <1>8 DEF a, b
<1>10. Len(s) = Len(a) + Len(b) /\ Len(a) \in Nat /\ Len(b) \in Nat
    BY <1>9, Joined
<1>11. Ends[s][i] = Len(s) - Len(b) /\ Len(s) \in Nat
    BY <1>9, <1>10
<1>12. QED
    BY <1>10, <1>11 DEF b, parts, messages

\* The message that is next, in front of those behind it.
LEMMA NextMessage ==
    ASSUME NEW s \in Streams, NEW done \in 0 .. Len(Sent[s])
    PROVE  LET messages == Sent[s]
               parts == WireParts(messages)
           IN  /\ Flat(parts, done) \in Seq(Symbol) /\ Flat(parts, 0) = s
               /\ done = Len(messages) => Flat(parts, done) = << >>
               /\ done # Len(messages) =>
                    /\ done + 1 \in 1 .. Len(messages)
                    /\ messages[done + 1] \in WellFormed
                    /\ LeadRest(messages[done + 1], 0) \in Seq(Symbol)
                    /\ Flat(parts, done + 1) \in Seq(Symbol)
                    /\ Flat(parts, done) =
                            LeadRest(messages[done + 1], 0) \o Flat(parts, done + 1)
<1> DEFINE messages == Sent[s]
           parts == WireParts(messages)
           n == Len(messages)
<1>1. /\ messages \in Seq(WellFormed) /\ n \in Nat
      /\ parts \in Seq(Seq(Symbol)) /\ Len(parts) = n
      /\ \A k \in 1 .. n : parts[k] = Wire(messages[k])
      /\ s = FlattenSeq(parts)
    BY ConversationForm
<1>2. done \in 0 .. n
    OBVIOUS
<1> HIDE DEF messages, parts, n
<1>3. done \in 0 .. Len(parts)
    BY <1>1, <1>2
<1>4. /\ Flat(parts, done) \in Seq(Symbol) /\ Flat(parts, 0) = s
      /\ done = n => Flat(parts, done) = << >>
    BY <1>1, <1>3, FlatStep
<1>5. CASE done # n
    <2>1. done + 1 \in 1 .. n
        BY <1>1, <1>2, <1>5
    <2>2. messages[done + 1] \in WellFormed
        BY <1>1, <2>1, ElementOfSeq DEF n
    <2>3. /\ done + 1 \in 0 .. Len(parts)
          /\ Flat(parts, done) = parts[done + 1] \o Flat(parts, done + 1)
        BY <1>1, <1>3, <1>5, FlatStep
    <2>4. Flat(parts, done + 1) \in Seq(Symbol)
        BY <1>1, <2>3, FlatStep
    <2>5. parts[done + 1] = LeadRest(messages[done + 1], 0)
          /\ LeadRest(messages[done + 1], 0) \in Seq(Symbol)
        BY <1>1, <2>1, <2>2, WireFromStart
    <2>6. QED
        BY <1>4, <2>1, <2>2, <2>3, <2>4, <2>5 DEF messages, parts, n
<1>6. QED
    BY <1>4, <1>5 DEF messages, parts, n

-----------------------------------------------------------------------------
(* The invariant: where the parser stands, in every state.                 *)

\* The parser has answered the first messages and is at work on the next one,
\* which begins what it has not used up.
StandsIn(messages, done) ==
    /\ done = Len(messages) => state = "REQUEST_LINE" /\ Unread = << >>
    /\ done # Len(messages) =>
            WorksOn(messages[done + 1], Flat(WireParts(messages), done + 1))

\* Where the parser stands: the inductive invariant, with Inv.
Where ==
    /\ stream \in Streams
    /\ pc # "stopped" =>
            \E messages \in Conversations, done \in 0 .. Len(Sent[stream]) :
                /\ messages = Sent[stream] /\ done = Answered
                /\ StandsIn(messages, done)

\* What a step leaves behind.
StandsNext(messages, done) ==
    \/ pc' = "stopped"
    \/ /\ Answered' = done /\ done \in 0 .. Len(messages)
       /\ StandsIn(messages, done)'

\* At the start of a message.
LEMMA BetweenMessages ==
    ASSUME NEW s \in Streams, NEW done \in 0 .. Len(Sent[s]),
           state = "REQUEST_LINE", pc = "idle", Unread = Flat(WireParts(Sent[s]), done)
    PROVE  StandsIn(Sent[s], done)
<1> DEFINE messages == Sent[s]
           m == messages[done + 1]
           later == Flat(WireParts(messages), done + 1)
<1>1. CASE done = Len(messages)
    BY <1>1, NextMessage DEF StandsIn
<1>2. CASE done # Len(messages)
    <2> DEFINE left == LeadRest(m, 0)
    <2>1. m \in WellFormed /\ left \in Seq(Symbol) /\ Unread = left \o later
        BY <1>2, NextMessage
    <2> HIDE DEF messages, m, later
    <2>2. StandsRequestLine(m, left)
        <3>1. 0 \in 0 .. m.lead
            BY <2>1, MessageForm
        <3>2. QED
            BY <3>1 DEF StandsRequestLine
    <2>3. Stands(m, left)
        BY <2>2 DEF Stands
    <2>4. WorksOn(m, later)
        <3> HIDE DEF left
        <3>1. QED
            BY <2>1, <2>3 DEF WorksOn
    <2>5. QED
        BY <1>2, <2>4 DEF StandsIn, messages, m, later
<1>3. QED
    BY <1>1, <1>2

\* Behind a message it is the start of the next one.
LEMMA NextMessageStarts ==
    ASSUME NEW s \in Streams, NEW done \in 0 .. Len(Sent[s]),
           state' = "REQUEST_LINE", pc' = "idle", Unread' = Flat(WireParts(Sent[s]), done)
    PROVE  StandsIn(Sent[s], done)'
<1> DEFINE messages == Sent[s]
           m == messages[done + 1]
           later == Flat(WireParts(messages), done + 1)
<1>1. CASE done = Len(messages)
    BY <1>1, NextMessage DEF StandsIn
<1>2. CASE done # Len(messages)
    <2> DEFINE left == LeadRest(m, 0)
    <2>1. m \in WellFormed /\ left \in Seq(Symbol) /\ Unread' = left \o later
        BY <1>2, NextMessage
    <2> HIDE DEF messages, m, later
    <2>2. StandsRequestLine(m, left)'
        <3>1. 0 \in 0 .. m.lead
            BY <2>1, MessageForm
        <3>2. QED
            BY <3>1 DEF StandsRequestLine, m, later, messages
    <2>3. Stands(m, left)'
        BY <2>2 DEF Stands, m, later, messages
    <2>4. WorksOn(m, later)'
        <3> HIDE DEF left
        <3>1. QED
            BY <2>1, <2>3 DEF WorksOn, left, m, later, messages
    <2>5. QED
        BY <1>2, <2>4 DEF StandsIn, messages, m, later
<1>3. QED
    BY <1>1, <1>2

\* A handler that works on the message that is next.
LEMMA HandlerWorks ==
    ASSUME Inv, NEW m \in WellFormed, NEW later \in Seq(Symbol), WorksOn(m, later),
           Parse, state # "COMPLETE"
    PROVE  GoesOnWith(m, later)
<1>1. ~Complete
    BY DEF Complete
<1>2. QED
    BY <1>1, RequestLineWorks, HeadersWorks, ContentLengthWorks, ChunkedSizeWorks,
       ChunkedDataWorks, TrailersWorks DEF Parse

\* With nothing left in the stream there is only waiting for more, or an end.
LEMMA NothingToParse ==
    ASSUME Inv, Parse, state = "REQUEST_LINE", Unread = << >>
    PROVE  \/ pc' = "stopped"
           \/ /\ stream' = stream /\ results' = results /\ state' = "REQUEST_LINE"
              /\ Unread' = << >>
<1>1. ParseRequestLine
    BY DEF Parse, ParseHeaders, ParseBodyContentLength, ParseBodyChunkedSize,
           ParseBodyChunkedData, ParseChunkedTrailers, Complete
<1>2. Find(view, CRLF) = NotFound
    <2>1. Len(view) = 0 /\ view \in Seq(Symbol)
        <3>1. Len(view) <= Len(Unread) /\ Len(view) \in Nat /\ view \in Seq(Symbol)
            BY ViewOfUnread DEF Begins
        <3>2. Len(Unread) = 0
            BY EmptyLine
        <3>3. QED
            BY <3>1, <3>2
    <2>2. ASSUME NEW p \in 0 .. Len(view)
          PROVE  ~OccursAt(view, CRLF, p)
        <3>1. p \in Nat /\ ~(p + 2 <= Len(view))
            BY <2>1
        <3>2. QED
            BY <2>1, <3>1, CRLFOccurs
    <2>3. QED
        BY <2>1, <2>2, FindIs
<1>3. PullUntil(CRLF, MaxHeaders, "HEADER_TOO_LARGE")
    BY <1>1, <1>2, EmptyLine DEF ParseRequestLine
<1>4. CASE Fail("HEADER_TOO_LARGE")
    BY <1>4 DEF Fail
<1>5. CASE Suspend
    BY <1>1, <1>5 DEF Suspend, ParseRequestLine, input, window, Unread, Consumed
<1>6. QED
    BY <1>3, <1>4, <1>5 DEF PullUntil

\* A request is returned where its message ends, and the next one starts there.
LEMMA CompleteAtEnd ==
    ASSUME Inv, Complete, stream \in Streams, NEW messages, NEW done \in 0 .. Len(Sent[stream]),
           messages = Sent[stream], done = Answered, StandsIn(messages, done)
    PROVE  StandsNext(messages, done + 1)
<1> DEFINE m == messages[done + 1]
           later == Flat(WireParts(messages), done + 1)
<1>1. pc = "run" /\ state = "COMPLETE" /\ stream' = stream /\ received' = received
    BY DEF Complete, input
<1>2. done # Len(messages) /\ WorksOn(m, later)
    BY <1>1 DEF StandsIn
<1>3. PICK left \in Seq(Symbol) : Unread = left \o later /\ Stands(m, left)
    BY <1>2 DEF WorksOn
<1>4. left = << >>
    BY <1>1, <1>3 DEF Stands, StandsRequestLine, StandsContentLength, StandsChunkedSize,
                      StandsChunkedData, StandsTrailers
<1>5. later \in Seq(Symbol) /\ done + 1 \in 0 .. Len(messages) /\ Len(messages) \in Nat
    <2>1. later \in Seq(Symbol) /\ done + 1 \in 1 .. Len(messages) /\ Len(messages) \in Nat
        BY <1>2, NextMessage, ConversationForm
    <2>2. QED
        BY <2>1
<1>6. Unread = later
    <2> HIDE DEF later
    <2>1. QED
        BY <1>3, <1>4, <1>5, TextConcat
<1>7. view' = view
    <2>1. view' = SubSeq(buffer, viewStart + 1, Len(buffer))
        BY DEF Complete, EraseConsumed
    <2>2. QED
        BY <2>1 DEF Inv, WindowOK
<1>8. Unread' = later
    <2>1. Unread' = Unread
        BY <1>1, <1>7 DEF Unread, Consumed
    <2>2. QED
        BY <1>6, <2>1
<1>9. Answered' = done + 1
    <2> DEFINE result == [tag |-> "request", req |-> req]
    <2>1. results' = Append(results, result) /\ results \in Seq(Result)
        BY DEF Complete, Return, Inv, TypeOK
    <2>2. result \in Result
        BY DEF Inv, TypeOK, Result, ResultTags
    <2> HIDE DEF result
    <2>3. Len(results') = Len(results) + 1
        BY <2>1, <2>2, AppendProperties
    <2>4. QED
        BY <2>3 DEF Answered
<1>10. state' = "REQUEST_LINE" /\ pc' = "idle"
    BY DEF Complete, Reset
<1>11. StandsIn(messages, done + 1)'
    <2>1. PICK s \in Streams : s = stream
        OBVIOUS
    <2>2. messages = Sent[s]
        BY <2>1
    <2> DEFINE after == done + 1
    <2>3. after \in 0 .. Len(Sent[s]) /\ Unread' = Flat(WireParts(Sent[s]), after)
        BY <1>5, <1>8, <2>2
    <2> HIDE DEF after
    <2>4. StandsIn(Sent[s], after)'
        BY <1>10, <2>3, NextMessageStarts
    <2>5. QED
        BY <2>2, <2>4 DEF after
<1>12. QED
    BY <1>5, <1>9, <1>11 DEF StandsNext

\* Any step of a parser that is not stopped.
LEMMA StepStands ==
    ASSUME Inv, stream \in Streams, pc # "stopped", Next,
           NEW messages, NEW done \in 0 .. Len(Sent[stream]),
           messages = Sent[stream], done = Answered, StandsIn(messages, done)
    PROVE  /\ stream' = stream
           /\ StandsNext(messages, done) \/ StandsNext(messages, done + 1)
<1> DEFINE m == messages[done + 1]
           later == Flat(WireParts(messages), done + 1)
<1>1. stream' = stream
    BY DEF Next, Parse, ParseRequestLine, ParseHeaders, ParseBodyContentLength,
           ParseBodyChunkedSize, ParseBodyChunkedData, ParseChunkedTrailers, Complete,
           CallNext, Pull, PullData, PullFails, Stopped, input, vars
<1>2. done # Len(messages) => m \in WellFormed /\ later \in Seq(Symbol) /\ WorksOn(m, later)
    BY NextMessage DEF StandsIn
<1>3. done = Len(messages) => state = "REQUEST_LINE" /\ Unread = << >>
    BY DEF StandsIn
<1>4. ASSUME stream' = stream, results' = results,
             done # Len(messages) => WorksOn(m, later)',
             done = Len(messages) => state' = "REQUEST_LINE" /\ Unread' = << >>
      PROVE  StandsNext(messages, done)
    <2>1. Answered' = done
        BY <1>4 DEF Answered
    <2>2. StandsIn(messages, done)'
        BY <1>4 DEF StandsIn
    <2>3. QED
        BY <2>1, <2>2 DEF StandsNext
<1> HIDE DEF m, later
<1>5. CASE Parse
    <2>1. CASE done # Len(messages) /\ state # "COMPLETE"
        <3>1. GoesOnWith(m, later)
            BY <1>2, <1>5, <2>1, HandlerWorks
        <3>2. QED
            BY <1>1, <1>4, <2>1, <3>1 DEF GoesOnWith, StandsNext
    <2>2. CASE done # Len(messages) /\ state = "COMPLETE"
        <3>1. Complete
            BY <1>5, <2>2 DEF Parse, ParseRequestLine, ParseHeaders, ParseBodyContentLength,
                     ParseBodyChunkedSize, ParseBodyChunkedData, ParseChunkedTrailers
        <3>2. QED
            BY <1>1, <3>1, CompleteAtEnd
    <2>3. CASE done = Len(messages)
        BY <1>1, <1>3, <1>4, <1>5, <2>3, NothingToParse DEF StandsNext
    <2>4. QED
        BY <2>1, <2>2, <2>3
<1>6. CASE CallNext
    <2>1. Unread' = Unread /\ results' = results /\ state' = state /\ pc' = "run"
        BY <1>6 DEF CallNext, Unread, Consumed, input, window
    <2>2. ASSUME WorksOn(m, later)
          PROVE  WorksOn(m, later)'
        BY <1>6, <2>1, <2>2 DEF WorksOn, Stands, StandsRequestLine, StandsContentLength,
            StandsChunkedSize, StandsChunkedData, StandsTrailers, CallNext, window, message
    <2>3. QED
        BY <1>1, <1>2, <1>3, <1>4, <2>1, <2>2
<1>7. CASE Pull
    <2>1. PICK n \in 1 .. ReadSize : PullData(n)
        BY <1>7 DEF Pull
    <2>2. Consumed' = Consumed
        BY <2>1, PullKeepsConsumed
    <2>3. /\ Unread' = Unread /\ results' = results /\ state' = state /\ pc' = "run"
          /\ req' = req /\ chunkLeft' = chunkLeft /\ pc = "pull"
        BY <1>1, <2>1, <2>2, UnreadStays DEF PullData, message
    <2>4. ASSUME WorksOn(m, later)
          PROVE  WorksOn(m, later)'
        BY <2>3, <2>4 DEF WorksOn, Stands, StandsRequestLine, StandsContentLength,
            StandsChunkedSize, StandsChunkedData, StandsTrailers
    <2>5. QED
        BY <1>1, <1>2, <1>3, <1>4, <2>3, <2>4
<1>8. CASE PullFails
    BY <1>1, <1>8 DEF PullFails, Fail, StandsNext
<1>9. ~Stopped
    BY DEF Stopped
<1>10. QED
    BY <1>5, <1>6, <1>7, <1>8, <1>9 DEF Next

\* It holds at the start.
LEMMA InitWhere == Init => Where
<1> SUFFICES ASSUME Init
             PROVE  Where
    OBVIOUS
<1>1. /\ stream \in Streams /\ pc = "idle" /\ state = "REQUEST_LINE"
      /\ results = << >> /\ view = << >> /\ received = 0
    BY DEF Init
<1>2. PICK s \in Streams : s = stream
    BY <1>1
<1>3. Answered = 0
    BY <1>1 DEF Answered
<1>4. Len(Sent[s]) \in Nat /\ 0 \in 0 .. Len(Sent[s]) /\ Sent[s] \in Conversations
    <2>1. Len(Sent[s]) \in Nat /\ Sent[s] \in Conversations
        BY ConversationForm
    <2>2. QED
        BY <2>1
<1>5. Unread = Flat(WireParts(Sent[s]), 0)
    <2>1. Consumed = 0
        <3>1. Len(view) = 0
            BY <1>1, EmptyLine
        <3>2. Consumed = received - Len(view)
            BY DEF Consumed
        <3>3. QED
            BY <1>1, <3>1, <3>2
    <2>2. Unread = SubSeq(stream, 1, Len(stream))
        BY <2>1 DEF Unread
    <2>3. stream \in Seq(Symbol)
        BY <1>1, StreamsAssumption
    <2>4. Unread = s
        BY <1>2, <2>2, <2>3, SubSeqFull
    <2>5. QED
        BY <1>4, <2>4, NextMessage
<1>6. StandsIn(Sent[s], 0)
    BY <1>1, <1>4, <1>5, BetweenMessages
<1>7. QED
    BY <1>1, <1>2, <1>3, <1>4, <1>6 DEF Where

\* Every step keeps it.
LEMMA NextWhere == Inv /\ Where /\ [Next]_vars => Where'
<1> SUFFICES ASSUME Inv, Where, [Next]_vars
             PROVE  Where'
    OBVIOUS
<1>1. stream \in Streams
    BY DEF Where
<1>2. CASE pc = "stopped"
    <2>1. stream' = stream /\ pc' = "stopped"
        BY <1>2 DEF Next, Parse, ParseRequestLine, ParseHeaders, ParseBodyContentLength,
            ParseBodyChunkedSize, ParseBodyChunkedData, ParseChunkedTrailers, Complete,
            CallNext, Pull, PullData, PullFails, Stopped, input, vars
    <2>2. QED
        BY <1>1, <2>1 DEF Where
<1>3. CASE pc # "stopped"
    <2>1. PICK messages \in Conversations, done \in 0 .. Len(Sent[stream]) :
                /\ messages = Sent[stream] /\ done = Answered
                /\ StandsIn(messages, done)
        BY <1>3 DEF Where
    <2>2. ASSUME stream' = stream, StandsNext(messages, done)
          PROVE  Where'
        BY <1>1, <2>1, <2>2 DEF Where, StandsNext
    <2>3. ASSUME stream' = stream, StandsNext(messages, done + 1)
          PROVE  Where'
        BY <1>1, <2>1, <2>3 DEF Where, StandsNext
    <2>4. CASE Next
        BY <1>1, <1>3, <2>1, <2>2, <2>3, <2>4, StepStands
    <2>5. CASE UNCHANGED vars
        <3>1. /\ Unread' = Unread /\ stream' = stream /\ results' = results /\ state' = state
              /\ pc' = pc /\ req' = req /\ chunkLeft' = chunkLeft /\ view' = view
            BY <2>5 DEF vars, input, window, message, Unread, Consumed
        <3>2. StandsIn(messages, done)'
            BY <2>1, <3>1 DEF StandsIn, WorksOn, Stands, StandsRequestLine,
                StandsContentLength, StandsChunkedSize, StandsChunkedData, StandsTrailers
        <3>3. QED
            BY <2>1, <2>2, <3>1, <3>2 DEF StandsNext, Answered
    <2>6. QED
        BY <2>4, <2>5
<1>4. QED
    BY <1>2, <1>3

\* What it means between two calls and while the parser waits.
LEMMA WhereMeans == Inv /\ Where => ConsumesWholeMessages /\ PullsOnlyForMore
<1> SUFFICES ASSUME Inv, Where, pc # "stopped"
             PROVE  ConsumesWholeMessages /\ PullsOnlyForMore
    BY DEF ConsumesWholeMessages, PullsOnlyForMore
<1>1. stream \in Streams
    BY DEF Where
<1>2. PICK messages \in Conversations, done \in 0 .. Len(Sent[stream]) :
            /\ messages = Sent[stream] /\ done = Answered
            /\ StandsIn(messages, done)
    BY DEF Where
<1>3. PICK s \in Streams : s = stream
    BY <1>1
<1> DEFINE m == messages[done + 1]
           here == Flat(WireParts(messages), done)
           later == Flat(WireParts(messages), done + 1)
           n == Len(stream)
<1>4. /\ n \in Nat /\ Consumed \in 0 .. n /\ Len(Unread) = n - Consumed
      /\ received = Consumed + Len(view) /\ Len(view) \in Nat
    BY ViewOfUnread
<1>5. /\ done = Len(messages) => here = << >>
      /\ done # Len(messages) =>
            /\ m \in WellFormed /\ later \in Seq(Symbol) /\ done + 1 \in 1 .. Len(messages)
            /\ here = LeadRest(m, 0) \o later
    BY <1>2, <1>3, NextMessage
<1>6. done # Len(messages) => WorksOn(m, later)
    BY <1>2 DEF StandsIn
<1>7. ConsumesWholeMessages
    <2> SUFFICES ASSUME pc = "idle", done > 0
                 PROVE  Consumed = Ends[stream][done]
        BY <1>2 DEF ConsumesWholeMessages
    <2>1. Unread = here
        <3>1. CASE done = Len(messages)
            BY <1>2, <1>5, <3>1 DEF StandsIn
        <3>2. CASE done # Len(messages)
            <4>1. PICK left \in Seq(Symbol) : Unread = left \o later /\ Stands(m, left)
                BY <1>6, <3>2 DEF WorksOn
            <4>2. state = "REQUEST_LINE"
                BY <4>1 DEF Stands
            <4>3. left = LeadRest(m, 0)
                BY <4>1, <4>2 DEF Stands, StandsRequestLine, StandsContentLength,
                    StandsChunkedSize, StandsChunkedData, StandsTrailers
            <4>4. QED
                BY <1>5, <3>2, <4>1, <4>3
        <3>3. QED
            BY <3>1, <3>2
    <2>2. Ends[stream][done] = n - Len(here) /\ Len(here) \in Nat
        <3>1. done \in 1 .. Len(Sent[s])
            BY <1>2, <1>3
        <3>2. QED
            BY <1>2, <1>3, <3>1, EndsAt
    <2> HIDE DEF n, here
    <2>3. QED
        BY <1>4, <2>1, <2>2
<1>8. PullsOnlyForMore
    <2> SUFFICES ASSUME pc = "pull", done < Len(messages)
                 PROVE  received < Ends[stream][done + 1]
        BY <1>2 DEF PullsOnlyForMore
    <2>1. done # Len(messages)
        BY <1>2, <1>3, ConversationForm
    <2>2. PICK left \in Seq(Symbol) : Unread = left \o later /\ Len(view) < Len(left)
        BY <1>6, <2>1 DEF WorksOn
    <2>3. Ends[stream][done + 1] = n - Len(later) /\ Len(later) \in Nat
        <3> DEFINE next == done + 1
        <3>1. next \in 1 .. Len(Sent[s])
            BY <1>2, <1>3, <1>5, <2>1
        <3> HIDE DEF next
        <3>2. Ends[s][next] = Len(s) - Len(Flat(WireParts(Sent[s]), next))
              /\ Len(Flat(WireParts(Sent[s]), next)) \in Nat
            BY <3>1, EndsAt
        <3>3. QED
            BY <1>2, <1>3, <3>2 DEF next
    <2>4. later \in Seq(Symbol)
        BY <1>5, <2>1
    <2> HIDE DEF later, n
    <2>5. Len(Unread) = Len(left) + Len(later) /\ Len(left) \in Nat
        BY <2>2, <2>4, Joined
    <2>6. QED
        BY <1>4, <2>2, <2>3, <2>5
<1>9. QED
    BY <1>7, <1>8

-----------------------------------------------------------------------------
(* The theorems about conversations.                                       *)

\* Between two calls of next() the parser has used up exactly the messages it
\* has answered, whatever is in them and wherever the reads end (the erase of
\* lines 141-146 after every way a body can be framed).
THEOREM ParserConsumesWhole == Spec => []ConsumesWholeMessages
<1>1. Inv /\ Where => ConsumesWholeMessages
    BY WhereMeans
<1>2. QED
    BY <1>1, InitWhere, NextWhere, ParserInvariant, PTL DEF Spec

\* The parser waits for a read only while a part of the message it works on is
\* missing (lines 376, 419, 508-517).
THEOREM ParserPullsForMore == Spec => []PullsOnlyForMore
<1>1. Inv /\ Where => PullsOnlyForMore
    BY WhereMeans
<1>2. QED
    BY <1>1, InitWhere, NextWhere, ParserInvariant, PTL DEF Spec

=============================================================================
