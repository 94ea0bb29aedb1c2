---------------------------- MODULE HttpMessages ----------------------------
(***************************************************************************)
(* The messages a client sends, as structures, how they are written, and   *)
(* the answers each one calls for.  This is the reference the parser is    *)
(* compared with: it knows where a message begins and ends because it was  *)
(* built that way, and never looks for a line end in a buffer.             *)
(*                                                                         *)
(*   lead      empty lines before the message                              *)
(*   line      the request line                                            *)
(*   headers   the header lines                                            *)
(*   body      the body bytes that follow the head                         *)
(*   chunks    [line, data, tail]: size line, data, and what follows them  *)
(*   trailers  the trailer lines; they are written when there are chunks   *)
(***************************************************************************)
EXTENDS HttpSyntax, SequencesExt

\* Text without a line end, and lines of it.
Text == Seq(Symbol \ {CR, LF})
TextLine == Text \ {<<>>}

Messages ==
    [lead : Nat, line : TextLine, headers : Seq(TextLine), body : Seq(Symbol),
     chunks : Seq([line : Text, data : Seq(Symbol), tail : Seq(Symbol)]),
     trailers : Seq(TextLine)]

Pads(n) == [i \in 1 .. n |-> Sym("pad", 0)]
Line(kind, val, length) == <<Sym(kind, val)>> \o Pads(length - 1)
Data(n) == [i \in 1 .. n |-> Sym("data", i)]
Chunk(size, length) ==
    [line |-> Line("size", size, length), data |-> Data(size), tail |-> CRLF]
LastChunk(length) ==
    [line |-> Line("size", 0, length), data |-> <<>>, tail |-> <<>>]

Message(line, headers, body, chunks, trailers) ==
    [lead |-> 0, line |-> line, headers |-> headers, body |-> body,
     chunks |-> chunks, trailers |-> trailers]

Lines(lines) == FlattenSeq([i \in DOMAIN lines |-> lines[i] \o CRLF])
Block(m) == IF m.headers = <<>> THEN <<>> ELSE Lines(m.headers) \o CRLF

Wire(m) ==
    FlattenSeq([i \in 1 .. m.lead |-> CRLF])
    \o m.line \o CRLF \o Lines(m.headers) \o CRLF \o m.body
    \o FlattenSeq([i \in DOMAIN m.chunks |->
            m.chunks[i].line \o CRLF \o m.chunks[i].data \o m.chunks[i].tail])
    \o (IF m.chunks = <<>> THEN <<>> ELSE Lines(m.trailers) \o CRLF)

HasHeader(m, kind) == \E i \in DOMAIN m.headers : Head(m.headers[i]).kind = kind
LastValue(m, kind) ==
    m.headers[Max({i \in DOMAIN m.headers : Head(m.headers[i]).kind = kind})][1].val

\* What follows a head or a size line is as long as the line says, where it
\* says so and the parser may take it; only the last chunk is of size 0.
Framed(m) ==
    LET sized == HasHeader(m, "clen")
        length == LastValue(m, "clen")
        chunked == ~sized /\ HasHeader(m, "tenc") /\ LastValue(m, "tenc") = 1
    IN  /\ ~sized => m.body = <<>>
        /\ sized /\ length \in 0 .. MaxBody => Len(m.body) = length
        /\ m.chunks # <<>> <=> chunked
        /\ m.trailers # <<>> => chunked
        /\ \A i \in DOMAIN m.chunks :
                LET chunk == m.chunks[i]
                    size == ChunkSize(chunk.line)
                IN  size \in 0 .. MaxBody =>
                        /\ Len(chunk.data) = size
                        /\ Len(chunk.tail) = IF size = 0 THEN 0 ELSE 2
                        /\ size = 0 <=> i = Len(m.chunks)

WellFormed == {m \in Messages : Framed(m)}

-----------------------------------------------------------------------------
(* A message passes through stages; each may let it go on ("ok"), refuse   *)
(* it, or do either.  It does either where the code's limit applies to the *)
(* bytes received so far, so that the answer hangs on the reads: an empty  *)
(* header block with no room for the CR, a size or a trailer line whose    *)
(* length is the limit or more.                                            *)

Refused(condition, error) == IF condition THEN {error} ELSE {"ok"}
Torn(condition, error) == IF condition THEN {"ok", error} ELSE {"ok"}

HeaderStage(line) == {HeaderVerdict(line)}

SizeOf(m) == Len(m.line) + 2

HeadStages(m) ==
    LET sized == HasHeader(m, "clen")
        encoded == HasHeader(m, "tenc")
        length == LastValue(m, "clen")
    IN  <<Refused(SizeOf(m) > MaxHeaders, "HEADER_TOO_LARGE"),
          Refused(Head(m.line).kind # "line", "INVALID_REQUEST_LINE"),
          Torn(m.headers = <<>> /\ SizeOf(m) = MaxHeaders, "HEADER_TOO_LARGE"),
          Refused(SizeOf(m) + Len(Block(m)) > MaxHeaders, "HEADER_TOO_LARGE")>>
        \o [i \in DOMAIN m.headers |-> HeaderStage(m.headers[i])]
        \o <<Refused(sized /\ encoded, "INVALID_HEADER"),
             Refused(encoded /\ LastValue(m, "tenc") # 1, "UNSUPPORTED_TRANSFER_ENCODING"),
             Refused(sized /\ length < 0, "INVALID_HEADER"),
             Refused(sized /\ length > MaxBody, "CONTENT_TOO_LARGE")>>

ChunkStages(m, i) ==
    LET chunk == m.chunks[i]
        before == Len(FlattenSeq([j \in 1 .. i - 1 |-> m.chunks[j].data]))
        size == ChunkSize(chunk.line)
    IN  <<Torn(Len(chunk.line) >= MaxSizeLine, "INVALID_CHUNK_ENCODING"),
          Refused(size < 0, "INVALID_CHUNK_ENCODING"),
          Refused(before + size > MaxBody, "CONTENT_TOO_LARGE"),
          Refused(size > 0 /\ chunk.tail # CRLF, "INVALID_CHUNK_ENCODING")>>

TrailerStages(m, i) ==
    <<Torn(Len(m.trailers[i]) >= MaxHeaders, "HEADER_TOO_LARGE"),
      HeaderStage(m.trailers[i])>>

Stages(m) ==
    HeadStages(m)
    \o FlattenSeq([i \in DOMAIN m.chunks |-> ChunkStages(m, i)])
    \o FlattenSeq([i \in DOMAIN m.trailers |-> TrailerStages(m, i)])

Passes(stage) == "ok" \in stage

\* The tags of the answers: those of the stages up to the first that refuses.
Tags(m) ==
    LET stages == Stages(m)
        reached == {i \in DOMAIN stages : \A j \in 1 .. i - 1 : Passes(stages[j])}
        errors == UNION {stages[i] : i \in reached} \ {"ok"}
    IN  IF \A i \in DOMAIN stages : Passes(stages[i])
        THEN errors \cup {"request"} ELSE errors

\* What the application is to see of the message, with each possible tag.
Answers(m) ==
    {[tag |-> tag,
      line |-> IF tag = "request" THEN m.line ELSE <<>>,
      headers |-> IF tag = "request" THEN Block(m) ELSE <<>>,
      body |-> IF tag # "request" THEN <<>>
               ELSE m.body \o FlattenSeq([i \in DOMAIN m.chunks |-> m.chunks[i].data]),
      trailers |-> IF tag # "request" THEN <<>> ELSE m.trailers]
        : tag \in Tags(m)}

=============================================================================
