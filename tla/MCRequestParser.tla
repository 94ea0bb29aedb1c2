-------------------------- MODULE MCRequestParser --------------------------
(***************************************************************************)
(* RequestParser over a menu of messages, for TLC.  A connection carries a *)
(* plain request and then a message of the menu, or a message of the menu  *)
(* and then a plain request.  A read returns any number of bytes, so every *)
(* way to cut the stream into reads occurs.                                *)
(***************************************************************************)
EXTENDS Conversations

CONSTANT Menus          \* which of the menus below

Get(length) == Line("line", 0, length)
H(kind, val) == Line(kind, val, 1)
Msg(headers, body, chunks, trailers) ==
    Message(Get(1), headers, body, chunks, trailers)

Simple(line) == Message(line, <<>>, <<>>, <<>>, <<>>)
Headed(headers) == Msg(headers, <<>>, <<>>, <<>>)
Sized(n, body) == Msg(<<H("clen", n)>>, body, <<>>, <<>>)
Chunked(chunks, trailers) == Msg(<<H("tenc", 1)>>, <<>>, chunks, trailers)

\* The head: lengths around MaxHeaders, empty lines, lines that are refused.
HeadMenu ==
    {Simple(Get(n)) : n \in {1} \cup MaxHeaders - 3 .. MaxHeaders}
    \cup {[Simple(Get(1)) EXCEPT !.lead = n] : n \in 1 .. 2}
    \cup {Headed(<<Line("head", 1, n)>>) : n \in MaxHeaders - 8 .. MaxHeaders - 6}
    \cup {Headed(<<H("head", 1), h>>) :
            h \in {H("head", 2), H("junk", 0), H("cookie", 0), H("cookie", 1),
                   H("cookie", 2)}}
    \cup {Simple(Line("junk", 0, 2))}

\* Bodies with a Content-Length, also one that reads like a request, and the
\* headers that do not frame a body.
BodyMenu ==
    {Sized(n, Data(n)) : n \in 0 .. MaxBody}
    \cup {Sized(3, Get(1) \o CRLF)}
    \cup {Sized(n, <<>>) : n \in {-1, MaxBody + 1, Word - 1}}
    \cup {Headed(<<H("clen", 0), H("tenc", 1)>>), Headed(<<H("tenc", 0)>>),
          Msg(<<H("clen", 0), H("clen", 1)>>, Data(1), <<>>, <<>>)}

\* Chunks: sizes that fit, exceed the limit, wrap or do not parse; a missing
\* CRLF; data that reads like the end of the body; long size lines.
ChunkMenu ==
    LET end == LastChunk(1)
        bad(n) == [line |-> Line("size", n, 1), data |-> <<>>, tail |-> <<>>]
        like == [Chunk(3, 1) EXCEPT !.data = H("size", 0) \o CRLF]
        open == [Chunk(1, 1) EXCEPT !.tail = <<Sym("data", 9), LF>>]
    IN  {Chunked(<<Chunk(2, 1), Chunk(n, 2), end>>, <<>>) : n \in 1 .. 2}
        \cup {Chunked(<<Chunk(1, 1), bad(n)>>, <<>>) :
                n \in {-1, MaxBody + 1, Word - 1}}
        \cup {Chunked(<<chunk, end>>, <<>>) : chunk \in {like, open}}
        \cup {Chunked(<<LastChunk(n)>>, <<>>) : n \in 1 .. MaxSizeLine + 1}

\* Trailers: none, some, a cookie among them, refused ones, long ones.
TrailerMenu ==
    LET with(trailers) == Chunked(<<LastChunk(1)>>, trailers)
    IN  {with(<<H("head", 1), h>>) :
            h \in {H("head", 2), H("junk", 0), H("cookie", 1), H("cookie", 2)}}
        \cup {with(<<Line("head", 1, n)>>) : n \in MaxHeaders - 1 .. MaxHeaders}

Menu ==
    UNION {CASE menu = "head" -> HeadMenu
             [] menu = "body" -> BodyMenu
             [] menu = "chunks" -> ChunkMenu
             [] menu = "trailers" -> TrailerMenu : menu \in Menus}

Plain == Simple(Line("line", 1, 1))
MCConversations == {<<Plain, m>> : m \in Menu} \cup {<<m, Plain>> : m \in Menu}

MCStreams == {WireOf(messages) : messages \in MCConversations}

=============================================================================
