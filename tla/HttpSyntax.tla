----------------------------- MODULE HttpSyntax -----------------------------
(***************************************************************************)
(* The bytes of an HTTP/1.1 connection, as far as                          *)
(* include/httc/request_parser.hpp tells them apart.                       *)
(*                                                                         *)
(* A symbol stands for one byte.  What a line says is carried by its first *)
(* symbol; `pad' symbols are the other bytes of the line, so that a line   *)
(* can have any length and a read can end anywhere in it.  The text that   *)
(* the parser only copies (URI, names, values, body) is abstracted.        *)
(*                                                                         *)
(*   kind      val                                                         *)
(*   cr, lf    0                                                           *)
(*   pad       0                                                           *)
(*   line      a request line the parser accepts (the value tells them     *)
(*             apart); any other symbol starts one that it refuses         *)
(*   junk      a line that nothing accepts                                 *)
(*   clen      Content-Length: the number, or -1 if it does not parse      *)
(*   tenc      Transfer-Encoding: 1 for "chunked", 0 for anything else     *)
(*   cookie    Cookie: 1 for pairs that all parse, 0 for one that does not,*)
(*             2 for a list that ends in ";"                               *)
(*   head      any other well-formed header                                *)
(*   size      a chunk-size line: the number, or -1 if it does not parse   *)
(*   data      a body byte                                                 *)
(***************************************************************************)
EXTENDS Integers, Sequences, FiniteSetsExt

CONSTANTS
    Word,           \* std::size_t counts modulo Word
    MaxHeaders,     \* ServerConfig::max_header_size: request line and headers
    MaxBody,        \* ServerConfig::max_body_size
    MaxSizeLine     \* the limit on a chunk-size line: 1024 in the code

ASSUME LimitsAssumption ==
    /\ Word \in Nat
    /\ MaxHeaders \in Nat /\ MaxHeaders < Word
    /\ MaxBody \in Nat /\ MaxBody + 2 < Word /\ 2 * MaxBody < Word
    /\ MaxSizeLine \in Nat

Kinds == {"cr", "lf", "pad", "line", "clen", "tenc", "cookie", "head", "size",
          "data", "junk"}

Symbol == [kind : Kinds, val : Int]

Sym(kind, val) == [kind |-> kind, val |-> val]

CR == Sym("cr", 0)
LF == Sym("lf", 0)
CRLF == <<CR, LF>>

-----------------------------------------------------------------------------
(* std::size_t arithmetic on values of 0..Word-1.                          *)

WrapAdd(a, b) == IF a + b < Word THEN a + b ELSE a + b - Word
WrapSub(a, b) == IF b <= a THEN a - b ELSE a - b + Word

-----------------------------------------------------------------------------
(* std::string_view: positions count from 0.                               *)

NotFound == -1

OccursAt(text, chars, pos) ==
    /\ pos + Len(chars) <= Len(text)
    /\ SubSeq(text, pos + 1, pos + Len(chars)) = chars

Find(text, chars) ==
    LET hits == {pos \in 0 .. Len(text) : OccursAt(text, chars, pos)}
    IN  IF hits = {} THEN NotFound ELSE Min(hits)

Prefix(text, n) == SubSeq(text, 1, n)

-----------------------------------------------------------------------------
(* One line, without its CRLF.                                             *)

RequestLineOk(line) == Head(line).kind = "line"

\* add_cookies: the rest of a list that ends in ";" is std::out_of_range.
CookieVerdict(pairs) ==
    CASE pairs = 1 -> "ok"
      [] pairs = 2 -> "exception"
      [] OTHER     -> "INVALID_HEADER"

\* parse_header
HeaderVerdict(line) ==
    CASE Head(line).kind \in {"clen", "tenc", "head"} -> "ok"
      [] Head(line).kind = "cookie"                   -> CookieVerdict(Head(line).val)
      [] OTHER                                        -> "INVALID_HEADER"

\* What std::from_chars reads from a chunk-size line; -1 when it reads nothing.
ChunkSize(line) ==
    IF line # <<>> /\ Head(line).kind = "size" THEN Head(line).val ELSE -1

-----------------------------------------------------------------------------
(* A header block: lines that each end in CRLF, and an empty line.         *)

LineStarts(block) ==
    {0} \cup {pos \in 2 .. Len(block) - 3 : OccursAt(block, CRLF, pos - 2)}

LineAt(block, pos) ==
    LET rest == SubSeq(block, pos + 1, Len(block))
    IN  Prefix(rest, Find(rest, CRLF))

\* parse_header on every line, up to the first that it does not accept.
BlockVerdict(block) ==
    LET bad == {pos \in LineStarts(block) :
                    HeaderVerdict(LineAt(block, pos)) # "ok"}
    IN  IF bad = {} THEN "ok" ELSE HeaderVerdict(LineAt(block, Min(bad)))

\* Headers::get_one after set_view on every line: the last one stays.
HeaderPositions(block, kind) ==
    {pos \in LineStarts(block) : block[pos + 1].kind = kind}

FirstHeaderValue(block, kind) == block[Min(HeaderPositions(block, kind)) + 1].val

HeaderValue(block, kind) == block[Max(HeaderPositions(block, kind)) + 1].val

=============================================================================
