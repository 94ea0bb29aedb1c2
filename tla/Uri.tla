--------------------------------- MODULE Uri --------------------------------
(***************************************************************************)
(* httc::URI (include/httc/uri.hpp, src/uri.cpp): the path of a request or *)
(* of a route, as the segments between its slashes.                        *)
(*                                                                         *)
(*   lit       text that starts neither with ":" nor is "*"                *)
(*   param     ":" and a name                                              *)
(*   wild      "*"                                                         *)
(*   empty     nothing: after parsing only the last segment can be empty   *)
(*   hidden    "%2A", which decodes to "*"; only in a text                 *)
(*   bad       a segment that does not decode; only in a text              *)
(* A query is a sequence of bytes (module PercentEncoding); a text without *)
(* "?" has none.                                                           *)
(***************************************************************************)
EXTENDS PercentEncoding

Seg(kind, name) == [kind |-> kind, name |-> name]
Lit(name) == Seg("lit", name)
Param(name) == Seg("param", name)
Wild == Seg("wild", "")
Empty == Seg("empty", "")
Hidden == Seg("hidden", "")
Bad == Seg("bad", "")

\* A segment in a URI, as opposed to a text.
Segment == [kind : {"lit", "param"}, name : STRING] \cup {Wild, Empty}

TextSegment == Segment \cup {Hidden, Bad}

UriText == [segs : Seq(TextSegment), query : SUBSET Seq(Byte)]

\* A path that is not itself a pattern.
IsPlain(path) == \A i \in DOMAIN path : path[i].kind \in {"lit", "empty"}

-----------------------------------------------------------------------------
(* parse: the text is its segments and the query behind its "?", if any.   *)

Invalid == << >>

Ampersand == 38
Equals    == 61

\* The first position from `from' on where s has c, or the one behind the end.
FindFrom(s, c, from) ==
    Min({i \in from .. Len(s) : s[i] = c} \cup {Len(s) + 1})

\* The pair in s[start .. end - 1]: up to the first "=", and behind it.
Pair(s, start, end) ==
    LET eq == Min({FindFrom(s, Equals, start), end})
    IN  <<SubSeq(s, start, eq - 1), SubSeq(s, eq + 1, end - 1)>>

\* The pairs between the "&"; there is none behind a last "&", or in nothing.
Pairs(s) ==
    LET from[start \in 1 .. Len(s) + 1] ==
            LET end == FindFrom(s, Ampersand, start)
            IN  IF start > Len(s) THEN << >>
                ELSE <<Pair(s, start, end)>>
                     \o (IF end > Len(s) THEN << >> ELSE from[end + 1])
    IN  from[1]

\* Each key and each value is decoded, or the URI is refused.
DecodedPairs(pairs) ==
    IF \E i \in DOMAIN pairs : {} \in {Decode(pairs[i][1]), Decode(pairs[i][2])} THEN {}
    ELSE {[i \in DOMAIN pairs |->
             <<CHOOSE k \in Decode(pairs[i][1]) : TRUE,
               CHOOSE v \in Decode(pairs[i][2]) : TRUE>>]}

QueryDecodedFirst(s) ==
    IF Decode(s) = {} THEN {} ELSE {Pairs(CHOOSE d \in Decode(s) : TRUE)}

Query(s) == DecodedPairs(Pairs(s))

\* query_param
QueryParam(pairs, key) ==
    LET found == {i \in DOMAIN pairs : pairs[i][1] = key}
    IN  IF found = {} THEN {} ELSE {pairs[Min(found)][2]}

Decoded(seg) == IF seg.kind = "hidden" THEN Wild ELSE seg

\* A "*" is the last segment, or the last before a final slash.
StarsAtEnd(segs) ==
    \A i \in DOMAIN segs : segs[i] = Wild =>
        \/ i = Len(segs)
        \/ i = Len(segs) - 1 /\ segs[Len(segs)] = Empty

\* Empty segments go, except at the end.  (A path has at least one segment.)
Kept(segs) ==
    LET kept[n \in 0 .. Len(segs) - 1] ==
            IF n = 0 THEN << >>
            ELSE IF segs[n] = Empty THEN kept[n - 1] ELSE Append(kept[n - 1], segs[n])
    IN  Append(kept[Len(segs) - 1], segs[Len(segs)])

Parse(text) ==
    IF \/ text.segs = << >>                     \* no "/" at the start
       \/ ~StarsAtEnd(text.segs)
       \/ \E i \in DOMAIN text.segs : text.segs[i] = Bad
       \/ text.query # {} /\ \A s \in text.query : Query(s) = {}
    THEN Invalid
    ELSE LET kept == Kept(text.segs) IN [i \in DOMAIN kept |-> Decoded(kept[i])]

\* uri.query() of a text that parses
QueryOf(text) == UNION {Query(s) : s \in text.query}

-----------------------------------------------------------------------------
(* match: symmetric in the two paths, either may be the pattern.           *)

SettlesWithoutEmpty(a, b) ==
    \/ Wild \in {a, b}
    \/ a # b /\ "param" \notin {a.kind, b.kind}

\* A position where two segments settle the matter.
Settles(a, b) ==
    \/ Wild \in {a, b}
    \/ a # b /\ (Empty \in {a, b} \/ "param" \notin {a.kind, b.kind})

Shorter(p, q) == IF Len(p) <= Len(q) THEN Len(p) ELSE Len(q)

Settled(p, q) == {i \in 1 .. Shorter(p, q) : Settles(p[i], q[i])}

\* p goes on where q ends, with a "*" and no more.
WildBase(p, q) == Len(p) = Len(q) + 1 /\ p[Len(p)] = Wild

\* p has a parameter where q has something else.
HasParam(p, q) == \E i \in 1 .. Shorter(p, q) : p[i] # q[i] /\ p[i].kind = "param"

Params(p, q) == IF HasParam(p, q) # HasParam(q, p) THEN "PARAM" ELSE "FULL"

\* How the first of the settled positions settles it.
Verdict(p, q, settled) ==
    IF Wild \in {p[Min(settled)], q[Min(settled)]} THEN "WILD" ELSE "NO"

MatchBaseOneWay(p, q) ==
    LET settled == Settled(p, q)
    IN  CASE settled # {} -> Verdict(p, q, settled)
          [] settled = {} /\ Len(p) # Len(q) -> IF WildBase(p, q) THEN "WILD" ELSE "NO"
          [] OTHER -> Params(p, q)

MatchAnyLength(p, q) ==
    LET settled == Settled(p, q)
    IN  IF settled # {} THEN Verdict(p, q, settled) ELSE Params(p, q)

Match(p, q) ==
    LET settled == Settled(p, q)
    IN  CASE settled # {} -> Verdict(p, q, settled)
          [] settled = {} /\ Len(p) # Len(q) ->
                IF WildBase(p, q) \/ WildBase(q, p) THEN "WILD" ELSE "NO"
          [] OTHER -> Params(p, q)

-----------------------------------------------------------------------------
(* The reference: what a pattern says of a plain path (uri.hpp:11-16).     *)

Fits(seg, text) == seg = text \/ (seg.kind = "param" /\ text # Empty)

\* The pattern up to its first "*", if it has one.
Stars(pattern) == {i \in DOMAIN pattern : pattern[i] = Wild}
Stem(pattern) ==
    IF Stars(pattern) = {} THEN pattern
    ELSE SubSeq(pattern, 1, Min(Stars(pattern)) - 1)

Covers(stem, path) ==
    Len(stem) <= Len(path) /\ \A i \in DOMAIN stem : Fits(stem[i], path[i])

\* The "*" takes any rest, also none unless the pattern goes on after it.
RestTaken(pattern, path) ==
    Len(path) > Len(Stem(pattern)) \/ Len(pattern) = Len(Stem(pattern)) + 1

Meaning(pattern, path) ==
    CASE Stars(pattern) # {} ->
            IF Covers(Stem(pattern), path) /\ RestTaken(pattern, path)
            THEN "WILD" ELSE "NO"
      [] Stars(pattern) = {} /\ pattern = path -> "FULL"
      [] OTHER ->
            IF Covers(pattern, path) /\ Len(pattern) = Len(path)
            THEN "PARAM" ELSE "NO"

=============================================================================
