------------------------------ MODULE MCRouter ------------------------------
(***************************************************************************)
(* Router over a few paths, for TLC: literals, parameters in the same and  *)
(* in crossing places, wildcards, final slashes, and texts that do not     *)
(* parse.                                                                  *)
(***************************************************************************)
EXTENDS Router

Text(segs) == [segs |-> segs, query |-> {}]

MCTexts ==
    {Text(segs) : segs \in {
        <<Lit("a")>>, <<Lit("a"), Empty>>,              \* /a   /a/
        <<Lit("a"), Lit("b")>>,                         \* /a/b
        <<Empty, Lit("a"), Empty, Lit("b")>>,           \* //a//b
        <<Lit("a"), Param("x")>>, <<Lit("a"), Param("y")>>,
        <<Param("x"), Lit("b")>>,
        <<Lit("a"), Wild>>, <<Lit("a"), Wild, Empty>>,  \* /a/*   /a/*/
        <<Param("x"), Wild>>,
        <<Lit("a"), Hidden, Lit("b")>>,                 \* /a/%2A/b
        <<Wild, Lit("a")>>, <<Lit("a"), Bad>>, << >>}}
    \cup {[segs |-> <<Lit("a")>>, query |-> {q}] :     \* /a?   /a?&   /a?a   /a?%
            q \in {<< >>, <<Ampersand>>, <<97>>, <<Percent>>}}

MCRequests ==
    {<<Empty>>, <<Lit("a")>>, <<Lit("a"), Empty>>,
     <<Lit("a"), Lit("b")>>, <<Lit("a"), Lit("c")>>, <<Lit("c"), Lit("b")>>,
     <<Lit("a"), Lit("b"), Lit("c")>>, <<Lit("a"), Lit("b"), Empty>>,
     <<Lit("a"), Wild>>, <<Param("x")>>,
     <<Wild>>, <<Wild, Empty>>}                         \* /*   /*/

\* "%", a digit, letters of both cases that are hex, one that is not, and a
\* byte beyond ASCII.
MCStrings == SeqOf({Percent, 50, 65, 102, 103}, 5) \cup SeqOf({Percent, 50, 233}, 6)

Words == SeqOf({Ampersand, Equals, Percent, 97, 233}, 1)
MCQueryLists == SeqOf(Words \X Words, 2)

MCMethodSets == {{}, {"GET", "POST"}, {"HEAD"}}
MCMethods == {"GET", "POST", "HEAD", "OPTIONS"}

=============================================================================
