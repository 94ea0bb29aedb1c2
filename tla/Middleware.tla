----------------------------- MODULE Middleware -----------------------------
(***************************************************************************)
(* The middleware chain of httc::Router (src/router.cpp, lines 53-56 and   *)
(* 78-92): wrap() puts members in a row, and run_handler() calls the first *)
(* one with a `next' that calls the one after it, and the handler after    *)
(* the last.  A member calls next as often as it likes, before or after    *)
(* what else it does; it may catch what next throws, or throw itself.      *)
(*                                                                         *)
(* How far the chain has come is one number for the whole request, that    *)
(* every call of next reads and moves: `next' does not know who calls it.  *)
(***************************************************************************)
EXTENDS Integers, Sequences, SequencesExt

CONSTANTS
    N,          \* how many members were wrapped
    MaxNext     \* a bound: how often one member calls next

ASSUME ChainAssumption == N \in Nat /\ MaxNext \in Nat

VARIABLES
    idx,        \* middleware_idx
    stack,      \* the calls that run, the innermost last
    thrown,     \* an exception is on its way out of the innermost call
    again,      \* some member called next for a second time
    gaveUp,     \* some member returned without calling next, or threw
    entered     \* how often each of them was called

chain == <<idx, stack, thrown, again, gaveUp, entered>>

Handler == N + 1
Members == 1 .. Handler

\* A call: of whom, and how often it has called next.
Frame == [who : Members, calls : 0 .. MaxNext]

Top == stack[Len(stack)]

-----------------------------------------------------------------------------

\* Whom run_middleware() calls.
Following == IF idx < N THEN idx + 1 ELSE Handler

RunPastTheEnd(s) ==
    /\ idx' = idx + 1
    /\ stack' = Append(s, [who |-> Following, calls |-> 0])
    /\ entered' = [entered EXCEPT ![Following] = @ + 1]

RunFromCaller(s) ==
    LET who == IF s = <<>> THEN 1 ELSE Last(s).who + 1
    IN  /\ idx' = IF who <= N THEN who ELSE N
        /\ stack' = Append(s, [who |-> who, calls |-> 0])
        /\ entered' = [entered EXCEPT ![who] = @ + 1]

RunSkipsLast(s) ==
    LET who == IF idx + 1 < N THEN idx + 1 ELSE Handler
    IN  /\ idx' = IF idx + 1 < N THEN idx + 1 ELSE idx
        /\ stack' = Append(s, [who |-> who, calls |-> 0])
        /\ entered' = [entered EXCEPT ![who] = @ + 1]

\* run_middleware() on top of the calls in s.
RunMiddleware(s) ==
    /\ idx' = IF idx < N THEN idx + 1 ELSE idx
    /\ stack' = Append(s, [who |-> Following, calls |-> 0])
    /\ entered' = [entered EXCEPT ![Following] = @ + 1]

Idle ==
    /\ idx = 0 /\ stack = <<>> /\ thrown = FALSE /\ again = FALSE /\ gaveUp = FALSE
    /\ entered = [m \in Members |-> 0]

\* run_handler(): a chain of its own for each request (idx and entered are
\* those of an idle chain).
Start ==
    /\ stack = <<>> /\ idx = 0 /\ entered = [m \in Members |-> 0]
    /\ RunMiddleware(<<>>)
    /\ UNCHANGED <<thrown, again, gaveUp>>

\* The innermost call is a member's, and it calls next.
CallNext ==
    /\ stack # <<>> /\ ~thrown
    /\ Top.who # Handler /\ Top.calls < MaxNext
    /\ RunMiddleware(Append(Front(stack), [Top EXCEPT !.calls = @ + 1]))
    /\ again' = (again \/ Top.calls > 0)
    /\ UNCHANGED <<thrown, gaveUp>>

\* The innermost call returns.
Return ==
    /\ stack # <<>> /\ ~thrown
    /\ stack' = Front(stack)
    /\ gaveUp' = (gaveUp \/ (Top.who # Handler /\ Top.calls = 0))
    /\ UNCHANGED <<idx, thrown, again, entered>>

\* The innermost call throws, or lets through what came out of next.
Throw ==
    /\ stack # <<>>
    /\ stack' = Front(stack)
    /\ thrown' = TRUE
    /\ gaveUp' = TRUE
    /\ UNCHANGED <<idx, again, entered>>

\* A member catches what came out of its call of next, and goes on.
Catch ==
    /\ thrown /\ stack # <<>>
    /\ thrown' = FALSE
    /\ UNCHANGED <<idx, stack, again, gaveUp, entered>>

\* The request is done with; the next one finds an idle chain.
Clear ==
    /\ idx' = 0 /\ stack' = <<>> /\ thrown' = FALSE /\ again' = FALSE /\ gaveUp' = FALSE
    /\ entered' = [m \in Members |-> 0]

\* The chain is done: co_await run_middleware() returns to Router::handle.
Over == stack = <<>> /\ idx + entered[Handler] > 0

Step == CallNext \/ Return \/ Throw \/ Catch

ChainNext == Start \/ Step \/ Clear

-----------------------------------------------------------------------------
(* Properties.                                                             *)

ChainTypeOK ==
    /\ idx \in 0 .. N
    /\ stack \in Seq(Frame)
    /\ thrown \in BOOLEAN /\ again \in BOOLEAN /\ gaveUp \in BOOLEAN
    /\ entered \in [Members -> Nat]

\* However often members call next, each of them is called at most once for a
\* request, and the calls that run are those of members further and further
\* down the row: a retry of an outer member never comes back to one that has
\* run (router.cpp, lines 80-88).
EachOnce ==
    /\ \A m \in 1 .. N : entered[m] <= 1
    /\ \A k \in 1 .. Len(stack) - 1 : stack[k].who < stack[k + 1].who

\* As long as no member calls next twice, a call runs only beneath calls of
\* all the members before it, none of which has refused the request, and the
\* handler runs once.  (After a second call of next this is lost: the handler
\* then runs behind the back of a member that returned without calling next.)
LetThrough ==
    ~again => /\ \A k \in DOMAIN stack : stack[k].who = k
              /\ entered[Handler] <= 1

\* When the chain is over and no member gave up, by throwing or by returning
\* without a call of next, every member and the handler has been called.
AllReached ==
    Over /\ ~gaveUp => \A m \in Members : entered[m] > 0

=============================================================================
