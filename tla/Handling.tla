------------------------------ MODULE Handling ------------------------------
(***************************************************************************)
(* The handling of one request after the other: Router::handle runs the    *)
(* middleware chain (module Middleware) down to the handler; each of them  *)
(* may call the operations of the one Response (module Response), or a     *)
(* file handler (module FileServing); then handle_conn calls send().       *)
(* Whatever they do, in whatever order, is a behaviour of Response.        *)
(***************************************************************************)
EXTENDS FileServing, Middleware

VARIABLE touched    \* a member or a handler called the Response by itself

all == <<vars, serving, chain, touched>>

HandlingInit == Init /\ NotServing /\ disturbed = FALSE /\ Idle /\ touched = FALSE

-----------------------------------------------------------------------------

\* Code of a member or of the handler runs, and no file handler beneath it.
Runs == stack # <<>> /\ ~thrown /\ at = "no"

\* handle_conn has a request.
Take ==
    /\ up /\ stack = <<>> /\ ~thrown
    /\ \E bodiless, told \in BOOLEAN : Begin(bodiless, told)
    /\ UNCHANGED <<serving, chain, touched>>

\* A route matches.
Enter ==
    /\ open
    /\ Start
    /\ UNCHANGED <<vars, serving, touched>>

\* A member or the handler calls the Response.  (When the client is gone a
\* write throws, which is a step of the chain.)
Call ==
    /\ Runs /\ up
    /\ HandlerCall
    /\ touched' = TRUE
    /\ UNCHANGED <<serving, chain>>

CallFile ==
    /\ Runs /\ Top.who = Handler
    /\ CallFileHandler
    /\ UNCHANGED <<chain, touched>>

ServeFile ==
    /\ FileStep \/ Change
    /\ UNCHANGED <<chain, touched>>

FileReturns ==
    /\ at = "returned"
    /\ Leave
    /\ UNCHANGED <<chain, touched>>

FileThrows ==
    /\ at = "failed"
    /\ Leave
    /\ Throw
    /\ UNCHANGED touched

Advance ==
    /\ at = "no"
    /\ Step
    /\ UNCHANGED <<vars, serving, touched>>

\* Router::handle returns: the chain is over, or no route matched.
Finish ==
    /\ stack = <<>> /\ ~thrown
    /\ ReturnAndSend
    /\ Clear
    /\ UNCHANGED <<serving, touched>>

ClientGoes ==
    /\ GoesDown
    /\ UNCHANGED <<serving, chain, touched>>

HandlingNext ==
    \/ Take \/ Enter \/ Call \/ CallFile \/ ServeFile \/ FileReturns \/ FileThrows
    \/ Advance \/ Finish \/ ClientGoes

HandlingSpec == HandlingInit /\ [][HandlingNext]_all

-----------------------------------------------------------------------------

\* Every variable of the chain and of the file handlers has its type.
HandlingTypeOK == ServingTypeOK /\ ChainTypeOK /\ touched \in BOOLEAN

\* A client that was only ever answered by the file handlers has read whole
\* responses, whatever the members of the chain do around them, however often
\* files are served and whatever fails: they announce what they send, announce
\* nothing before the last thing that can be refused, and nothing twice.  Not
\* so when the file changed in the meantime or a read failed (fs.cpp:58, 90).
FilesInStep ==
    ~open /\ up /\ ~touched /\ ~disturbed /\ ~astray =>
        client.at = "between" /\ client.done = begun

=============================================================================
