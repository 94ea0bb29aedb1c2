------------------------------ MODULE Listener ------------------------------
(***************************************************************************)
(* bind_and_listen and listen (src/server.cpp, lines 74-95), and the       *)
(* connections they start, on the one thread that runs the io_context.     *)
(*                                                                         *)
(* The io_context has a queue of what is ready: the coroutine `listen',    *)
(* and one handle_conn for each connection (module Connection).  A turn    *)
(* runs the first of them until it waits again.  What a coroutine waits    *)
(* for puts it back at the end of the queue.                               *)
(*                                                                         *)
(* The configuration is an object of the caller: one that outlives run(),  *)
(* or the default argument, which is gone when bind_and_listen returns.    *)
(***************************************************************************)
EXTENDS Integers, Sequences, FiniteSets

CONSTANTS
    Peers,          \* clients, each of which connects once
    Listen,         \* the coroutine listen
    Descriptors,    \* how many sockets the process can have open
    Named           \* the caller has given bind_and_listen a config of its own

ASSUME ListenerAssumption ==
    /\ IsFiniteSet(Peers) /\ Listen \notin Peers
    /\ Peers \cap {"none", "pending", "failed"} = {}
    /\ Descriptors \in Nat \ {0} /\ Named \in BOOLEAN

VARIABLES
    main,           \* where main() is
    config,         \* the object that the coroutines refer to is still there
    ready,          \* the queue of the io_context
    accept,         \* async_accept: not yet called, pending, failed, or a peer
    backlog,        \* peers the kernel has connected
    peer,           \* what has become of each peer
    timeout         \* the request timeout each connection runs under

vars == <<main, config, ready, accept, backlog, peer, timeout>>

Opened == Cardinality({p \in Peers : peer[p] = "open"})
Full == Opened = Descriptors

Queued == {ready[i] : i \in DOMAIN ready}

Init ==
    /\ main = "binding" /\ config = TRUE
    /\ ready = <<>> /\ accept = "none" /\ backlog = <<>>
    /\ peer = [p \in Peers |-> "away"]
    /\ timeout = [p \in Peers |-> "none"]

-----------------------------------------------------------------------------
(* main().                                                                 *)

\* bind_and_listen: the acceptor listens, the coroutine is queued.
Bind ==
    /\ main = "binding"
    /\ main' = "bound"
    /\ ready' = <<Listen>>
    /\ config' = Named
    /\ UNCHANGED <<accept, backlog, peer, timeout>>

\* io_ctx.run()
Run ==
    /\ main = "bound"
    /\ main' = "running"
    /\ UNCHANGED <<config, ready, accept, backlog, peer, timeout>>

-----------------------------------------------------------------------------
(* Turns of the io_context.                                                *)

Turn(who) == main = "running" /\ ready # <<>> /\ Head(ready) = who

ListenGivesUp ==
    /\ Turn(Listen)
    /\ ready' = Tail(ready) \o (IF accept \in Peers THEN <<accept>> ELSE <<>>)
    /\ accept' = IF accept = "failed" THEN "none" ELSE "pending"
    /\ UNCHANGED <<main, config, backlog, peer, timeout>>

ListenHoldsTheThread ==
    /\ Turn(Listen)
    /\ ready' = IF accept = "failed" /\ Full THEN ready
                ELSE Tail(ready) \o (IF accept \in Peers THEN <<accept>> ELSE <<>>)
    /\ accept' = IF accept = "failed" /\ Full THEN "failed" ELSE "pending"
    /\ UNCHANGED <<main, config, backlog, peer, timeout>>

ListenSpawnsAndStays ==
    /\ Turn(Listen)
    /\ ready' = Tail(ready) \o (IF accept \in Peers THEN <<accept, Listen>> ELSE <<>>)
    /\ accept' = IF accept \in Peers THEN accept ELSE "pending"
    /\ UNCHANGED <<main, config, backlog, peer, timeout>>

\* listen goes on behind async_accept: it spawns a handle_conn, or catches
\* what was thrown; then it calls async_accept again.
ListenTurn ==
    /\ Turn(Listen)
    /\ ready' = Tail(ready) \o (IF accept \in Peers THEN <<accept>> ELSE <<>>)
    /\ accept' = "pending"
    /\ UNCHANGED <<main, config, backlog, peer, timeout>>

\* The value that is read through the reference.
TimeoutRead == IF config THEN {"configured"} ELSE {"configured", "arbitrary"}

\* handle_conn runs: it waits for a request again, waits for something else,
\* or ends, which closes the socket.
ConnectionTurn(p) ==
    /\ Turn(p)
    /\ ready' = Tail(ready)
    /\ \/ /\ \E t \in TimeoutRead : timeout' = [timeout EXCEPT ![p] = t]
          /\ UNCHANGED peer
       \/ /\ timeout[p] # "none"
          /\ UNCHANGED <<timeout, peer>>
       \/ /\ timeout[p] # "none"
          /\ peer' = [peer EXCEPT ![p] = "gone"]
          /\ UNCHANGED timeout
    /\ UNCHANGED <<main, config, accept, backlog>>

-----------------------------------------------------------------------------
(* What the coroutines wait for.                                           *)

\* async_accept completes: with the first of the backlog or, if there is no
\* descriptor for it, with an error.
AcceptEnds ==
    /\ accept = "pending" /\ backlog # <<>>
    /\ IF Full
       THEN accept' = "failed" /\ UNCHANGED <<backlog, peer>>
       ELSE /\ accept' = Head(backlog)
            /\ backlog' = Tail(backlog)
            /\ peer' = [peer EXCEPT ![Head(backlog)] = "open"]
    /\ ready' = Append(ready, Listen)
    /\ UNCHANGED <<main, config, timeout>>

\* Bytes, room for bytes, or the request timer.
Wake(p) ==
    /\ peer[p] = "open" /\ timeout[p] # "none" /\ p \notin Queued
    /\ ready' = Append(ready, p)
    /\ UNCHANGED <<main, config, accept, backlog, peer, timeout>>

Connect(p) ==
    /\ main # "binding" /\ peer[p] = "away"
    /\ peer' = [peer EXCEPT ![p] = "backlog"]
    /\ backlog' = Append(backlog, p)
    /\ UNCHANGED <<main, config, ready, accept, timeout>>

Thread == Run \/ ListenTurn \/ \E p \in Peers : ConnectionTurn(p)

Next ==
    \/ Bind \/ Thread \/ AcceptEnds
    \/ \E p \in Peers : Wake(p) \/ Connect(p)

Spec == Init /\ [][Next]_vars

\* The thread takes the next of the queue, and the reactor completes an accept
\* that can be completed.  That a turn ends is part of ConnectionTurn: the one
\* that does not, in the trailers loop of the parser (parser_trailers_spin), is
\* left out here.  No peer has to connect or to go, and what a connection waits
\* for need not come: no timer runs while a handler works (line 58).
FairSpec == Spec /\ WF_vars(Thread) /\ WF_vars(AcceptEnds)

-----------------------------------------------------------------------------
(* Properties.                                                             *)

\* Every variable has its type, and each coroutine is in the queue at most
\* once: none is resumed while it runs or waits for something else.
TypeOK ==
    /\ main \in {"binding", "bound", "running"}
    /\ config \in BOOLEAN
    /\ ready \in Seq(Peers \cup {Listen})
    /\ accept \in {"none", "pending", "failed"} \cup Peers
    /\ backlog \in Seq(Peers)
    /\ peer \in [Peers -> {"away", "backlog", "open", "gone"}]
    /\ timeout \in [Peers -> {"none", "configured", "arbitrary"}]
    /\ Cardinality(Queued) = Len(ready)
    /\ Opened <= Descriptors

\* The listener outlives every failure: it waits for a connection or has its
\* turn to come, and a socket that was accepted is never forgotten between the
\* two (the try within the loop, lines 76-84).
ListenerStays ==
    main # "binding" =>
        /\ accept = "pending" <=> Listen \notin Queued
        /\ \A p \in Peers :
                peer[p] = "open" /\ timeout[p] = "none" => accept = p \/ p \in Queued

\* Whoever is ready runs as long as turns end, although a listener without
\* descriptors fails and tries again for ever: every try takes its place behind
\* the others (lines 76-84 and the queue of the io_context).
TurnsCome == \A p \in Peers : (p \in Queued) ~> (p \notin Queued)

\* A peer in the backlog is accepted as long as turns end, unless from some time
\* on no connection gives a descriptor back: failures of async_accept are not
\* the end of it.
Accepted ==
    \A p \in Peers : []<>~Full => ((peer[p] = "backlog") ~> (peer[p] = "open"))

\* server_config.hpp:9: a connection runs under the request timeout of its
\* configuration, `std::chrono::seconds(30)' if bind_and_listen was given none.
TimeoutAsConfigured == \A p \in Peers : timeout[p] # "arbitrary"

=============================================================================
