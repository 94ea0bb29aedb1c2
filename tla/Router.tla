------------------------------- MODULE Router -------------------------------
(***************************************************************************)
(* httc::Router (include/httc/router.hpp, src/router.cpp): the table of    *)
(* routes, built by calls of route(), and how handle() finds the handler   *)
(* of a request in it.                                                     *)
(*                                                                         *)
(* A call of route() that throws (InvalidURI, URICollision) leaves the     *)
(* table as it is: it is not a step.                                       *)
(***************************************************************************)
EXTENDS Uri

CONSTANTS
    Texts,          \* the path texts given to route()
    MethodSets,     \* the method lists given to route(); {} is "any method"
    Requests,       \* the paths of requests
    Methods,        \* the methods of requests
    MaxRoutes,      \* a bound: how many routes a program registers
    Strings,        \* bytes that percent_decode is given
    QueryLists      \* lists of pairs that somebody writes a query of

ASSUME RequestsAssumption == Requests \subseteq Seq(Segment) \ {<< >>}

ASSUME TextsAssumption == Texts \subseteq UriText

ASSUME StringsAssumption ==
    /\ Strings \subseteq Seq(Byte)
    /\ QueryLists \subseteq Seq(Seq(Byte) \X Seq(Byte))

VARIABLES
    handlers,       \* m_handlers: [path, byMethod, global]
    routes          \* the calls of route() that returned: [path, methods]

vars == <<handlers, routes>>

\* A handler is named by the number of the call of route() that brought it.
None == 0
NoMethods == [m \in {} |-> None]

Init == handlers = << >> /\ routes = << >>

-----------------------------------------------------------------------------
(* add_route                                                               *)

\* The first entry the new path is the same as.
SameAs(path) == {i \in DOMAIN handlers : Match(handlers[i].path, path) = "FULL"}

WithHandlers(byMethod, methods, id) ==
    [m \in DOMAIN byMethod \cup methods |-> IF m \in methods THEN id ELSE byMethod[m]]

CollidesNever(entry, methods) == FALSE
Collides(entry, methods) ==
    IF methods = {} THEN entry.global # None
    ELSE methods \cap DOMAIN entry.byMethod # {}

Extended(entry, methods, id) ==
    IF methods = {} THEN [entry EXCEPT !.global = id]
    ELSE [entry EXCEPT !.byMethod = WithHandlers(@, methods, id)]

NewEntry(path, methods, id) ==
    Extended([path |-> path, byMethod |-> NoMethods, global |-> None], methods, id)

Route(text, methods) ==
    LET path == Parse(text)
        same == SameAs(path)
        id == Len(routes) + 1
    IN  /\ Len(routes) < MaxRoutes
        /\ path # Invalid /\ QueryOf(text) \subseteq {<< >>}
        /\ \/ /\ same # {} /\ ~Collides(handlers[Min(same)], methods)
              /\ handlers' = [handlers EXCEPT
                                ![Min(same)] = Extended(@, methods, id)]
           \/ /\ same = {}
              /\ handlers' = Append(handlers, NewEntry(path, methods, id))
        /\ routes' = Append(routes, [path |-> path, methods |-> methods])

Next == \E text \in Texts, methods \in MethodSets : Route(text, methods)

Spec == Init /\ [][Next]_vars

-----------------------------------------------------------------------------
(* handle: among the entries of each class the last one counts, and the    *)
(* first class whose entry has a handler for the method.                   *)

OfClass(class, path) == {i \in DOMAIN handlers : Match(handlers[i].path, path) = class}

\* 0 for a null pointer.
Matched(class, path) ==
    LET entries == OfClass(class, path) IN IF entries = {} THEN 0 ELSE Max(entries)

MatchesWildFirst(path) ==
    <<Matched("WILD", path), Matched("PARAM", path), Matched("FULL", path)>>

\* matches[0..2] of handle()
Matches(path) ==
    <<Matched("FULL", path), Matched("PARAM", path), Matched("WILD", path)>>

\* Which handler of the entry runs; "options" is default_options_handler.
HandlerOf(entry, method) ==
    CASE method \in DOMAIN entry.byMethod -> <<"route", entry.byMethod[method]>>
      [] method \notin DOMAIN entry.byMethod /\ entry.global # None ->
            <<"route", entry.global>>
      [] OTHER ->
            IF method = "HEAD" /\ "GET" \in DOMAIN entry.byMethod
            THEN <<"route", entry.byMethod["GET"]>>
            ELSE IF method = "OPTIONS" THEN <<"options", None>>
            ELSE <<"none", None>>

AbleOnlyBest(matches, method) ==
    {c \in DOMAIN matches :
        /\ matches[c] # 0 /\ \A better \in 1 .. c - 1 : matches[better] = 0
        /\ HandlerOf(handlers[matches[c]], method)[1] # "none"}

\* The classes whose entry has a handler for the method.
Able(matches, method) ==
    {c \in DOMAIN matches :
        matches[c] # 0 /\ HandlerOf(handlers[matches[c]], method)[1] # "none"}

\* What the handler finds in req.method.
MethodSeen(entry, method) ==
    IF /\ method = "HEAD" /\ entry.global = None
       /\ method \notin DOMAIN entry.byMethod /\ "GET" \in DOMAIN entry.byMethod
    THEN "GET" ELSE method

\* What handle() does: run a handler, for an entry, or answer 405 or 404.
Ran(entry, method) ==
    LET handler == HandlerOf(handlers[entry], method)
    IN  [does |-> handler[1], id |-> handler[2], entry |-> entry,
         method |-> MethodSeen(handlers[entry], method)]

Refused(status) == [does |-> status, id |-> None, entry |-> 0, method |-> "none"]

Handle(path, method) ==
    LET matches == Matches(path)
        able == Able(matches, method)
    IN  CASE able # {} -> Ran(matches[Min(able)], method)
          [] able = {} /\ (\E c \in DOMAIN matches : matches[c] # 0) -> Refused("405")
          [] OTHER -> Refused("404")

\* run_handler: the positions of req.path_params, and where the wildcard
\* starts (0: there is none).  Reading a position beyond the request is
\* undefined.
WildAt(path) == IF Stars(path) = {} THEN 0 ELSE Min(Stars(path))

ParamsAt(path) ==
    {i \in DOMAIN path : path[i].kind = "param" /\ (WildAt(path) = 0 \/ i < WildAt(path))}

AllowOfTheTable(entry) ==
    UNION {DOMAIN handlers[i].byMethod : i \in DOMAIN handlers} \cup {"OPTIONS", "HEAD"}

\* default_options_handler: the methods of the Allow field.  It is called for
\* entries without a handler for any method only.
Allow(entry) == DOMAIN entry.byMethod \cup {"OPTIONS", "HEAD"}

-----------------------------------------------------------------------------
(* Properties.                                                             *)

PlainRequests == {r \in Requests : IsPlain(r)}

\* The table is the record of the calls of route(): every handler in it stands
\* under a path that is the same as its own and for a method it was given for,
\* and no call displaces the handler of an earlier one (lines 17-50).
TypeOK ==
    /\ \A i \in DOMAIN handlers :
        LET entry == handlers[i]
            under(id) ==
                /\ id \in DOMAIN routes
                /\ \/ routes[id].path = entry.path
                   \/ Match(entry.path, routes[id].path) = "FULL"
        IN  /\ entry.path \in Seq(Segment) \ {<< >>}
            /\ entry.global # None =>
                    under(entry.global) /\ routes[entry.global].methods = {}
            /\ \A m \in DOMAIN entry.byMethod :
                    under(entry.byMethod[m]) /\ m \in routes[entry.byMethod[m]].methods
    /\ \A id \in DOMAIN routes : \E i \in DOMAIN handlers :
        IF routes[id].methods = {} THEN handlers[i].global = id
        ELSE \A m \in routes[id].methods :
                m \in DOMAIN handlers[i].byMethod /\ handlers[i].byMethod[m] = id

\* The route is for the method: by name, or for any method while no route of
\* the same path names it.
For(id, method) ==
    \/ method \in routes[id].methods
    \/ /\ routes[id].methods = {}
       /\ ~\E other \in DOMAIN routes :
                routes[other].path = routes[id].path /\ method \in routes[other].methods

\* A route without parameters answers its own path and methods, whatever
\* routes are registered before and after it: no pattern, no merge and no
\* later call of route() takes them away, and its handler finds a method it is
\* for (add_route and handle together).
ExactRouteAnswers ==
    \A id \in DOMAIN routes, r \in PlainRequests, m \in Methods :
        routes[id].path = r /\ For(id, m) =>
            LET done == Handle(r, m)
            IN  done.does = "route" /\ done.id = id /\ For(id, done.method)

\* Two paths that match FULL and differ in more than parameter names.
Alike(p, q) ==
    /\ Len(p) = Len(q)
    /\ \A i \in DOMAIN p : p[i] = q[i] \/ (p[i].kind = "param" /\ q[i].kind = "param")

Crossing ==
    \E a, b \in DOMAIN routes :
        /\ Match(routes[a].path, routes[b].path) = "FULL"
        /\ ~Alike(routes[a].path, routes[b].path)

\* No route of another path matches the request in the same way.
AloneOn(id, r) ==
    \A other \in DOMAIN routes :
        \/ Match(routes[other].path, r) # Match(routes[id].path, r)
        \/ Alike(routes[other].path, routes[id].path) /\ Stars(routes[id].path) = {}
        \/ other = id

\* A request that a route is meant for is never answered 404 or 405 when no
\* other path matches it in the same way: a better match without the method
\* falls through to a worse one that has it (lines 112-135).
FallsThroughToARoute ==
    ~Crossing =>
        \A id \in DOMAIN routes, r \in PlainRequests, m \in Methods :
            /\ Match(routes[id].path, r) # "NO" /\ AloneOn(id, r)
            /\ routes[id].methods = {} \/ m \in routes[id].methods
            => Handle(r, m).does \in {"route", "options"}

\* run_handler reads req_paths[i] for each parameter of the entry (line 74).
\* For every request, patterns too, that position exists and its text is not
\* empty, but for one case: the request has a "*" of its own before it (`/*' or
\* `/%2A', which URI::parse accepts), and with that match is settled as a
\* wildcard's before the parameter is compared (uri.cpp:116).
ParamsAreThere ==
    \A r \in Requests, m \in Methods :
        LET done == Handle(r, m)
        IN  done.entry # 0 =>
                \A i \in ParamsAt(handlers[done.entry].path) :
                    \/ i \in DOMAIN r /\ r[i] # Empty
                    \/ \E j \in Stars(r) : j < i

\* uri.hpp:14, `/path/:param matches /path/value': the request that a handler
\* is run for has a segment where its route has a parameter.
ParamsInRequest ==
    \A r \in Requests, m \in Methods :
        LET done == Handle(r, m)
        IN  done.entry # 0 =>
                ParamsAt(handlers[done.entry].path) \subseteq DOMAIN r

\* A default answer to OPTIONS speaks of the entry that the request's other
\* methods get: what is listed under Allow is served by that entry, and what is
\* not listed is not, but for a match of a worse class (lines 112-164).  HEAD is
\* always listed, and only served by it where GET or HEAD was registered.
AllowIsServed ==
    \A r \in PlainRequests :
        LET done == Handle(r, "OPTIONS")
            entry == handlers[done.entry]
        IN  done.does = "options" =>
                \A m \in Methods :
                    Handle(r, m).entry = done.entry
                        <=> IF m = "HEAD" THEN {"GET", "HEAD"} \cap DOMAIN entry.byMethod # {}
                            ELSE m \in Allow(entry)

\* What percent_decode takes off from the left is what the whole text says:
\* it never reads an escape into another one, across one, or beyond the end,
\* and refuses only a text with a "%" that begins none (lines 15-33 of
\* percent_encoding.cpp).  No state matters to it: it is asked of the empty
\* table only.
DecodeIsMeaning ==
    routes = << >> =>
        \A s \in Strings :
            /\ \A out \in Decode(s) : Says(s, out)
            /\ Decode(s) = {} => \E i \in Percents(s) : ~Escape(s, i)

\* A query whose keys and values were percent-encoded reads back as the same
\* pairs, the empty ones and those that hold "&", "=" or "%" too: parse takes
\* it apart before it decodes it, and decodes once (uri.cpp:50-90).  What
\* query_param finds for a key is the value that was written first.
QueryReadsBack ==
    routes = << >> =>
      \A pairs \in QueryLists :
        LET written == FlattenSeq([i \in DOMAIN pairs |->
                (IF i = 1 THEN << >> ELSE <<Ampersand>>)
                \o Encode(pairs[i][1]) \o <<Equals>> \o Encode(pairs[i][2])])
        IN  /\ Query(written) = {pairs}
            /\ \A i \in DOMAIN pairs :
                    \/ QueryParam(pairs, pairs[i][1]) = {pairs[i][2]}
                    \/ \E j \in 1 .. i - 1 : pairs[j][1] = pairs[i][1]

\* URI::match computes what uri.hpp:11-16 says of a pattern and a path.
MatchIsMeaning ==
    \A i \in DOMAIN handlers, r \in PlainRequests :
        Match(handlers[i].path, r) = Meaning(handlers[i].path, r)

\* `Match both ways' of test/uri.cpp:180, for every two paths in use: which of
\* the two was registered first, or is the request, makes no difference.
MatchBothWays ==
    \A i \in DOMAIN handlers :
        LET p == handlers[i].path
        IN  /\ \A r \in Requests : Match(p, r) = Match(r, p)
            /\ \A j \in DOMAIN handlers :
                    Match(p, handlers[j].path) = Match(handlers[j].path, p)

\* test/router.cpp:159, `Different method should be fine', for one path
\* registered with two methods: each of them is served.
DifferentMethodsServed ==
    \A a, b \in DOMAIN routes, r \in PlainRequests :
        /\ routes[a].path = routes[b].path /\ Match(routes[a].path, r) # "NO"
        /\ \A other \in DOMAIN routes : routes[other].path = routes[a].path
        => \A m \in routes[a].methods : Handle(r, m).does = "route"

\* uri.hpp:14, `/path/:param matches /path/value': a path that a registered
\* route matches is not answered 404.
OwnPathFound ==
    \A id \in DOMAIN routes, r \in PlainRequests, m \in Methods :
        Match(routes[id].path, r) # "NO" => Handle(r, m).does # "404"

=============================================================================
