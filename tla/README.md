# httc: a TLA+ model of an HTTP/1.1 server library

httc is a coroutine library on top of asio: a listener accepts connections, and
for each one `handle_conn` reads requests with a `RequestParser`, hands them to
a `Router` that finds the handler an application registered, and lets the
handler answer through a `Response`.  All coroutines run on one `io_context`;
in the examples one thread runs it.

Paths below are those of the repository (`include/httc/...`, `src/...`,
`test/...`).

## 1. Inventory

| component | state | operations | talks to |
|---|---|---|---|
| Request parser, `include/httc/request_parser.hpp` | `m_state`, `m_buffer`, `m_view`, `m_view_start`, `m_req`, chunk and header counters | `next` and one handler for each state, `pull_until`, `advance_view`, `reset`, `reset_err` | pulls from a reader; `Headers`, `URI::parse`, validation |
| Socket reader, writer, `src/io.cpp` | an 8 KiB buffer | `pull`, `write` | the asio socket |
| Connection, `src/server.cpp:17-72` | the parser, the timer, the loop's position | wait, time out, refuse, serve, fail | parser, timer, router, response, socket |
| Response, `src/response.cpp` | `m_state`, framing headers, `m_body`, `m_head` | `send_chunked`, `send_fixed`, `set_body`, the two streams, `send` | the writer |
| URI, `src/uri.cpp` | segments, query | `parse`, `match` | percent decoding |
| Router, `src/router.cpp` | `m_handlers`, `m_middleware` | `route`, `wrap`, `handle`, `run_handler` | URI, handlers, Response |
| Middleware chain, `src/router.cpp:53-92` | `middleware_idx` of one request | `next` | handlers |
| File and directory handlers, `src/utils/` | a path | `serve_file`, listing, redirects | the file system, Response |
| Listener, `src/server.cpp:74-95` | the acceptor, a reference to the configuration | accept, spawn | connections |
| Headers, `src/headers.cpp` | a multimap of views, a pool | `set`, `add`, `set_view`, `unset`, `get_one` | parser, Response |
| Percent encoding, validation, status codes, MIME types | none | pure functions and tables | all of the above |

What is hard, and what makes each component correct:

* **Parser.**  Every read may end anywhere and every handler may be suspended in
  the middle; the view must follow the buffer through appends and erases;
  requests are pipelined, so one byte too many or too few breaks all that come
  after; sizes are unsigned and come from the peer.  Correct: the answers depend
  on the messages and not on the reads, each request takes exactly its bytes,
  limits hold, a result comes.
* **Connection.**  The timer races with an answer, `operator||` treats an
  exception as "not yet", a handler may throw when half of a response is out, or throw what
  nobody catches.  Correct: one complete response for each request, in order,
  before the next wait and before an end that no handler caused; no wait without
  end as long as the parser leaves the thread to the timer.
* **Response.**  Handlers call a five-state object in any order, streams outlive
  `end`, `send` is called last whatever happened.  Correct: what is written
  reads as exactly one response.
* **Router.**  Order of registration, three classes of matches, fall-through on
  methods, merging of equal paths, a symmetric `match`.  Correct: a route gets
  the requests it is for, and a handler is given parameters that the request has.
* **Middleware.**  All calls of `next` of one request share one index, members
  may call it again, throw, or catch.  Correct: each member runs at most once,
  nobody is called past a member that has not let the request through, and if
  nobody gives up the handler is reached.
* **Files.**  A name is asked about five times and the file read in pieces,
  while other processes change it; any step may fail, before or after the head.
  Correct: what is announced is what is sent, unless the file changed after its
  size was taken.
* **Listener.**  One thread, few descriptors, failures that repeat, and a
  configuration that is referred to and not owned.  Correct: whoever is ready
  runs, peers are accepted once a descriptor is free, connections run under the
  configuration they were given.
* **Queries, percent encoding.**  Correct: decoding never crosses an escape, and
  a query that was written with `percent_encode` reads back.

`PROJECT.json` lists every hazard with its line.

## 2. Modules

| module | models | role |
|---|---|---|
| `HttpSyntax` | bytes, lines, header blocks, `std::size_t` arithmetic | operators |
| `RequestParser` | `RequestParser<R>`, with its reader and caller | state machine |
| `HttpMessages` | messages as structures, how they are written, and the answers each calls for | reference |
| `RequestStream` | what a parser promises: answers one by one, in order | abstract specification |
| `Conversations` | `RequestParser` over streams of well-formed messages; the refinement of `RequestStream` | composition |
| `MCRequestParser` | a menu of messages and conversations | model checking |
| `LoopLemmas` | least and greatest positions, induction, recursive functions, `FlattenSeq` | proofs |
| `RequestParserProofs` | proofs about `RequestParser` and `Conversations` | proofs |
| `Response` | `Response`, its writer, a reference client | state machine |
| `ResponseProofs` | proofs about `Response` | proofs |
| `Middleware` | the chain of `run_handler` | state machine |
| `FileServing` | `serve_file`, `FileHandler`, `DirectoryHandler` over `Response` | state machine |
| `Handling` | `Router::handle` at work: `Middleware`, `FileServing`, `Response` | composition |
| `HandlingProofs` | proofs about `Middleware` and `Handling`; it implements `Response` | proofs |
| `Connection` | `handle_conn`, composed with `Response` (`R`) | state machine |
| `ConnectionProofs` | proofs about `Connection`, from those about `Response` | proofs |
| `Listener` | `bind_and_listen`, `listen`, the `io_context`, the configuration | state machine |
| `ListenerProofs` | proofs about `Listener` | proofs |
| `PercentEncoding` | `percent_decode`, `percent_encode` | operators, reference |
| `Uri` | `URI::parse`, `URI::match`, `query_param`, and what patterns mean | operators, reference |
| `Router` | `route` and `handle` over `Uri` | state machine |
| `UriProofs` | proofs about decoding, queries, paths and `Match` | proofs |
| `RouterProofs` | proofs about the table and `handle`, from those about `Uri` | proofs |
| `MCRouter` | a menu of paths, methods and requests | model checking |

### RequestParser

A symbol is a byte; the first symbol of a line carries what the line says (a
request line, a `Content-Length` with its value, a chunk size, ...), the others
pad it, so every line has a length and every CRLF two bytes that a read can
separate.  Variables have the names of the members: `state` is `m_state`,
`view`/`viewStart` are `m_view` (by value) and `m_view_start`, `chunkLeft` is
`m_chunk_bytes_remaining`, `headersSize` is `m_current_headers_size`.  `pc` is
where the coroutine stands: not called, running, at a `co_await pull()`, or
never called again.  There is one action for each handler, with its early
returns as disjuncts; `next()` is `Parse` (its loop and switch) with `Fail` and
`Complete` for its two ends.  A handler that was suspended is modelled as
starting over: what precedes its first pull changes nothing it reads.  Sizes
are taken modulo `Word`, and the uninitialized counter starts with either
extreme.  An exception out of `add_cookies` is a result of its own.  A trailer
line that is taken is recorded as the place in the stream its view looks at; a
`Cookie` among the trailers is such a view too (line 495).

`HttpMessages` knows where a message ends because it built it.  It gives the
set of answers each message may get: several only where the code applies a
limit to what has been received so far (`pull_until`, line 513), so that the
answer rightly or wrongly depends on the reads.  `WellFormed` are the messages
whose body and chunks are as long as their lines say, where the parser may take
them; they may be refused for anything else.  `Conversations` makes the streams
of `RequestParser` from sequences of such messages: a set of them is its
parameter, which `MCRequestParser` gives for TLC and the proofs leave open.
`AnswersAsPromised` is the refinement `RequestStream!Spec` under that reference.

### Response and Connection

`Response` keeps `m_state`, the framing pair of headers, the size of the body
and `m_head`; each operation writes to `client`, which reads HTTP/1.1 by the
framing of the heads it gets.  `owed` and `misused` record whether a handler
keeps to `response.hpp`: writes what it announced, does not use a stream after
its end, asks `is_head` before it streams.  Calls that throw because of the
guard change nothing and are not steps.

`Connection` gives `Response` a caller.  The race of lines 27-38 is modelled as
asio defines `operator||`: both sides run, the first to *succeed* cancels the
other, both must end before the result is there.  The timer may have expired
when it is cancelled, and a cancelled read may still return bytes.  The parser
is an outcome: a request, an error, the end of the stream, an exception (the
four that `RequestParser` produces), or a turn that never ends (`ParserSpins`,
the spin that `parser_trailers_spin` finds), which takes the thread from the
timer.  A request handed to a handler, the handler's calls, its return with
`send()`, its exception with the second Response (`HandlerFails`), and the last
answer are separate actions, so the socket may fail between any two of them.
Line 61 catches `std::exception` only: `HandlerEscapes` is a handler that throws
something else, with which the coroutine is gone, and nothing is sent.

A request may be HEAD (`asked`), and its client takes the head for the whole
response.  `handle_conn` never tells `Response` so (`server.cpp:56`): there
`m_head` is always false, and a body that a handler begins for a HEAD, which it
has no way to know of, puts the client out of step.  `astray` records that this
has happened, and the properties say what holds until then.  A write is atomic:
it arrives, or nothing later does.

### Middleware, FileServing, Handling

`Middleware` has `middleware_idx` as `idx` and the calls that run as `stack`;
each frame knows whom it is a call of and how often that one has called `next`.
The actions are what code in the innermost call can do: call `next`, return,
throw (or let through what came out of `next`), catch.  `entered`, `again` and
`gaveUp` are ghosts.

`FileServing` has a variable for where the file handler stands (`at`), one for
what the file system holds (`thing`: nothing, a directory, a file of some size)
and what was learned of it (`size`, `pos`).  Every question of `fs.cpp` and
`file_handlers.cpp` is an action of its own; `Change` is another process.
`disturbed` records that the file changed under the handler's eyes, that a read
failed, or that a Response which knows of a HEAD was given a file.  What is
written goes through the operations of `Response`, which it extends.

`Handling` puts them together: a route matches and the chain starts (`Enter`),
members and the handler call the Response (`Call`) or, in the handler, a file
handler (`CallFile`), the chain goes on (`Advance`) or is left by an exception
(`FileThrows`), and `send()` follows when it is over (`Finish`).  That the
exception of the whole chain becomes a 500 is in `Connection`.  `Spec` of
`Response`, as a property of `Handling`, is the refinement: nothing that the
code around a Response does is outside what `Response` was checked for.

### Listener

The `io_context` is a queue of what is ready, and one thread takes its first
element; a turn of `listen` or of a `handle_conn` lasts until it waits again.
`async_accept` fails when no descriptor is left.  `config` says whether the
object that the coroutines refer to still exists: one that the caller named
does, the default argument does not (`Named`).  A connection's turn reads the
timeout through the reference; what is behind a dangling one is any value.

### Uri and Router

A path is a sequence of segments: literal, parameter, `*`, empty.  `Match` is
computed position by position like the code, from the first position that
settles the matter; `Meaning` is the reference, which treats one side as a
pattern and the other as text.  A query is bytes: `Query` takes it apart and
decodes it, like `parse`, with `Decode` of `PercentEncoding`, whose reference
`Says` looks at the whole text at once: every `%` begins an escape, and each
byte that no escape has taken stands for what is written there.  `Router` has `m_handlers` and, as a ghost, the
calls of `route()` that returned.  `Handle` is the whole of `handle()`, with the
replacement of HEAD by GET.

## 3. Runs

| run | module, configuration | result |
|---|---|---|
| `parser_framing` | `MCRequestParser`, `ParserFraming.cfg` | passes, 20 506 states, with liveness |
| `parser_trailers_spin` | `MCRequestParser`, `ParserTrailersSpin.cfg` | violates `NextReturns` |
| `parser_trailer_views` | `MCRequestParser`, `ParserTrailerViews.cfg` | violates `TrailersReadBack` |
| `handling` | `Handling`, `Handling.cfg` | passes, 1 121 158 states, with the refinement of `Response` |
| `connection_serves` | `Connection`, `ConnectionServes.cfg` | passes, 36 782 states, with liveness |
| `connection_timeout` | `Connection`, `ConnectionTimeout.cfg` | violates `TimeoutMeansLate` |
| `router_dispatch` | `MCRouter`, `RouterDispatch.cfg` | passes, 24 835 states |
| `router_wild_methods` | `MCRouter`, `RouterWildMethods.cfg` | violates `DifferentMethodsServed` |
| `router_crossing` | `MCRouter`, `RouterCrossing.cfg` | violates `OwnPathFound` |
| `router_params` | `MCRouter`, `RouterParams.cfg` | violates `ParamsInRequest` |
| `listener` | `Listener`, `Listener.cfg` | passes, 2 999 states, with liveness |
| `listener_config` | `Listener`, `ListenerConfig.cfg` | violates `TimeoutAsConfigured` |

What they show:

* `parser_framing`: a plain request before or after each message of the menu,
  cut into reads in every way.  The parser answers each message as the message
  calls for (`AnswersAsPromised`), has used up exactly its bytes when it returns
  (`ConsumesWholeMessages`), reads only while something is missing
  (`PullsOnlyForMore`), keeps its view on the right bytes (`WindowOK`), its
  sizes within the limits (`SizesWithinLimits`), and gives nothing back
  (`NothingConsumedTwice`).  Every message is answered (`AllAnswered`) and every
  call of `next()` ends or asks the peer for more (`CallsReturn`), except among
  trailers: `parser_trailers_spin` states the same without the exception and
  fails, because the trailers loop ends without a result on an empty view.
* `parser_trailer_views`: trailers of a returned request, and cookies among
  them, are read from where `next()` has erased them.
* `handling`, `connection_serves`: clients read as many complete responses as
  there were requests, at each wait, whatever handlers do within their contract;
  `NoSurplusResponse` holds for any handler.
* `connection_serves`: at each end too (`EndsAnswered`), if the end is a timeout,
  a parse error or the end of the stream.  The other two ends are stated for
  what they are.  When a handler throws after it began a response, the 500
  behind it is taken for a part of that response or for the answer to a request
  that was not made; when it throws what is no `std::exception`, its request
  stays without a whole answer, and no other.  `WaitEnds` says that every wait
  for a request ends, by the timer if nothing else, unless the parser spins.
* `handling`: `EachOnce`, `LetThrough` and `AllReached` say what members may
  rely on: also when an outer member retries, no member runs twice (the retry
  goes on behind the one that was reached last); nobody is called past a member
  that has not let the request through as long as nobody calls `next` twice
  (after a second call the handler may run behind the back of a member that
  refused); and a chain in which nobody gives up reaches all.  `FilesInStep`: a
  client that got only files is in step, unless a file changed or could not be
  read to its end (`fs.cpp:58`, `fs.cpp:90`).
* `connection_timeout`: an exception of the parser is taken for a timeout.
* `router_dispatch`: literal routes always win (`ExactRouteAnswers`), a match
  without the method falls through, the segments that parameters are read from
  exist unless the request has a `*` of its own before them (`ParamsAreThere`),
  `match` is symmetric and means what `uri.hpp` says for plain paths; what a default answer to OPTIONS
  lists under Allow is what the entry serves (`AllowIsServed`), but for HEAD,
  which is always listed and served where GET or HEAD was registered.  `DecodeIsMeaning` and `QueryReadsBack` are about pure
  functions and are evaluated once, in the initial state.  `FallsThroughToARoute` excludes
  tables with crossing parameters and routes that share a class for a request;
  `router_crossing` and `router_wild_methods` show what happens there.
  `router_params` is the exception of `ParamsAreThere`: a request for `/*` is
  answered by the handler of `/a/:x`, and a segment is read that it lacks.
* `listener`: `listen` retries a failed `async_accept` for ever, but takes its
  place in the queue behind the others each time, so connections have their
  turns (`TurnsCome`), descriptors come back, and peers are accepted
  (`Accepted`); no accepted socket is forgotten (`ListenerStays`).
  `listener_config` is the same code with the default argument.

### Bounds

| bound | value | why it is enough |
|---|---|---|
| `Word` | 16 | chunk sizes `Word - 1` wrap in lines 406 and 419, and 2 `MaxBody` < `Word` as in the code |
| `MaxHeaders` | 11 | menus have heads one below, at and one above it, with and without headers |
| `MaxBody`, `MaxSizeLine` | 3, 3 | bodies and size lines at and beyond the limit, chunks that sum to it |
| `ReadSize` | 40 | more than any stream: one read may bring everything, or a byte |
| messages on a connection | 2 | what one message leaves behind is seen in the next; nothing else is kept |
| `Sizes` | 0-2, 0-3 | 0 is special in `ChunkedStream::write` and `send`; a body in two parts, and parts beyond the announced size |
| `MaxRequests`, `MaxResponses` | 3 (2 for `connection_timeout` and `handling`) | nothing of a Response outlives it but the position of the client |
| `N`, `MaxNext` | 2, 2 | an outer member that retries and an inner one that refuses, lets through or throws; the proofs are for every number |
| `Peers`, `Descriptors` | 4, 2 | all descriptors in use, one peer that waits for one and one behind it |
| strings, query lists | 5 or 6 bytes; 2 pairs of at most a byte each | two escapes in a row, broken at each place; a separator, an `=` or a `%` in each place of two pairs |
| `MaxRoutes` | 3 | two routes that interact, and one before, between or behind them |
| method lists | none, GET and POST, HEAD | a route for all methods, one for several, HEAD without GET |
| paths | texts with and without queries, some of them refused | literals, equal and crossing parameters, wildcards, empty and encoded segments; requests that are patterns themselves, shorter and longer than the routes |

`Handling.cfg`, the router's and the listener's configurations do not check
deadlock: a writer that took its responses, a program that registered its
routes, and a server whose peers have all gone, stop there.
The parser and the connection say when they are over (`Stopped`, `Ended`) and
are checked for deadlock.

### Fairness

`RequestParser!FairSpec`: a ready coroutine is resumed (`Parse`), `handle_conn`
asks again after a request (`CallNext`), and bytes the peer has sent arrive
(`Pull`).  Nothing is assumed of the peer's closing.

`Connection!FairSpec`: a timer expires unless it is cancelled, a read that is
cancelled returns, and a coroutine whose wait is over is resumed.  The three
actions are disabled while the parser spins, so nothing is assumed of a thread
that this connection keeps; that the turns of other connections end is assumed.
The peer, the parser and handlers may take for ever.

`Listener!FairSpec`: the thread takes the next of the queue, and the reactor
completes an accept that can be completed.  A turn ends: the spin of the parser
is left out of this module.  What a connection waits for need not come (no timer
runs while a handler works or a response is written), and no peer has to connect
or to go; `Accepted` says of a peer in the backlog that it is accepted if
descriptors are free again and again.

## 4. Proofs

`tlapm` checks all of `LoopLemmas`, `RequestParserProofs`, `ResponseProofs`,
`ConnectionProofs`, `HandlingProofs`, `UriProofs`, `RouterProofs` and
`ListenerProofs`.

**RequestParser** (`ParserTypes`, `ParserWindow`, `ParserLimits`,
`ParserConsumesOnce`): for every set of streams, every read size and all limits
that satisfy `LimitsAssumption`.  The inductive invariant is the conjunction of
`TypeOK`, `WindowOK` and `SizesWithinLimits`.  They need each other: that an erase keeps the window
needs `viewStart` within the buffer, which `advance_view` keeps only because
`Find` and the limits bound its argument; that `headersSize` stays a word needs
it to be at most `MaxHeaders`.  There is one lemma for each handler,
and lemmas on `SubSeq`, `Find` and a consumed prefix.  The assumption
2 * `MaxBody` < `Word` is what the guard of line 406 needs: it holds for any
body limit below 2^63.

**Conversations** (`ParserConsumesWhole`, `ParserPullsForMore`): for every set
of conversations of well-formed messages (`ConversationsAssumption` says no
more than that), of any number and length, every read size and all limits.
Neither property is inductive: what the parser has used up between two calls
follows from where it stood in the middle of a message.  The invariant `Where`
says so for every state: what is not used up of the stream (`Unread`) is what is
left of one message, followed by the messages behind it; and what is left is, by
`m_state`, the rest from one of its empty lines, from its header lines, its
body, one of its size lines, one chunk's data, or one of its trailer lines on
(`Stands`); a parser that waits has less than that.  TLC agreed on the states of
`parser_framing` before it was proved.  The proof has two halves.  The first is
about texts: `Wire` is taken apart from the front (`WireFromStart`, `LeadStep`,
`ChunkStep`, `LinesStep`); a search for CRLF in the first bytes of a line with
its end finds that end, or nothing while it is not there (`LineFound`); a search
for the empty line behind headers finds the end of the block and nothing before
(`BlockLayout`, `BlockLineEnds`, `BlockFound`), since lines hold no CR and no
LF; the header positions of a block are the starts of the lines that were
written, so the value which frames the body is that of the last such line
(`BlockHeaders`, `BlockValue`), and `FramingMeans` concludes that
`prepare_parse_body` decides as the message was built.  The second half has one
lemma for each handler (`RequestLineWorks` to `TrailersWorks`): it takes exactly
the next part, or waits with less than what is left, or ends the use of the
parser.  `CompleteAtEnd` says that a request is returned where its message ends
and that the erase leaves the parser at the start of the next.

**Response** (`ResponseTypes`, `ResponseInStep`, `ResponseNoSurplus`): for every
set of sizes and any number of responses.  `ReadInStep` speaks of the moment
after `send()`; it is inductive only together with `ClientFollows`, which says
where the client stands in each of the five states, and `NoSurplusResponse`
needs `RoomForAnswer`: a Response that can still answer has not been counted,
and neither has a message the client is within.  `ClientCounts` is the lemma on
what a head and a part of a body can add.

**Connection** (`ConnectionTypes`, `ConnectionAnswersInStep`,
`ConnectionEndsAnswered`): for every set of sizes and any number of requests.
The module instantiates `ResponseProofs`: as long as no handler threw
(`Undisturbed`), every step of `handle_conn` is a step of `Response` or leaves
it alone, so its invariant `Inv` carries over (`ResponseKeeps`).  The Response made after an
exception breaks `Inv`, since it may answer once more than was asked: for it
`Replaced` says that it is empty and where the one thrown away can have left the
client, which is what `EndsAnswered` needs for the ending `failed`.  For the ending
`escaped` (`HandlerEscapesStep`) it needs no more than what `Inv` says of a
Response in the hands of a handler.

**Handling** (`HandlingTypes`, `HandlingIsOfResponse`, `HandlingInStep`,
`ChainCallsEachOnce`, `ChainLetsThrough`, `ChainReachesAll`,
`FilesAreServedWhole`): for every set of sizes and any number of members, of
calls of `next` and of responses.  Each step is a step of `Response` or leaves
it alone (`InResponse`, which needs that an announced size is one of `Sizes`),
and a step of the chain or leaves it alone (`InChain`); so the invariant of
`ResponseProofs` and that of the chain carry over, and the refinement `Spec`
brings every theorem about `Response` with it.  The chain's invariant `ChainInv`
says that the members up to `idx` have been called once (`CountedOnce`), that
the stack is the row of members while nobody calls `next` twice (`OneByOne`),
and that a chain in which nobody gave up is at the handler or has an innermost
call that may still go on (`StillOnItsWay`); none of the three properties is
inductive alone.  `ServedWhole` says of an undisturbed file that what was sent
is what was read, and that a file handler runs only beneath a call of the chain,
which is why `send()` never finds a file half-way.

**Uri** (`DecodeSays`, `DecodeEncode`, `QueryDecodes`, `ParseMakesPaths`,
`MatchSymmetric`, `MatchMeans`): for texts, queries and paths of any length.
Loops of the code are recursive functions, and what a loop computes is proved by
an induction of the module's own: `SetInduction` and `DownwardInduction` go
over sets of positions (from the well-foundedness of `<`), and
`RecursionDefines` says that a recursion on later positions defines a function.
`DecodeSays` goes from the end of the text to its beginning: what is read from a
position on is what `Says` requires of the rest (`ReadsFrom`).  `DecodeBehind`
and `DecodeConcat` let texts without a broken escape be decoded piece by piece,
so decoding undoes `percent_encode` (`DecodeEncode`).  Encoded texts hold
neither `&` nor `=` (`NoDelimiter`), so `Pairs` finds the pieces that were put
together: `PairsBefore` says that the pairs before an `&` are as if the text
ended there, `LastPair` what the last one is, and `PairsWritten` puts them
together by induction on the number of pairs.  `MatchMeans` goes by the first
position that settles the matter: before it every segment of the pattern fits
and none is a `*` (`OpenIsFit`), so it is the pattern's first star or the first
segment that does not fit.

**Router** (`RouterTable`, `RouterMatchesAsMeant`, `RouterMatchesBothWays`,
`RouterAnswersExactRoutes`, `RouterFindsParams`, `RouterFallsThrough`,
`RouterAllowsWhatItServes`, `RouterDecodes`, `RouterReadsQueriesBack`): for all
texts, method lists and requests and any number of calls of `route()`; every
property that `router_dispatch` checks is a theorem.  The table's invariant
`TableInv` says that what is in an entry was given for it (`EntriesStand`), that
what was given is in an entry (`NoneDisplaced`), and that a path without
parameters has one entry (`OneEntryEach`, since a FULL match with a plain path
is equality).  An exact route wins because its entry is the only one of class
FULL and holds what nobody displaced.  A route that nothing rivals in its class
is the entry that `Matches` finds there, so a request falls through to it when
the better entries lack the method.  `RouterFindsParams` is for every request,
patterns too: a parameter stands before the first `*` of its path
(`ParamBeforeStar`), so a position that settles the match at or before it is a
`*` of the request, and where none does the lengths are such that the segment
is there (`ParamsFit`).  The assumptions on the constants say what
type they have and nothing else (`TextsAssumption`, `RequestsAssumption`,
`StringsAssumption`).

**Listener** (`ListenerTypes`, `ListenerGoesOn`): for every finite set of peers,
any number of descriptors, with and without a configuration that lives on.  The
invariant says of each coroutine where it is: `listen` is queued unless
`async_accept` is pending (`ListenWaits`); a connection is queued only if it is
open, and one that never ran is queued or in `listen`'s hands
(`ConnectionsWait`).

Only model-checked: all liveness (outside the prover's logic here), and the
refinement of `RequestStream`.

## 5. Findings

Seven runs expect a violation; `PROJECT.json` quotes the text each one
contradicts.  In short: the trailers loop may spin (`request_parser.hpp:264`);
trailers dangle (`request_parser.hpp:325`); an exception in the parser ends as a
request timeout (`server.cpp:32`); a wildcard path registered for two methods
serves only the last (`router.cpp:19`); routes with crossing parameters, which
`match` rightly finds the same (`test/uri.cpp:210-218`), are merged into one
(`router.cpp:18`); a request that is a pattern itself lets `run_handler` read
behind its segments (`router.cpp:74`); connections of a server without a
configuration of its own read their limits through a dangling reference
(`server.cpp:94`).

Two more things `handle_conn` does are no findings, since no text of the
repository says otherwise; `EndsAnswered` states them: a second head behind a
response that was begun (`server.cpp:66`), and no answer when a handler throws
what is no `std::exception` (`server.cpp:61`).

## 6. What is not modelled

* Text: header names and values beyond the framing ones, cookies beyond whether
  they parse, URIs as `to_string` and `path()` write them, status codes, MIME
  types, the HTML of a listing, wording of pages.  `status.hpp` and `mime.cpp`
  are tables.
* Bytes that are taken apart within a line: a line is of a kind or it is not.
* asio, the kernel, the file system: modelled by how `server.cpp`, `io.cpp` and
  `fs.cpp` use them.
* `wrap()` as an action: the members of the chain are a constant, since a
  program wraps before it listens.
* `Headers` as a component: `add`, `add_view`, the pool.  What the parser and
  `Response` need of it (the last `set` of a name counts) is in `HttpSyntax` and
  `Response`.
* The size of an application: `examples/` are callers of the library.

## 7. Plan

Done: parser, response, connection, router and URI, percent encoding, the
middleware chain, the file handlers, the listener; the composition of chain,
files and response; the proofs of parser, response, connection, handling, URI,
router and listener.  In this order:

1. Proofs: the refinement of `RequestStream`, from `Where`: each answer is one
   of `Answers`, for all conversations.
2. `Server`: `Connection` with the real `RequestParser` in place of its promise,
   to join the two halves at `next()`.  It takes the place of
   `connection_serves` if it stays small enough.
3. `Headers` (`add`, `set`, views into a buffer that is erased) as a component.
