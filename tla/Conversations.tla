--------------------------- MODULE Conversations ---------------------------
(***************************************************************************)
(* RequestParser over what a client sends: one well-formed message after   *)
(* another.  What is compared here are the answers of the parser, which    *)
(* sees bytes in whatever pieces they arrive, with the messages behind     *)
(* them.  A message may be refused; it is only framed as it claims to be.  *)
(***************************************************************************)
EXTENDS RequestParser, HttpMessages

CONSTANT Conversations      \* sequences of messages a peer may send

WireOf(messages) ==
    FlattenSeq([i \in DOMAIN messages |-> Wire(messages[i])])

ASSUME ConversationsAssumption ==
    /\ Conversations \subseteq Seq(WellFormed)
    /\ Streams = {WireOf(messages) : messages \in Conversations}

\* The messages behind each stream.
Sent == [s \in Streams |->
            CHOOSE messages \in Conversations : WireOf(messages) = s]

-----------------------------------------------------------------------------
(* The parser implements RequestStream.                                    *)

\* What the application sees of a result.
Seen(result) ==
    [tag |-> result.tag, line |-> result.req.line, headers |-> result.req.headers,
     body |-> result.req.body,
     trailers |-> [i \in DOMAIN result.req.trailers |-> result.req.trailers[i].text]]

Script == [s \in Streams |-> [i \in DOMAIN Sent[s] |-> Answers(Sent[s][i])]]

Promised == INSTANCE RequestStream WITH
    Scripts <- {Script[s] : s \in Streams},
    IsRequest <- LAMBDA answer : answer.tag = "request",
    Closed <- Seen([tag |-> "closed", req |-> NoRequest]),
    script <- Script[stream],
    delivered <- [i \in DOMAIN results |-> Seen(results[i])]

\* The calls of next() answer the messages of the connection one by one, in
\* order, each with an answer the message calls for, however the reads cut
\* the stream: next() and every handler it calls.
AnswersAsPromised == Promised!Spec

-----------------------------------------------------------------------------
(* Where the messages of the connection end in the stream.                 *)

Ends == [s \in Streams |->
            [i \in DOMAIN Sent[s] |-> Len(WireOf(SubSeq(Sent[s], 1, i)))]]

Answered == Len(results)

\* Between two calls of next() the parser has used up exactly the messages it
\* has answered: no byte of one request is taken for a part of the next
\* (lines 141-146 after every way a body can be framed).
ConsumesWholeMessages ==
    pc = "idle" /\ Answered > 0 => Consumed = Ends[stream][Answered]

\* The parser waits for a read only while a part of the message it works on
\* is missing: a client that has sent its whole request and waits for the
\* response is never waited for (lines 376, 419, 508-517).
PullsOnlyForMore ==
    pc = "pull" /\ Answered < Len(Sent[stream]) =>
        received < Ends[stream][Answered + 1]

\* A message of the connection has trailer lines: parse_chunked_trailers may
\* find nothing in its view then, and does not come back from that (lines
\* 264-305; NextReturns is checked for these connections on their own).
WithTrailers == \E i \in DOMAIN Sent[stream] : Sent[stream][i].trailers # <<>>

\* Every message is answered, unless an answer before it ended the connection:
\* from bytes that arrive alone, in whatever pieces (the loop of lines 103-139).
AllAnswered == WithTrailers \/ <>(pc = "stopped" \/ Answered = Len(Sent[stream]))

\* A call of next() comes to a result or a read, also where the client is gone.
CallsReturn == WithTrailers \/ NextReturns

=============================================================================
