--------------------------- MODULE RequestStream ---------------------------
(***************************************************************************)
(* What a request parser promises to its caller.  A peer has sent some     *)
(* messages; the calls of next() answer them one by one and in order, each *)
(* with an answer that the message itself calls for, whatever the reads    *)
(* that brought it.  After anything but a request there are no more        *)
(* answers; the stream may end at any time.                                *)
(***************************************************************************)
EXTENDS Sequences, Naturals

CONSTANTS
    Scripts,        \* sequences of sets: the answers each message may get
    IsRequest(_),   \* the answer is a request: more answers may follow
    Closed          \* the answer when the stream ends

VARIABLES
    script,         \* one of Scripts
    delivered       \* the answers so far

vars == <<script, delivered>>

Init == script \in Scripts /\ delivered = <<>>

Open == delivered = <<>> \/ IsRequest(delivered[Len(delivered)])

Deliver ==
    /\ Open /\ Len(delivered) < Len(script)
    /\ \E answer \in script[Len(delivered) + 1] :
            delivered' = Append(delivered, answer)
    /\ UNCHANGED script

Close ==
    /\ Open
    /\ delivered' = Append(delivered, Closed)
    /\ UNCHANGED script

Next == Deliver \/ Close

Spec == Init /\ [][Next]_vars

=============================================================================
