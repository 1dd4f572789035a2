------------------------------- MODULE Framing -------------------------------
(***************************************************************************)
(* How DiscoveryParser::parse_stream cuts one direction of a decrypted     *)
(* connection into HTTP messages: the scan buffer of the direction, bodies *)
(* that are walked past by length, and the caps that cut the buffer.       *)
(*                                                                         *)
(* The buffer is always a stretch of consecutive bytes of the stream, so   *)
(* it is kept as the two positions lo .. hi; what the bytes are is said by *)
(* the description of the stream.  A call of parse_stream is one Feed,     *)
(* one step per turn of its loop, and one EndCall.                         *)
(***************************************************************************)
EXTENDS Integers

CONSTANTS
  Last,            \* number of messages in a stream
  Streams,         \* the streams a peer may send
  Chunks,          \* sizes a call may be given
  MaxScan,         \* bytes kept without a header in sight (MAX_SCAN_BUFFER)
  MaxMessage,      \* bytes kept of one message (MAX_MESSAGE_BYTES)
  MayForget        \* whether other connections may take the buffer away

Messages == 1 .. Last

\* Message i is the bytes start[i] .. start[i + 1] - 1, its header ends before
\* head[i], and the header line that says how long the body is begins at
\* line[i].  An opaque body is one that is not UTF-8 text; midchar are the
\* positions inside a character of more than one byte, which bodies may have.
WellFormed(s) ==
  /\ s.start \in [1 .. Last + 1 -> Nat]
  /\ s.head \in [Messages -> Nat] /\ s.line \in [Messages -> Nat]
  /\ s.chunked \subseteq Messages /\ s.opaque \subseteq Messages
  /\ s.start[1] = 0
  /\ \A i \in Messages : /\ s.start[i] <= s.line[i] /\ s.line[i] < s.head[i]
                         /\ s.head[i] <= s.start[i + 1]
                         /\ \A j \in i + 1 .. Last + 1 : s.start[i + 1] <= s.start[j]
                         /\ i \in s.opaque => s.head[i] < s.start[i + 1]
  /\ \A p \in s.midchar : \E i \in Messages : s.head[i] < p /\ p < s.start[i + 1]

ASSUME FramingAssumption ==
  /\ Last \in Nat \ {0}
  /\ \A s \in Streams : WellFormed(s)
  /\ Chunks \subseteq Nat \ {0}
  /\ MaxScan \in Nat /\ MaxMessage \in Nat /\ MaxScan <= MaxMessage
  /\ MayForget \in BOOLEAN

VARIABLES
  stream,          \* what the peer sends
  lo, hi,          \* the buffer: received up to hi, not yet consumed from lo
  skip,            \* skipped_bodies: bytes of a body still to be walked past
  scanning,        \* inside a call of parse_stream
  framed,          \* the messages cut out whole so far
  hurt,            \* history: messages that a cut of the buffer may have cost
  forgotten        \* history: another connection took the buffer away

vars == <<stream, lo, hi, skip, scanning, framed, hurt, forgotten>>

Start(i) == stream.start[i]
Head(i)  == stream.head[i]
End(i)   == stream.start[i + 1]

Smaller(a, b) == IF a < b THEN a ELSE b

Init ==
  /\ stream \in Streams
  /\ lo = 0 /\ hi = 0 /\ skip = 0
  /\ scanning = FALSE
  /\ framed = {} /\ hurt = {} /\ forgotten = FALSE
-----------------------------------------------------------------------------
(* One call of parse_stream.                                               *)

Extend(n, walked) ==
  /\ ~scanning
  /\ hi + n <= End(Last)
  /\ hi' = hi + n
  /\ lo' = lo + Smaller(skip, hi' - lo)
  /\ skip' = skip - walked
  /\ scanning' = TRUE
  /\ UNCHANGED <<stream, framed, hurt, forgotten>>

\* Mutant: a body that ends inside the call is not struck off.
FeedKeepsSkip(n) == Extend(n, IF skip <= hi' - lo THEN 0 ELSE hi' - lo)

\* The bytes are appended, and what is left of a walked body is dropped.
Feed(n) == Extend(n, Smaller(skip, hi' - lo))

\* find(buffer, "\r\n\r\n"): the first header end in the buffer.
HeadInSight == \E i \in Messages : lo < Head(i) /\ Head(i) <= hi

Upcoming(i) ==
  lo < Head(i) /\ Head(i) <= hi /\ \A j \in Messages : j < i => Head(j) <= lo

\* The header up to there has something undecodable in front of it, the tail of
\* a body whose beginning was cut away: of one that is not text, or of a text
\* that was cut inside a character.
Undecodable(i) ==
  lo \in stream.midchar \/ \E j \in stream.opaque : j < i /\ lo < End(j)

\* A header that has lost its first lines no longer says how long the body is.
LengthKnown(i) == lo <= stream.line[i]
MessageEnd(i)  == IF LengthKnown(i) THEN End(i) ELSE Head(i)
IsChunked(i)   == LengthKnown(i) /\ i \in stream.chunked

TooLarge(i) == ~IsChunked(i) /\ MessageEnd(i) - lo > MaxMessage

Turn(i) == scanning /\ Upcoming(i)

\* Mutant: the bytes of the body that are there already are walked past twice.
WalkPastAgain(i) ==
  /\ Turn(i) /\ ~Undecodable(i) /\ TooLarge(i)
  /\ lo' = Smaller(hi, MessageEnd(i))
  /\ skip' = MessageEnd(i) - Head(i)
  /\ UNCHANGED <<stream, hi, scanning, framed, hurt, forgotten>>

\* Mutant: the part of the body that is not there yet is drained as well.
WalkPastBeyond(i) ==
  /\ Turn(i) /\ ~Undecodable(i) /\ TooLarge(i)
  /\ lo' = MessageEnd(i)
  /\ skip' = 0
  /\ UNCHANGED <<stream, hi, scanning, framed, hurt, forgotten>>

\* A body too large to keep: header and the part that is there are dropped, the
\* rest is remembered by its length.
WalkPast(i) ==
  /\ Turn(i) /\ ~Undecodable(i) /\ TooLarge(i)
  /\ lo' = Smaller(hi, MessageEnd(i))
  /\ skip' = MessageEnd(i) - lo'
  /\ UNCHANGED <<stream, hi, scanning, framed, hurt, forgotten>>

DropHead(i) ==
  /\ Turn(i) /\ Undecodable(i)
  /\ lo' = Head(i)
  /\ UNCHANGED <<stream, hi, skip, scanning, framed, hurt, forgotten>>

\* A whole message leaves the buffer.  One whose first line is not a start line
\* of its own is not taken for a response, and nothing comes of it.
Frame(i) ==
  /\ Turn(i) /\ ~Undecodable(i) /\ ~TooLarge(i)
  /\ MessageEnd(i) <= hi
  /\ lo' = MessageEnd(i)
  /\ framed' = IF lo = Start(i) THEN framed \union {i} ELSE framed
  /\ UNCHANGED <<stream, hi, skip, scanning, hurt, forgotten>>

\* The loop has nothing more to do: no header, or a message not complete yet.
AtRest ==
  HeadInSight => \E i \in Messages : /\ Upcoming(i) /\ ~Undecodable(i)
                                    /\ ~TooLarge(i) /\ hi < MessageEnd(i)

Blind(k, cut) == IF cut \in stream.midchar THEN {k} ELSE {}

\* What message k costs that has lost its beginning up to a cut: those that
\* follow it up to the one after the first body that is text, because until then
\* every header has undecodable bytes in front of it.
Shadow(k, cut) ==
  {i \in Messages : k < i /\ k .. i - 2 \subseteq stream.opaque \union Blind(k, cut)}

\* Messages that bytes lo .. cut - 1 belong to, and when the cut falls inside a
\* message, that one and its shadow.
Damage(cut) ==
  LET inside == {i \in Messages : Start(i) < cut /\ lo < End(i)}
      broken == {k \in Messages : Start(k) < cut /\ cut < End(k)}
  IN  inside \union broken \union UNION {Shadow(k, cut) : k \in broken}

CutAt(cut) ==
  /\ lo' = cut
  /\ hurt' = hurt \union Damage(cut)

EndsCall(cut) ==
  /\ scanning /\ AtRest
  /\ scanning' = FALSE
  /\ IF cut = lo THEN UNCHANGED <<lo, hurt>> ELSE CutAt(cut)
  /\ UNCHANGED <<stream, hi, skip, framed, forgotten>>

\* Mutant: the front is trimmed although a message is still arriving.
EndCallTrimsAlways ==
  EndsCall(IF hi - lo > MaxMessage THEN hi
           ELSE IF hi - lo > MaxScan THEN hi - MaxScan ELSE lo)

\* The caps at the end of the call.
EndCall ==
  EndsCall(IF hi - lo > MaxMessage THEN hi
           ELSE IF hi - lo > MaxScan /\ ~HeadInSight THEN hi - MaxScan
           ELSE lo)
-----------------------------------------------------------------------------
(* Calls for other connections.                                            *)

\* All buffers together are too large and this is the fattest of the others.
BufferDropped ==
  /\ MayForget /\ ~scanning /\ lo < hi
  /\ CutAt(hi)
  /\ forgotten' = TRUE
  /\ UNCHANGED <<stream, hi, skip, scanning, framed>>

\* touch_and_prune: the connection was silent for too long, or too many others
\* were seen since.
ConnectionPruned ==
  /\ MayForget /\ ~scanning
  /\ lo < hi \/ skip > 0
  /\ CutAt(hi)
  /\ skip' = 0
  /\ forgotten' = TRUE
  /\ UNCHANGED <<stream, hi, scanning, framed>>

Next ==
  \/ \E n \in Chunks : Feed(n)
  \/ \E i \in Messages : WalkPast(i) \/ DropHead(i) \/ Frame(i)
  \/ EndCall
  \/ BufferDropped \/ ConnectionPruned

Spec == Init /\ [][Next]_vars
-----------------------------------------------------------------------------
(* Properties.                                                             *)

TypeOK ==
  /\ WellFormed(stream)
  /\ lo \in Nat /\ hi \in Nat /\ lo <= hi /\ hi <= End(Last)
  /\ skip \in Nat /\ scanning \in BOOLEAN
  /\ framed \subseteq Messages /\ hurt \subseteq Messages
  /\ forgotten \in BOOLEAN

Fits(i) == End(i) - Start(i) <= MaxMessage

\* However the bytes are cut into calls, a message that has arrived whole has
\* been framed by the end of the call: a body too large to keep costs its own
\* message only, and a cut of the buffer only those up to the next text body.
CompleteIsFramed ==
  ~scanning =>
    \A i \in Messages : (End(i) <= hi /\ Fits(i)) => i \in framed \union hurt

\* Left to itself, a connection is never cut inside a message whose header fits
\* the scan buffer, unless the message is too large and does not say so ahead.
NoNeedlessCut ==
  (/\ ~forgotten
   /\ \A i \in Messages : Head(i) - Start(i) <= MaxScan
   /\ \A i \in stream.chunked : Fits(i)) => hurt = {}

\* A body that is walked past ends where the next message starts, so the walk
\* never eats into it; nothing is kept while it lasts.
WalkEndsAtMessage ==
  (~scanning /\ skip > 0) =>
    lo = hi /\ \E i \in Messages : hi + skip = End(i)

\* Between two calls the buffer holds no more than one message.
BufferBounded == ~scanning => hi - lo <= MaxMessage
=============================================================================
