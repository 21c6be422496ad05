---------------------------- MODULE HttpExchange ----------------------------
(***************************************************************************)
(* One client connection, from the first byte read to conn.Close():        *)
(* handleConnection of cmd/nexusgate/main.go, the hand-written HTTP/1.1    *)
(* parser and response writer of internal/httparser/parser.go, and the     *)
(* part of internal/proxy/proxy.go that decides which body the response    *)
(* carries.  The client sends piece by piece, may stall or close at any    *)
(* moment, and takes the answer as slowly as it likes; the backend's body  *)
(* may break off.  A request to upgrade is parsed here and served in       *)
(* Connection.                                                             *)
(*                                                                         *)
(* The client's bytes are tokens: a line (request line, header, blank,     *)
(* chunk size) is one token, a body byte is one token, and so is the CRLF  *)
(* after the data of a chunk.                                              *)
(***************************************************************************)
EXTENDS Integers, Sequences, FiniteSets, SequencesExt

CONSTANTS
    Scripts,         \* what the client intends to send: sequences of tokens
    Answers,         \* what the backend may answer
    MaxHeaderLines,  \* maxHeaderLines
    MaxHeaderBytes,  \* Parser.maxHeaderBytes
    MaxBody,         \* Parser.maxBodyBytes
    MaxResponse,     \* Proxy.maxResponseBodyBytes
    MaxInt           \* the largest int64

\* Lines carry a number: a length, a chunk size, a header's size; "byte"
\* carries the byte.  "chunked" is a Transfer-Encoding that isChunked finds
\* "chunked" in, "coding" one where it does not; "long" is a line above
\* maxLineLength, "malformed" a header without a colon, "junk" a number that
\* does not parse.
LineKinds == {"get", "post", "junkLine", "length", "junkLength", "chunked",
              "coding", "upgrade", "other", "malformed", "blank", "size",
              "junkSize", "long"}
Token == [k : LineKinds \cup {"byte", "crlf"}, n : Int]

\* A backend's answer.  streaming: the route's flag; failed: a status of 500
\* or more that is not retried; declared: it carries a Content-Length;
\* got: how much of the body arrives before the connection breaks; grow: by
\* how much the route's body rewrite changes its length.
Answer == [streaming : BOOLEAN, failed : BOOLEAN, declared : BOOLEAN,
           body : Seq(Int), got : Nat, grow : {-1, 0, 1}]

ASSUME ExchangeAssumption ==
    /\ Scripts \subseteq Seq(Token)
    /\ \A s \in Scripts : \A i \in 1..Len(s) : s[i].n <= MaxInt
    /\ Answers \subseteq Answer
    /\ \A a \in Answers : a.got <= Len(a.body)
    /\ MaxHeaderLines \in Nat /\ MaxHeaderBytes \in Nat /\ MaxResponse \in Nat
    /\ MaxInt \in Nat /\ MaxBody \in 0..MaxInt

VARIABLES
    script, sent, gone,  \* client: its message, the part sent, has it closed?
    room,                \* how many tokens of the answer the client has taken
    expired,             \* the read deadline has passed
    pc,                  \* handleConnection's next step
    pos,                 \* tokens the parser has consumed
    verb, lines, bytes,  \* the request line; readHeaders' counters
    isChunked, clen,     \* the framing headers
    coded,               \* there is a Transfer-Encoding that is not chunked
    upgrade,             \* the headers of a WebSocket upgrade are there
    total, need, got,    \* readChunkedBody's total, bytes awaited, the body
    answer,              \* the backend's answer, NoAnswer for an error
    resp,                \* the gateway.Response given to WriteResponse
    copied,              \* bytes of the response body written
    wire, data           \* the writes to the client; their body bytes

client == <<script, sent, gone, room>>
framing == <<isChunked, clen, coded, upgrade>>
body == <<total, need, got>>
parse == <<pos, verb, lines, bytes, framing, body>>
reply == <<answer, resp, copied, wire, data>>
vars == <<client, expired, pc, parse, reply>>

\* clen or a response's length when there is no Content-Length header, and
\* clen when the header's value is not a number or a negative one.
Absent == -1
Junk == -2

NoAnswer == [streaming |-> FALSE, failed |-> FALSE, declared |-> FALSE,
             body |-> <<>>, got |-> 0, grow |-> 0]

\* A response: its Content-Length header, and a body that is nil, a byte
\* slice or a stream.
NoResponse == [length |-> Absent, kind |-> "nil", body |-> <<>>]
ErrorResponse == [length |-> Absent, kind |-> "bytes", body |-> <<0>>]

Init ==
    /\ script \in Scripts /\ sent = 0 /\ gone = FALSE /\ room = 0
    /\ expired = FALSE
    /\ pc = "line"
    /\ pos = 0 /\ verb = "none" /\ lines = 0 /\ bytes = 0
    /\ isChunked = FALSE /\ clen = Absent /\ coded = FALSE /\ upgrade = FALSE
    /\ total = 0 /\ need = 0 /\ got = <<>>
    /\ answer = NoAnswer /\ resp = NoResponse /\ copied = 0
    /\ wire = <<>> /\ data = <<>>

-----------------------------------------------------------------------------
(* Reading the request.                                                    *)

Parsing == pc \in {"line", "headers", "size", "data", "crlf", "trailers"}

\* The next token has arrived.
Available == pos < sent
Tok == script[pos + 1]

\* The parser or the engine returns a GatewayError: handleConnection answers
\* with WriteErrorResponse.
Reject ==
    /\ pc' = "head"
    /\ resp' = ErrorResponse
    /\ UNCHANGED <<answer, copied, wire, data>>

\* Any other error, a wrapped GatewayError included: the connection is closed
\* without an answer.
Abort == pc' = "closed" /\ UNCHANGED reply

Goto(l) == pc' = l /\ UNCHANGED reply

ReadRequestLine ==
    /\ pc = "line" /\ Available
    /\ pos' = pos + 1
    /\ verb' = Tok.k
    /\ \/ Tok.k \in {"get", "post"} /\ Goto("headers")
       \/ Tok.k = "long" /\ Abort
       \/ Tok.k \notin {"get", "post", "long"} /\ Reject
    /\ UNCHANGED <<client, expired, lines, bytes, framing, body>>

HeadersFull == lines >= MaxHeaderLines

TooManyHeaders ==
    /\ pc = "headers" /\ HeadersFull
    /\ Reject
    /\ UNCHANGED <<client, expired, parse>>

\* The size of a header line; the framing headers count as one byte.
Size(t) == IF t.k \in {"other", "malformed"} THEN t.n ELSE 1

LengthHeader(t) == t.k \in {"length", "junkLength"}
Value(t) == IF t.k = "length" /\ t.n >= 0 THEN t.n ELSE Junk

\* headers.Get returns the first of several headers of one name; a malformed
\* header is counted and skipped.
ReadHeader ==
    /\ pc = "headers" /\ ~HeadersFull
    /\ Available /\ Tok.k # "blank"
    /\ pos' = pos + 1
    /\ \/ Tok.k = "long" /\ Abort /\ UNCHANGED <<lines, bytes, framing>>
       \/ /\ Tok.k # "long"
          /\ lines' = lines + 1
          /\ bytes' = bytes + Size(Tok)
          /\ isChunked' = (isChunked \/ (Tok.k = "chunked" /\ ~coded))
          /\ coded' = (coded \/ Tok.k = "coding")
          /\ clen' = IF clen = Absent /\ LengthHeader(Tok) THEN Value(Tok) ELSE clen
          /\ upgrade' = (upgrade \/ Tok.k = "upgrade")
          /\ IF bytes' > MaxHeaderBytes THEN Reject ELSE Goto("headers")
    /\ UNCHANGED <<client, expired, verb, body>>

TooLarge(n) == n > MaxBody

\* The blank line: readBody and readBodyFromHeaders choose the framing.
ReadBlank ==
    /\ pc = "headers" /\ ~HeadersFull
    /\ Available /\ Tok.k = "blank"
    /\ pos' = pos + 1
    /\ \/ /\ verb = "get" \/ (~isChunked /\ clen \in {Absent, 0})
          /\ Goto("dispatch") /\ UNCHANGED body
       \/ /\ verb = "post" /\ isChunked
          /\ Goto("size") /\ UNCHANGED body
       \/ /\ verb = "post" /\ ~isChunked /\ clen > 0 /\ ~TooLarge(clen)
          /\ Goto("data") /\ need' = clen /\ UNCHANGED <<total, got>>
       \/ /\ verb = "post" /\ ~isChunked
          /\ clen = Junk \/ TooLarge(clen)
          /\ Reject /\ UNCHANGED body
    /\ UNCHANGED <<client, expired, verb, lines, bytes, framing>>

\* int64 addition.
Wrap(x) == IF x > MaxInt THEN x - 2 * (MaxInt + 1) ELSE x

\* Mutant: the running total is replaced, so only single chunks are bounded.
AddChunk_Forgets(n) == n

\* readChunkedBody adds a size to its running total.
AddChunk(n) == Wrap(total + n)

\* A chunk-size line.  When the sum wraps, the slice cannot be grown to hold
\* the chunk and the slice expression panics.
ReadSize ==
    /\ pc = "size" /\ Available
    /\ pos' = pos + 1
    /\ \/ /\ Tok.k # "size" \/ Tok.n < 0
          /\ Abort /\ UNCHANGED <<total, need>>
       \/ /\ Tok.k = "size" /\ Tok.n = 0
          /\ Goto("trailers") /\ UNCHANGED <<total, need>>
       \/ /\ Tok.k = "size" /\ Tok.n > 0
          /\ total' = AddChunk(Tok.n)
          /\ \/ TooLarge(total') /\ Abort /\ UNCHANGED need
             \/ /\ ~TooLarge(total')
                /\ need' = Tok.n
                /\ Goto(IF total' < 0 THEN "panic" ELSE "data")
    /\ UNCHANGED <<client, expired, verb, lines, bytes, framing, got>>

\* io.ReadFull, one byte at a time.
ReadByte ==
    /\ pc = "data" /\ Available /\ Tok.k = "byte"
    /\ pos' = pos + 1
    /\ got' = Append(got, Tok.n)
    /\ need' = need - 1
    /\ Goto(IF need > 1 THEN "data" ELSE IF isChunked THEN "crlf" ELSE "dispatch")
    /\ UNCHANGED <<client, expired, verb, lines, bytes, framing, total>>

\* Every chunk must be followed by CRLF.
ReadCRLF ==
    /\ pc = "crlf" /\ Available
    /\ pos' = pos + 1
    /\ IF Tok.k = "crlf" THEN Goto("size") ELSE Abort
    /\ UNCHANGED <<client, expired, verb, lines, bytes, framing, body>>

\* readTrailerHeaders drops lines, of any length, until a blank one.
ReadTrailer ==
    /\ pc = "trailers" /\ Available
    /\ pos' = pos + 1
    /\ Goto(IF Tok.k = "blank" THEN "dispatch" ELSE "trailers")
    /\ UNCHANGED <<client, expired, verb, lines, bytes, framing, body>>

\* Mutant: io.Read instead of io.ReadFull, what has arrived is the body.
ReadFails_ShortBody ==
    /\ Parsing
    /\ expired \/ (gone /\ pos = sent)
    /\ IF pc \in {"trailers", "data"} THEN Goto("dispatch") ELSE Abort
    /\ UNCHANGED <<client, expired, parse>>

\* A read returns an error: the deadline has passed, or the client has
\* closed and everything it sent is consumed.  readTrailerHeaders swallows
\* the error and the request goes on.
ReadFails ==
    /\ Parsing
    /\ expired \/ (gone /\ pos = sent)
    /\ IF pc = "trailers" THEN Goto("dispatch") ELSE Abort
    /\ UNCHANGED <<client, expired, parse>>

-----------------------------------------------------------------------------
(* The engine and the proxy: external but for the body they hand back.     *)

\* The backend's headers are handed on as they are.
ContentLength(a) == IF a.declared THEN Len(a.body) ELSE Absent

\* doForward reads what arrives of the body, up to the limit, before it answers.
doForward(a) ==
    LET n == IF MaxResponse < a.got THEN MaxResponse ELSE a.got IN
    [length |-> ContentLength(a), kind |-> "bytes", body |-> SubSeq(a.body, 1, n)]

\* A break before the limit is an error instead.
Readable(a) == a.got = Len(a.body) \/ a.got >= MaxResponse

\* doForwardStream hands on the open body, but drops that of a failure.
doForwardStream(a) ==
    [length |-> ContentLength(a),
     kind   |-> IF a.failed THEN "nil" ELSE "stream",
     body   |-> IF a.failed THEN <<>> ELSE a.body]

\* applyResponseRewrite replaces a body that is there as a slice: what a rule
\* matches may become longer or shorter.
Rewritten(b, grow) ==
    CASE b = <<>> \/ grow = 0    -> b
      [] b # <<>> /\ grow = 1    -> Append(b, 0)
      [] b # <<>> /\ grow = -1   -> Front(b)

applyResponseRewrite(r, a) ==
    IF r.kind = "bytes" THEN [r EXCEPT !.body = Rewritten(@, a.grow)] ELSE r

Dispatch ==
    /\ pc = "dispatch" /\ ~upgrade
    /\ \/ Reject
       \/ Abort
       \/ \E a \in Answers :
             /\ a.streaming \/ Readable(a)
             /\ answer' = a
             /\ resp' = applyResponseRewrite(
                          IF a.streaming THEN doForwardStream(a) ELSE doForward(a), a)
             /\ pc' = "head"
             /\ UNCHANGED <<copied, wire, data>>
    /\ UNCHANGED <<client, expired, parse>>

-----------------------------------------------------------------------------
(* Writing the answer.                                                     *)

\* The client has taken all but what its buffers hold.
CanWrite == Len(wire) < room

Chunked == resp.kind = "stream" /\ resp.length = Absent

\* Status line and headers.  A body slice sets Content-Length, a stream
\* without one becomes chunked.
HeadToken ==
    CASE Chunked                 -> [k |-> "chunkedHead", n |-> 0]
      [] resp.kind = "bytes"     -> [k |-> "head", n |-> Len(resp.body)]
      [] OTHER                   -> [k |-> "head", n |-> resp.length]

WriteHead ==
    /\ pc = "head" /\ CanWrite
    /\ wire' = Append(wire, HeadToken)
    /\ pc' = "body"
    /\ UNCHANGED <<client, expired, parse, answer, resp, copied, data>>

\* The bytes of the body that WriteResponse gets to see.
Source == IF resp.kind = "stream" THEN SubSeq(resp.body, 1, answer.got) ELSE resp.body

\* One Write, or one turn of io.Copy or of writeChunkedStream's loop.
WriteData ==
    /\ pc = "body" /\ CanWrite
    /\ \E to \in copied+1..Len(Source) :
          /\ wire' = Append(wire, [k |-> "data", n |-> 0])
          /\ data' = data \o SubSeq(Source, copied + 1, to)
          /\ copied' = to
    /\ UNCHANGED <<client, expired, pc, parse, answer, resp>>

\* The source returned an error instead of EOF.
Broken == resp.kind = "stream" /\ answer.got < Len(answer.body)

\* Mutant: the loop ends the same way for EOF and for an error.
WriteEnd_AnyError ==
    /\ pc = "body" /\ copied = Len(Source)
    /\ IF Chunked
         THEN CanWrite /\ wire' = Append(wire, [k |-> "end", n |-> 0])
         ELSE UNCHANGED wire
    /\ pc' = "closed"
    /\ UNCHANGED <<client, expired, parse, answer, resp, copied, data>>

\* End of the source: the last chunk is written unless the source broke off.
WriteEnd ==
    /\ pc = "body" /\ copied = Len(Source)
    /\ IF Chunked /\ ~Broken
         THEN CanWrite /\ wire' = Append(wire, [k |-> "end", n |-> 0])
         ELSE UNCHANGED wire
    /\ pc' = "closed"
    /\ UNCHANGED <<client, expired, parse, answer, resp, copied, data>>

\* Mutant: a failed write is tried again.
WriteFails_Insists ==
    /\ pc \in {"head", "body"} /\ gone
    /\ UNCHANGED vars

\* A write to a client that has gone fails.
WriteFails ==
    /\ pc \in {"head", "body"} /\ gone
    /\ Goto("closed")
    /\ UNCHANGED <<client, expired, parse>>

-----------------------------------------------------------------------------
(* The client and the clock.                                               *)

Send ==
    /\ ~gone /\ sent < Len(script)
    /\ sent' = sent + 1
    /\ UNCHANGED <<script, gone, room, expired, pc, parse, reply>>

Hangup ==
    /\ ~gone /\ pc # "closed"
    /\ gone' = TRUE
    /\ UNCHANGED <<script, sent, room, expired, pc, parse, reply>>

Take ==
    /\ ~gone /\ pc \in {"head", "body"} /\ room = Len(wire)
    /\ room' = room + 1
    /\ UNCHANGED <<script, sent, gone, expired, pc, parse, reply>>

\* The deadline set once at the start of ParseRequest.
Expire ==
    /\ Parsing /\ ~expired
    /\ expired' = TRUE
    /\ UNCHANGED <<client, pc, parse, reply>>

Done == pc \in {"closed", "panic"} /\ UNCHANGED vars

Read ==
    \/ ReadRequestLine \/ TooManyHeaders \/ ReadHeader \/ ReadBlank \/ ReadSize
    \/ ReadByte \/ ReadCRLF \/ ReadTrailer \/ ReadFails

Write == WriteHead \/ WriteData \/ WriteEnd \/ WriteFails

Next == Read \/ Dispatch \/ Write \/ Send \/ Hangup \/ Take \/ Expire \/ Done

Spec == Init /\ [][Next]_vars

-----------------------------------------------------------------------------
(* Properties.                                                             *)

\* What HTTP's framing says of a script, position by position.  The headers
\* are the tokens after the first, up to the blank line at h.  Of several
\* headers of one name the first counts.
EndsHeaders(h) ==
    /\ script[h].k = "blank"
    /\ \A i \in 2..h-1 : script[i].k # "blank"

\* The first Transfer-Encoding is chunked.
SaysChunked(h) ==
    \E i \in 2..h-1 : /\ script[i].k = "chunked"
                     /\ \A j \in 2..i-1 : script[j].k # "coding"

\* The first Content-Length is n.
SaysLength(h, n) ==
    \E i \in 2..h-1 : /\ LengthHeader(script[i]) /\ Value(script[i]) = n
                     /\ \A j \in 2..i-1 : ~LengthHeader(script[j])

\* A chunk at c: its size, that many bytes, and CRLF, up to token c + size + 1.
ChunkEnd(c) == c + script[c].n + 1
IsChunk(c) ==
    /\ script[c].k = "size" /\ script[c].n > 0
    /\ ChunkEnd(c) <= Len(script)
    /\ \A i \in c+1..ChunkEnd(c)-1 : script[i].k = "byte"
    /\ script[ChunkEnd(c)].k = "crlf"

\* From token b on there are chunks, one after the other, and the last at e.
AreChunks(b, e) ==
    /\ script[b].k = "size"
    /\ \A c \in b..e-1 : script[c].k = "size" =>
          IsChunk(c) /\ ChunkEnd(c) < e /\ script[ChunkEnd(c) + 1].k = "size"
    /\ script[e].k = "size" /\ script[e].n = 0

\* s is the bytes among tokens b..e, in their order.
BytesIn(b, e) == {i \in b..e : script[i].k = "byte"}
IsPayload(s, b, e) ==
    /\ Len(s) = Cardinality(BytesIn(b, e))
    /\ \A i \in BytesIn(b, e) : s[Cardinality(BytesIn(b, i))] = script[i].n

\* The body of a request whose headers end at h.
FramedBody(h) ==
    IF script[1].k = "get" THEN got = <<>>
    ELSE IF SaysChunked(h)
    THEN \E e \in h+1..pos : AreChunks(h + 1, e) /\ IsPayload(got, h + 1, e)
    ELSE IF \E i \in 2..h-1 : LengthHeader(script[i])
    THEN /\ SaysLength(h, Len(got)) /\ h + Len(got) <= pos
         /\ \A i \in 1..Len(got) : script[h + i] = [k |-> "byte", n |-> got[i]]
    ELSE got = <<>>

\* A request reaches the engine only with the whole body that its headers
\* frame, no byte lost, added or moved, however the bytes arrived and wherever
\* the client stopped; a GET or HEAD has none (ParseRequest, readBody,
\* readChunkedBody).
RequestIntact == pc = "dispatch" => \E h \in 2..pos : EndsHeaders(h) /\ FramedBody(h)

\* What the parser has stored of a body, with what it has agreed to store,
\* stays within maxBodyBytes (readBodyFromHeaders, readChunkedBody); a chunk
\* size that wraps the running total never gets as far as a read.
BodyBounded == pc # "panic" => Len(got) + need <= MaxBody

\* By HTTP's framing the client can tell that it has the whole message.
Complete ==
    /\ pc = "closed" /\ wire # <<>>
    /\ IF wire[1].k = "chunkedHead"
         THEN Last(wire).k = "end"
         ELSE wire[1].n \in {Absent, Len(data)}

\* The two bodies the gateway shortens and presents as whole: one that is not
\* streamed and exceeds maxResponseBodyBytes is cut there, and a streamed
\* failure loses its body.
Cut(a) == ~a.streaming /\ Len(a.body) > MaxResponse
Dropped(a) == a.streaming /\ a.failed

\* What the client should get of an answer: all of the backend's body, with the
\* route's rewrite of it, but for those two.
Kept(a) ==
    LET all == IF Cut(a) THEN SubSeq(a.body, 1, MaxResponse) ELSE a.body IN
    CASE Dropped(a)               -> <<>>
      [] a.streaming /\ ~a.failed -> all
      [] ~a.streaming             -> Rewritten(all, a.grow)

\* A client that sees a complete message has the whole body, unless it is one
\* of the two that are shortened: what breaks off on the way, between backend
\* and gateway or between gateway and client, is visible as such (doForward,
\* doForwardStream, WriteResponse, writeChunkedStream).
NoSilentTruncation == Complete /\ answer # NoAnswer => data = Kept(answer)

\* When the backend's body was whole, and was not dropped from under its
\* Content-Length, and the client stayed, the client can tell where the answer
\* ends (WriteResponse).
EndIsClear ==
    (/\ pc = "closed" /\ ~gone /\ answer # NoAnswer /\ answer.got = Len(answer.body)
     /\ ~(Dropped(answer) /\ answer.declared /\ answer.body # <<>>)) => Complete

\* The client gets the answer and knows it, or knows that it did not.
AnswerIntact == NoSilentTruncation /\ EndIsClear

\* The client stays but does not read: no write deadline is set.
Unread == pc \in {"head", "body"} /\ ~gone /\ ~CanWrite
=============================================================================
