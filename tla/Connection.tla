----------------------------- MODULE Connection -----------------------------
(***************************************************************************)
(* A client connection whole: the HTTP exchange, and the WebSocket branch  *)
(* of handleConnection (cmd/nexusgate/main.go) with ForwardWebSocket       *)
(* (internal/proxy/websocket.go).  After the handshake two goroutines copy *)
(* bytes, one in each direction, and the first to end closes both          *)
(* connections.  Which backend is dialled, and the retries, are part of    *)
(* Forwarding.                                                             *)
(*                                                                         *)
(* A byte of the backend is its position in what the backend sends, the    *)
(* answer to the handshake included.  The client's are the byte tokens     *)
(* that follow its request.                                                *)
(***************************************************************************)
EXTENDS HttpExchange

CONSTANT BackendBytes   \* bound: bytes the backend sends

ASSUME ConnectionAssumption == BackendBytes \in Nat

VARIABLES
    bsent, bgone,   \* backend: bytes sent, has it closed?
    stalled,        \* it has stopped reading
    bread,          \* bytes read from it
    held,           \* bytes read from it and not yet written to the client
    up,             \* client to backend: "read", "write" or "done"
    down,           \* backend to client: "read" or "done"
    hand,           \* the byte read from the client and not yet written
    passed,         \* bytes written to the backend
    ended,          \* what ended the tunnel, "no" while it is open
    first           \* history: tokens consumed or lost when the tunnel began

backend == <<bsent, bgone, stalled>>
tunnel == <<bread, held, up, down, hand, passed, ended, first>>
connVars == <<vars, backend, tunnel>>

ConnInit ==
    /\ Init
    /\ bsent = 0 /\ bgone = FALSE /\ stalled = FALSE
    /\ bread = 0 /\ held = <<>> /\ up = "read" /\ down = "read" /\ hand = <<>>
    /\ passed = <<>> /\ ended = "no" /\ first = 0

-----------------------------------------------------------------------------
(* ForwardWebSocket up to the answer to the handshake.                     *)

\* No route, no backend, or the handshake cannot be written: an error answer.
UpgradeFails ==
    /\ pc = "dispatch" /\ upgrade
    /\ Reject
    /\ UNCHANGED <<client, expired, parse, backend, tunnel>>

\* Connected.  From now on the client is read past the parser's buffer: what
\* that has read ahead is lost.
Upgrade ==
    /\ pc = "dispatch" /\ upgrade
    /\ Goto("handshake")
    /\ pos' \in pos..sent
    /\ first' = pos'
    /\ UNCHANGED <<client, expired, verb, lines, bytes, framing, body, backend,
                   bread, held, up, down, hand, passed, ended>>

\* Some of the bytes that have arrived.
TakeFromBackend ==
    \E to \in bread+1..bsent :
        /\ held' = [i \in 1..(to - bread) |-> bread + i]
        /\ bread' = to

\* The one Read of the answer, without a deadline.
ReadHandshake ==
    /\ pc = "handshake"
    /\ TakeFromBackend
    /\ Goto("answer")
    /\ UNCHANGED <<client, expired, parse, backend, up, down, hand, passed, ended, first>>

HandshakeFails ==
    /\ pc = "handshake" /\ bgone /\ bread = bsent
    /\ Reject
    /\ UNCHANGED <<client, expired, parse, backend, tunnel>>

\* clientConn.Write
ToClient ==
    /\ held # <<>> /\ CanWrite
    /\ wire' = Append(wire, [k |-> "data", n |-> 0])
    /\ data' = data \o held
    /\ held' = <<>>

WriteHandshake ==
    /\ pc = "answer"
    /\ ToClient
    /\ pc' = "tunnel"
    /\ UNCHANGED <<client, expired, parse, answer, resp, copied, backend, bread,
                   up, down, hand, passed, ended, first>>

\* The client has gone: the error, and the answer to it, fail too.
AnswerFails ==
    /\ pc = "answer" /\ gone
    /\ Goto("closed")
    /\ UNCHANGED <<client, expired, parse, backend, tunnel>>

-----------------------------------------------------------------------------
(* The tunnel: two io.Copy.                                                *)

\* The first of them to end is the one the code waits for.
Ends(why) == ended' = IF ended = "no" THEN why ELSE ended

\* io.Copy(backendConn, clientConn): a read ...
UpRead ==
    /\ pc = "tunnel" /\ up = "read" /\ ~expired
    /\ Available
    /\ pos' = pos + 1
    /\ hand' = <<Tok.n>>
    /\ up' = "write"
    /\ UNCHANGED <<client, expired, pc, verb, lines, bytes, framing, body, reply,
                   backend, bread, held, down, passed, ended, first>>

\* ... and a write, which waits for a backend that does not read, and may
\* succeed or fail if it has closed.
UpWrite ==
    /\ pc = "tunnel" /\ up = "write" /\ (bgone \/ ~stalled)
    /\ passed' = passed \o hand
    /\ hand' = <<>>
    /\ up' = "read"
    /\ UNCHANGED <<client, expired, pc, parse, reply, backend, bread, held, down,
                   ended, first>>

\* Mutant: the copy ends when the client closes, not when all it sent is read.
UpEnds_AtOnce ==
    /\ pc = "tunnel"
    /\ \/ up = "read" /\ expired /\ Ends("deadline")
       \/ up = "read" /\ ~expired /\ gone /\ Ends("clientEOF")
       \/ up = "write" /\ bgone /\ Ends("write")
    /\ up' = "done"
    /\ UNCHANGED <<vars, backend, bread, held, down, hand, passed, first>>

\* The deadline that ParseRequest set holds for these reads too.
UpEnds ==
    /\ pc = "tunnel"
    /\ \/ up = "read" /\ expired /\ Ends("deadline")
       \/ up = "read" /\ ~expired /\ gone /\ pos = sent /\ Ends("clientEOF")
       \/ up = "write" /\ bgone /\ Ends("write")
    /\ up' = "done"
    /\ UNCHANGED <<vars, backend, bread, held, down, hand, passed, first>>

\* io.Copy(clientConn, backendConn)
DownRead ==
    /\ pc = "tunnel" /\ down = "read" /\ held = <<>>
    /\ TakeFromBackend
    /\ UNCHANGED <<vars, backend, up, down, hand, passed, ended, first>>

DownWrite ==
    /\ pc = "tunnel" /\ down = "read"
    /\ ToClient
    /\ UNCHANGED <<client, expired, pc, parse, answer, resp, copied, backend,
                   bread, up, down, hand, passed, ended, first>>

DownEnds ==
    /\ pc = "tunnel" /\ down = "read"
    /\ \/ held = <<>> /\ bgone /\ bread = bsent /\ Ends("backendEOF")
       \/ held # <<>> /\ gone /\ Ends("write")
    /\ down' = "done"
    /\ UNCHANGED <<vars, backend, bread, held, up, hand, passed, first>>

\* <-errCh, and the deferred closes.
CloseTunnel ==
    /\ pc = "tunnel" /\ ended # "no"
    /\ Goto("closed")
    /\ UNCHANGED <<client, expired, parse, backend, tunnel>>

-----------------------------------------------------------------------------
(* The backend, the client and the clock.                                  *)

Upgraded == pc \in {"handshake", "answer", "tunnel"}

BackendSend ==
    /\ Upgraded /\ ~bgone /\ bsent < BackendBytes
    /\ bsent' = bsent + 1
    /\ UNCHANGED <<vars, bgone, stalled, tunnel>>

BackendCloses ==
    /\ Upgraded /\ ~bgone
    /\ bgone' = TRUE
    /\ UNCHANGED <<vars, bsent, stalled, tunnel>>

BackendStalls ==
    /\ pc = "tunnel" /\ ~stalled
    /\ stalled' = TRUE
    /\ UNCHANGED <<vars, bsent, bgone, tunnel>>

TakeMore ==
    /\ ~gone /\ pc \in {"answer", "tunnel"} /\ room = Len(wire)
    /\ room' = room + 1
    /\ UNCHANGED <<script, sent, gone, expired, pc, parse, reply, backend, tunnel>>

ExpireUpgraded ==
    /\ Upgraded /\ ~expired
    /\ expired' = TRUE
    /\ UNCHANGED <<client, pc, parse, reply, backend, tunnel>>

Handshake == UpgradeFails \/ Upgrade \/ ReadHandshake \/ HandshakeFails
               \/ WriteHandshake \/ AnswerFails
UpStep == UpRead \/ UpWrite \/ UpEnds
DownStep == DownRead \/ DownWrite \/ DownEnds

Exchange(A) == A /\ UNCHANGED <<backend, tunnel>>

ConnNext ==
    \/ Exchange(Next)
    \/ Handshake \/ UpStep \/ DownStep \/ CloseTunnel
    \/ BackendSend \/ BackendCloses \/ BackendStalls \/ TakeMore \/ ExpireUpgraded

ConnSpec == ConnInit /\ [][ConnNext]_connVars

\* Every goroutine runs, the engine answers within its timeout, the deadline
\* fires.  Nothing is assumed of the client and the backend.
FairConn ==
    /\ ConnSpec
    /\ WF_connVars(Exchange(Read \/ Dispatch \/ Write) \/ Handshake)
    /\ WF_connVars(UpStep) /\ WF_connVars(DownStep) /\ WF_connVars(CloseTunnel)
    /\ WF_connVars(Exchange(Expire) \/ ExpireUpgraded)

-----------------------------------------------------------------------------
(* Properties.                                                             *)

\* The client's bytes up to token n that the parser did not swallow.
BytesTo(n) == [i \in 1..(n - first) |-> script[first + i].n]

Counting(n) == [i \in 1..n |-> i]

\* Both sides get the other's bytes in order and without a gap, and nothing
\* else; whoever ends the tunnel by closing has had all of its bytes passed on;
\* and the tunnel ends only because a side has closed or the deadline set for
\* parsing has passed (ForwardWebSocket).
TunnelFaithful ==
    ended # "no" \/ pc \in {"tunnel", "answer"} =>
        /\ data = Counting(Len(data)) /\ Len(data) <= bsent
        /\ passed = BytesTo(first + Len(passed))
        /\ pc = "closed" =>
              /\ ended = "backendEOF" => data = Counting(bsent)
              /\ ended = "clientEOF" => passed = BytesTo(sent)
              /\ gone \/ bgone \/ expired

\* Nobody can tell when these end: a client that stays without reading its
\* answer, a backend that is silent in the handshake, for which no deadline is
\* set, and one that stops reading, which also keeps the copy from the client
\* away from its deadline.
AtTheirMercy ==
    \/ Unread
    \/ pc = "answer" /\ ~gone /\ ~CanWrite
    \/ pc = "handshake" /\ bread = bsent /\ ~bgone
    \/ pc = "tunnel" /\ up = "write" /\ stalled /\ ~bgone

\* Every other connection ends (handleConnection, ForwardWebSocket).
ConnectionEnds == <>(pc \in {"closed", "panic"}) \/ <>[]AtTheirMercy
=============================================================================
