-------------------------- MODULE ConnectionProofs --------------------------
(***************************************************************************)
(* What a connection promises, for every script, answer and limit: the     *)
(* bound on a request's body, the answer the client gets, and the bytes of *)
(* the tunnel.                                                             *)
(***************************************************************************)
EXTENDS Connection, SequenceTheorems, FiniteSetTheorems, TLAPS

-----------------------------------------------------------------------------
(* The request's body.                                                     *)

\* The variables the argument is about.
Types ==
    /\ script \in Scripts /\ sent \in 0..Len(script) /\ pos \in 0..sent
    /\ isChunked \in BOOLEAN /\ clen \in Int
    /\ total \in Int /\ need \in Nat /\ got \in Seq(Int)

\* BodyBounded is not inductive: that a chunk fits follows from the running
\* total, so the total has to be exact whenever another size may be read.
Exact ==
    /\ pc \in {"line", "headers"} => total = 0 /\ need = 0 /\ got = <<>>
    /\ pc \in {"size", "crlf"} => isChunked /\ need = 0
    /\ pc = "data" => need > 0
    /\ pc \in {"size", "data", "crlf"} /\ isChunked => total = Len(got) + need

IInv == Types /\ Exact /\ BodyBounded

\* What a token of a script is.
LEMMA TokenType ==
    ASSUME Types, Available
    PROVE  Tok \in Token /\ Tok.n <= MaxInt
  <1>1. script \in Seq(Token)
    BY ExchangeAssumption DEF Types
  <1>2. pos + 1 \in 1..Len(script)
    BY <1>1 DEF Types, Available
  <1> QED
    BY <1>1, <1>2, ExchangeAssumption DEF Types, Tok

\* A size added to a total within the limit either fits or wraps to a negative
\* number, never to a small positive one.
LEMMA FitsOrNegative ==
    ASSUME Types, Available, total >= 0, total <= MaxBody
    PROVE  /\ AddChunk(Tok.n) \in Int
           /\ AddChunk(Tok.n) = total + Tok.n \/ AddChunk(Tok.n) < 0
  <1>1. Tok \in Token /\ Tok.n <= MaxInt
    BY TokenType
  <1> QED
    BY <1>1, ExchangeAssumption DEF AddChunk, Wrap, Types, Token

LEMMA InitIInv == Init => IInv
  <1> SUFFICES ASSUME Init PROVE IInv
    OBVIOUS
  <1>1. Len(script) \in Nat
    BY ExchangeAssumption DEF Init
  <1>2. Types
    <2>1. script \in Scripts /\ sent \in 0..Len(script) /\ pos \in 0..sent
      BY <1>1 DEF Init
    <2>2. isChunked \in BOOLEAN
      BY DEF Init
    <2>3. clen \in Int /\ total \in Int /\ need \in Nat /\ got \in Seq(Int)
      BY DEF Init, Absent
    <2> QED
      BY <2>1, <2>2, <2>3 DEF Types
  <1>3. Exact /\ BodyBounded
    BY ExchangeAssumption DEF Init, Exact, BodyBounded
  <1> QED
    BY <1>2, <1>3 DEF IInv

\* Every step of the connection, the client and the clock keeps IInv.
LEMMA NextIInv ==
    ASSUME IInv, [Next]_vars
    PROVE  IInv'
  <1> USE ExchangeAssumption
  <1>0. CASE UNCHANGED vars
    BY <1>0 DEF vars, client, parse, framing, body, IInv, Types, Exact, BodyBounded
  <1>1. CASE ReadRequestLine
    BY <1>1 DEF ReadRequestLine, Reject, Abort, Goto, client, framing, body,
                Available, IInv, Types, Exact, BodyBounded
  <1>2. CASE TooManyHeaders
    BY <1>2 DEF TooManyHeaders, Reject, client, parse, framing, body,
                IInv, Types, Exact, BodyBounded
  <1>3. CASE ReadHeader
    <2>1. Tok \in Token
      BY <1>3, TokenType DEF IInv, ReadHeader
    <2>2. /\ clen' \in Int
          /\ isChunked' \in BOOLEAN
      <3>1. CASE Tok.k = "long"
        BY <1>3, <3>1 DEF ReadHeader, framing, IInv, Types
      <3>2. CASE Tok.k # "long"
        <4>1. clen' \in {clen, Tok.n, Junk}
          BY <1>3, <3>2 DEF ReadHeader, Value
        <4>2. isChunked' = (isChunked \/ (Tok.k = "chunked" /\ ~coded))
          BY <1>3, <3>2 DEF ReadHeader
        <4> QED
          BY <4>1, <4>2, <2>1 DEF IInv, Types, Token, Junk
      <3> QED
        BY <3>1, <3>2
    <2>3. pc' \in {"headers", "head", "closed"}
      BY <1>3 DEF ReadHeader, Reject, Abort, Goto
    <2> QED
      BY <1>3, <2>2, <2>3 DEF ReadHeader, client, body, Available,
                              IInv, Types, Exact, BodyBounded
  <1>4. CASE ReadBlank
    <2>1. /\ pc = "headers" /\ pos' = pos + 1 /\ pos < sent
          /\ UNCHANGED <<script, sent, isChunked, clen, total, got>>
      BY <1>4 DEF ReadBlank, Available, client, framing, body
    <2>2. \/ pc' \in {"dispatch", "head"} /\ need' = need
          \/ pc' = "size" /\ isChunked /\ need' = need
          \/ pc' = "data" /\ ~isChunked /\ need' = clen /\ clen > 0 /\ clen <= MaxBody
      BY <1>4 DEF ReadBlank, TooLarge, Reject, Goto, body, IInv, Types
    <2>3. Types'
      BY <2>1, <2>2 DEF IInv, Types
    <2>4. Exact' /\ BodyBounded'
      BY <2>1, <2>2 DEF IInv, Types, Exact, BodyBounded
    <2> QED
      BY <2>3, <2>4 DEF IInv
  <1>5. CASE ReadSize
    <2>1. Tok \in Token
      BY <1>5, TokenType DEF IInv, ReadSize
    <2>2. total >= 0 /\ total <= MaxBody
      BY <1>5 DEF ReadSize, IInv, Types, Exact, BodyBounded
    <2>3. /\ AddChunk(Tok.n) \in Int
          /\ AddChunk(Tok.n) = total + Tok.n \/ AddChunk(Tok.n) < 0
      BY <1>5, <2>2, FitsOrNegative DEF IInv, ReadSize
    <2>4. /\ pc = "size" /\ pos' = pos + 1 /\ pos < sent
          /\ UNCHANGED <<script, sent, isChunked, clen, got>>
      BY <1>5 DEF ReadSize, Available, client, framing
    <2>5. \/ pc' \in {"closed", "trailers"} /\ UNCHANGED <<total, need>>
          \/ pc' = "closed" /\ total' = AddChunk(Tok.n) /\ need' = need
          \/ /\ pc' = IF total' < 0 THEN "panic" ELSE "data"
             /\ Tok.n > 0 /\ total' = AddChunk(Tok.n) /\ need' = Tok.n /\ total' <= MaxBody
      BY <1>5, <2>1, <2>3 DEF ReadSize, TooLarge, Abort, Goto, Token
    <2>6. Types'
      <3>1. total' \in Int
        BY <2>3, <2>5 DEF IInv, Types
      <3>2. need' \in Nat
        BY <2>1, <2>5 DEF IInv, Types, Token
      <3>3. pos' \in 0..sent'
        BY <2>4 DEF IInv, Types
      <3> QED
        BY <2>4, <3>1, <3>2, <3>3 DEF IInv, Types
    <2>7. Exact' /\ BodyBounded'
      BY <2>1, <2>3, <2>4, <2>5 DEF IInv, Types, Exact, BodyBounded, Token
    <2> QED
      BY <2>6, <2>7 DEF IInv
  <1>6. CASE ReadByte
    <2>1. Tok \in Token
      BY <1>6, TokenType DEF IInv, ReadByte
    <2>2. got' \in Seq(Int) /\ Len(got') = Len(got) + 1
      BY <1>6, <2>1 DEF ReadByte, Token, IInv, Types
    <2>3. /\ pc = "data" /\ pos' = pos + 1 /\ pos < sent /\ need' = need - 1
          /\ UNCHANGED <<script, sent, isChunked, clen, total>>
      BY <1>6 DEF ReadByte, Available, client, framing
    <2>4. \/ pc' = "data" /\ need > 1
          \/ pc' = "crlf" /\ isChunked /\ ~(need > 1)
          \/ pc' = "dispatch"
      BY <1>6 DEF ReadByte, Goto
    <2>5. Types'
      BY <2>2, <2>3 DEF IInv, Types, Exact
    <2>6. Len(got') + need' = Len(got) + need
      BY <2>2, <2>3 DEF IInv, Types
    <2>7. BodyBounded'
      BY <2>3, <2>6 DEF IInv, BodyBounded
    <2>8. Exact'
      <3>1. need' \in Nat /\ need \in Nat
        BY <2>3, <2>5 DEF IInv, Types
      <3> QED
        BY <2>3, <2>4, <2>6, <3>1 DEF IInv, Exact
    <2> QED
      BY <2>5, <2>7, <2>8 DEF IInv
  <1>7. CASE ReadCRLF
    BY <1>7 DEF ReadCRLF, Abort, Goto, client, framing, body, Available,
                IInv, Types, Exact, BodyBounded
  <1>8. CASE ReadTrailer
    BY <1>8 DEF ReadTrailer, Goto, client, framing, body, Available,
                IInv, Types, Exact, BodyBounded
  <1>9. CASE ReadFails
    BY <1>9 DEF ReadFails, Parsing, Abort, Goto, client, parse, framing, body,
                IInv, Types, Exact, BodyBounded
  <1>10. CASE Dispatch
    BY <1>10 DEF Dispatch, Reject, Abort, client, parse, framing, body,
                 IInv, Types, Exact, BodyBounded
  <1>11. CASE Write
    <2>1. pc \in {"head", "body"} /\ pc' \in {"body", "closed"} /\ UNCHANGED <<client, parse>>
      BY <1>11 DEF Write, WriteHead, WriteData, WriteEnd, WriteFails, Goto
    <2> QED
      BY <2>1 DEF client, parse, framing, body, IInv, Types, Exact, BodyBounded
  <1>12. CASE Send
    BY <1>12 DEF Send, parse, framing, body, IInv, Types, Exact, BodyBounded
  <1>13. CASE Hangup \/ Take \/ Expire \/ Done
    BY <1>13 DEF Hangup, Take, Expire, Done, vars, client, parse, framing, body,
                 IInv, Types, Exact, BodyBounded
  <1> QED
    BY <1>0, <1>1, <1>2, <1>3, <1>4, <1>5, <1>6, <1>7, <1>8, <1>9, <1>10,
       <1>11, <1>12, <1>13 DEF Next, Read

\* A step past the HTTP exchange leaves the parser where it is, but for the
\* bytes it takes from the client, and never goes back to parsing.
LEMMA BeyondExchange ==
    ASSUME IInv, [ConnNext]_connVars
    PROVE  \/ [Next]_vars
           \/ /\ UNCHANGED <<script, framing, body>>
              /\ sent' = sent /\ pos' \in pos..sent
              /\ pc' = pc \/ (pc # "panic" /\ pc' \in {"head", "handshake", "answer", "tunnel", "closed"})
  <1>1. pos \in Nat /\ sent \in Nat /\ pos <= sent
    <2>1. Len(script) \in Nat
      BY ExchangeAssumption DEF IInv, Types
    <2> QED
      BY <2>1 DEF IInv, Types
  <1>2. CASE UNCHANGED connVars
    BY <1>2 DEF connVars
  <1>3. CASE Exchange(Next)
    BY <1>3 DEF Exchange
  <1>4. CASE Handshake
    BY <1>1, <1>4 DEF Handshake, UpgradeFails, Upgrade, ReadHandshake, HandshakeFails,
       WriteHandshake, AnswerFails, Reject, Goto, client, parse
  <1>5. CASE UpStep
    <2>1. CASE UpRead
      BY <1>1, <2>1 DEF UpRead, Available, client
    <2>2. CASE UpWrite
      BY <1>1, <2>2 DEF UpWrite, client, parse
    <2>3. CASE UpEnds
      BY <1>1, <2>3 DEF UpEnds, vars
    <2> QED
      BY <1>5, <2>1, <2>2, <2>3 DEF UpStep
  <1>6. CASE DownStep \/ CloseTunnel
    <2>1. CASE DownRead \/ DownEnds
      BY <2>1 DEF DownRead, DownEnds
    <2>2. CASE DownWrite \/ CloseTunnel
      BY <1>1, <2>2 DEF DownWrite, CloseTunnel, Goto, client, parse
    <2> QED
      BY <1>6, <2>1, <2>2 DEF DownStep
  <1>7. CASE BackendSend \/ BackendCloses \/ BackendStalls
    BY <1>7 DEF BackendSend, BackendCloses, BackendStalls
  <1>8. CASE TakeMore \/ ExpireUpgraded
    BY <1>1, <1>8 DEF TakeMore, ExpireUpgraded, client, parse
  <1> QED
    BY <1>2, <1>3, <1>4, <1>5, <1>6, <1>7, <1>8 DEF ConnNext

LEMMA ConnIInv ==
    ASSUME IInv, [ConnNext]_connVars
    PROVE  IInv'
  <1>1. CASE [Next]_vars
    BY <1>1, NextIInv
  <1>2. CASE /\ UNCHANGED <<script, framing, body>>
             /\ sent' = sent /\ pos' \in pos..sent
             /\ pc' = pc \/ (pc # "panic" /\ pc' \in {"head", "handshake", "answer", "tunnel", "closed"})
    <2>1. Types'
      <3>1. Len(script) \in Nat
        BY ExchangeAssumption DEF IInv, Types
      <3> QED
        BY <1>2, <3>1 DEF IInv, Types, framing, body
    <2>2. Exact' /\ BodyBounded'
      BY <1>2 DEF IInv, Types, Exact, BodyBounded, framing, body
    <2> QED
      BY <2>1, <2>2 DEF IInv
  <1> QED
    BY <1>1, <1>2, BeyondExchange

LEMMA ParserInvariant == ConnSpec => []IInv
  <1>1. ConnInit => IInv
    BY InitIInv DEF ConnInit
  <1>2. IInv /\ [ConnNext]_connVars => IInv'
    BY ConnIInv
  <1> QED
    BY <1>1, <1>2, PTL DEF ConnSpec

\* For every script, answer and limit, the parser never holds or awaits more
\* than maxBodyBytes of a body, a size that wraps the total included, on a
\* connection that is upgraded too (readBodyFromHeaders, readChunkedBody).
THEOREM BodyStaysBounded == ConnSpec => []BodyBounded
  <1>1. IInv => BodyBounded
    BY DEF IInv
  <1> QED
    BY <1>1, ParserInvariant, PTL

-----------------------------------------------------------------------------
(* The request's framing.                                                  *)

\* readHeaders has seen the tokens before h, and no blank line among them.
HeadersRead(h) ==
    /\ verb = script[1].k /\ verb \in {"get", "post"}
    /\ \A i \in 2..h-1 : script[i].k # "blank"
    /\ isChunked <=> SaysChunked(h)
    /\ IF \E i \in 2..h-1 : LengthHeader(script[i])
         THEN clen # Absent /\ SaysLength(h, clen)
         ELSE clen = Absent

SaysCoded(h) == \E i \in 2..h-1 : script[i].k = "coding"

\* The tokens b..e are whole chunks.
ChunksUpTo(b, e) ==
    /\ b <= e => script[b].k = "size"
    /\ \A c \in b..e : script[c].k = "size" =>
          /\ IsChunk(c) /\ ChunkEnd(c) <= e
          /\ ChunkEnd(c) = e \/ script[ChunkEnd(c) + 1].k = "size"

\* The parser is inside the chunk at c, need bytes before its end.
InChunk(c) ==
    /\ script[c].k = "size" /\ script[c].n > 0
    /\ pos = c + script[c].n - need
    /\ \A i \in c+1..pos : script[i].k = "byte"

\* What readBodyFromHeaders has made of the tokens after h.
BodyRead(h) ==
    /\ pc # "dispatch" => verb = "post"
    /\ pc = "size" => ChunksUpTo(h + 1, pos) /\ IsPayload(got, h + 1, pos)
    /\ pc \in {"data", "crlf"} /\ isChunked =>
          /\ \E c \in h+1..pos : ChunksUpTo(h + 1, c - 1) /\ InChunk(c)
          /\ IsPayload(got, h + 1, pos)
    /\ pc = "data" /\ ~isChunked =>
          /\ clen > 0 /\ Len(got) = clen - need /\ pos = h + Len(got)
          /\ \A i \in 1..Len(got) : script[h + i] = [k |-> "byte", n |-> got[i]]
    /\ pc = "trailers" =>
          /\ isChunked
          /\ \E e \in h+1..pos : AreChunks(h + 1, e) /\ IsPayload(got, h + 1, e)
    /\ pc = "dispatch" => FramedBody(h)

\* RequestIntact speaks of a parser that is done.  On the way it has to be
\* known what it took the headers to say, and where it stands among the chunks.
Framing ==
    /\ pc = "line" => pos = 0 /\ ~isChunked /\ ~coded /\ clen = Absent
    /\ pc = "headers" => pos >= 1 /\ HeadersRead(pos + 1) /\ (coded <=> SaysCoded(pos + 1))
    /\ pc \in {"size", "data", "crlf", "trailers", "dispatch"} =>
          \E h \in 2..pos : EndsHeaders(h) /\ HeadersRead(h) /\ BodyRead(h)

LEMMA ScriptType ==
    ASSUME Types
    PROVE  /\ Len(script) \in Nat /\ pos \in Nat /\ sent \in Nat /\ need \in Nat
           /\ pos <= sent /\ sent <= Len(script)
           /\ \A i \in 1..Len(script) : script[i].n \in Int
  <1>1. script \in Seq(Token)
    BY ExchangeAssumption DEF Types
  <1>2. \A i \in 1..Len(script) : script[i] \in Token
    BY <1>1
  <1> QED
    BY <1>1, <1>2 DEF Types, Token

LEMMA BytesFinite ==
    ASSUME NEW b \in Int, NEW e \in Int
    PROVE  /\ IsFiniteSet(BytesIn(b, e)) /\ Cardinality(BytesIn(b, e)) \in Nat
  <1>1. IsFiniteSet(b..e)
    BY FS_Interval
  <1>2. BytesIn(b, e) \subseteq b..e
    BY DEF BytesIn
  <1>3. IsFiniteSet(BytesIn(b, e))
    BY <1>1, <1>2, FS_Subset
  <1> QED
    BY <1>3, FS_CardinalityType

\* No token, no byte.
LEMMA PayloadEmpty ==
    ASSUME NEW b \in Int
    PROVE  IsPayload(<<>>, b, b - 1)
  <1>1. BytesIn(b, b - 1) = {}
    BY DEF BytesIn
  <1>2. Cardinality(BytesIn(b, b - 1)) = 0
    BY <1>1, FS_EmptySet
  <1> QED
    BY <1>1, <1>2 DEF IsPayload

\* A line or a CRLF adds nothing to the payload ...
LEMMA PayloadLine ==
    ASSUME NEW b \in Int, NEW e \in Int, NEW s \in Seq(Int),
           IsPayload(s, b, e), script[e + 1].k # "byte"
    PROVE  IsPayload(s, b, e + 1)
  <1>1. BytesIn(b, e + 1) = BytesIn(b, e)
    BY DEF BytesIn
  <1> QED
    BY <1>1 DEF IsPayload

\* ... and a byte its value.
LEMMA PayloadByte ==
    ASSUME NEW b \in Int, NEW e \in Int, b <= e + 1, NEW s \in Seq(Int),
           IsPayload(s, b, e), script[e + 1].k = "byte", script[e + 1].n \in Int
    PROVE  IsPayload(Append(s, script[e + 1].n), b, e + 1)
  <1> DEFINE t == Append(s, script[e + 1].n)
  <1>1. BytesIn(b, e + 1) = BytesIn(b, e) \cup {e + 1}
    BY DEF BytesIn
  <1>2. e + 1 \notin BytesIn(b, e)
    BY DEF BytesIn
  <1>3. IsFiniteSet(BytesIn(b, e)) /\ Cardinality(BytesIn(b, e)) = Len(s)
    BY BytesFinite DEF IsPayload
  <1>4. Cardinality(BytesIn(b, e + 1)) = Len(s) + 1
    BY <1>1, <1>2, <1>3, FS_AddElement
  <1>5. Len(t) = Len(s) + 1 /\ t[Len(s) + 1] = script[e + 1].n
        /\ \A j \in 1..Len(s) : t[j] = s[j]
    OBVIOUS
  <1>6. ASSUME NEW i \in BytesIn(b, e)
        PROVE  Cardinality(BytesIn(b, i)) \in 1..Len(s)
    <2>1. i \in Int /\ i <= e
      BY DEF BytesIn
    <2>2. i \in BytesIn(b, i) /\ BytesIn(b, i) \subseteq BytesIn(b, e)
      BY <2>1 DEF BytesIn
    <2>3. Cardinality(BytesIn(b, i)) <= Cardinality(BytesIn(b, e))
      BY <1>3, <2>2, FS_Subset
    <2>4. Cardinality(BytesIn(b, i)) \in Nat /\ IsFiniteSet(BytesIn(b, i))
      BY <2>1, BytesFinite
    <2>5. Cardinality(BytesIn(b, i)) # 0
      BY <2>2, <2>4, FS_EmptySet
    <2> QED
      BY <1>3, <2>3, <2>4, <2>5
  <1>7. \A i \in BytesIn(b, e + 1) : t[Cardinality(BytesIn(b, i))] = script[i].n
    <2> TAKE i \in BytesIn(b, e + 1)
    <2> HIDE DEF t
    <2>1. CASE i = e + 1
      BY <2>1, <1>4, <1>5
    <2>2. CASE i \in BytesIn(b, e)
      <3>1. s[Cardinality(BytesIn(b, i))] = script[i].n
        BY <2>2 DEF IsPayload
      <3> QED
        BY <2>2, <3>1, <1>5, <1>6
    <2> QED
      BY <2>1, <2>2, <1>1
  <1> QED
    BY <1>4, <1>5, <1>7 DEF IsPayload

\* The script does not change: what is known of it before a step holds after.
LEMMA SameHeaders ==
    ASSUME UNCHANGED <<script, verb, isChunked, clen>>, NEW h
    PROVE  /\ EndsHeaders(h)' <=> EndsHeaders(h)
           /\ HeadersRead(h)' <=> HeadersRead(h)
  BY DEF EndsHeaders, HeadersRead, SaysChunked, SaysLength, LengthHeader, Value

LEMMA NowSize ==
    ASSUME script' = script, verb' = "post", pc' = "size", NEW h,
           ChunksUpTo(h + 1, pos'), IsPayload(got', h + 1, pos')
    PROVE  BodyRead(h)'
  BY DEF BodyRead, ChunksUpTo, IsChunk, ChunkEnd, IsPayload, BytesIn

LEMMA NowInChunk ==
    ASSUME script' = script, verb' = "post", pc' \in {"data", "crlf"}, isChunked',
           NEW h, NEW c \in h+1..pos', ChunksUpTo(h + 1, c - 1),
           script[c].k = "size", script[c].n > 0,
           pos' = c + script[c].n - need',
           \A i \in c+1..pos' : script[i].k = "byte",
           IsPayload(got', h + 1, pos')
    PROVE  BodyRead(h)'
  <1>1. ChunksUpTo(h + 1, c - 1)'
    BY DEF ChunksUpTo, IsChunk, ChunkEnd
  <1>2. InChunk(c)'
    BY DEF InChunk
  <1>3. IsPayload(got, h + 1, pos)'
    BY DEF IsPayload, BytesIn
  <1> QED
    BY <1>1, <1>2, <1>3 DEF BodyRead

LEMMA NowInBody ==
    ASSUME script' = script, verb' = "post", pc' = "data", ~isChunked', NEW h,
           clen' > 0, Len(got') = clen' - need', pos' = h + Len(got'),
           \A i \in 1..Len(got') : script[h + i] = [k |-> "byte", n |-> got'[i]]
    PROVE  BodyRead(h)'
  BY DEF BodyRead

LEMMA NowTrailers ==
    ASSUME script' = script, verb' = "post", pc' = "trailers", isChunked', NEW h,
           NEW e \in h+1..pos', AreChunks(h + 1, e), IsPayload(got', h + 1, e)
    PROVE  BodyRead(h)'
  <1>1. AreChunks(h + 1, e)'
    BY DEF AreChunks, IsChunk, ChunkEnd
  <1>2. IsPayload(got, h + 1, e)'
    BY DEF IsPayload, BytesIn
  <1> QED
    BY <1>1, <1>2 DEF BodyRead

\* A request without a body.
LEMMA NowEmpty ==
    ASSUME script' = script, pc' = "dispatch", NEW h, HeadersRead(h)', got' = <<>>,
           verb' = "get" \/ (~isChunked' /\ clen' \in {Absent, 0}), h \in Int, pos' >= h
    PROVE  BodyRead(h)'
  <1>1. CASE verb' = "get"
    BY <1>1 DEF HeadersRead, BodyRead, FramedBody
  <1>2. CASE verb' # "get" /\ ~isChunked' /\ clen' \in {Absent, 0}
    <2>1. ~SaysChunked(h)' /\ script[1].k # "get"
      BY <1>2 DEF HeadersRead
    <2>2. CASE (\E i \in 2..h-1 : LengthHeader(script[i]))'
      <3>1. clen' = 0 /\ SaysLength(h, clen)'
        BY <1>2, <2>2 DEF HeadersRead
      <3>2. SaysLength(h, Len(got))'
        <4>1. Len(got') = 0
          OBVIOUS
        <4> QED
          BY <3>1, <4>1 DEF SaysLength
      <3>3. FramedBody(h)'
        BY <2>1, <2>2, <3>2 DEF FramedBody
      <3> QED
        BY <3>3 DEF BodyRead
    <2>3. CASE ~(\E i \in 2..h-1 : LengthHeader(script[i]))'
      BY <2>1, <2>3 DEF BodyRead, FramedBody
    <2> QED
      BY <2>2, <2>3
  <1> QED
    BY <1>1, <1>2

\* The last byte of a body with a length.
LEMMA NowWhole ==
    ASSUME script' = script, pc' = "dispatch", NEW h, HeadersRead(h)',
           verb' = "post", ~isChunked', clen' > 0, Len(got') = clen', pos' = h + Len(got'),
           \A i \in 1..Len(got') : script[h + i] = [k |-> "byte", n |-> got'[i]]
    PROVE  BodyRead(h)'
  <1>1. ~SaysChunked(h)' /\ script[1].k # "get"
    BY DEF HeadersRead
  <1>2. (\E i \in 2..h-1 : LengthHeader(script[i]))' /\ SaysLength(h, clen)'
    BY DEF HeadersRead, Absent
  <1>3. SaysLength(h, Len(got))'
    BY <1>2 DEF SaysLength
  <1>4. FramedBody(h)'
    BY <1>1, <1>2, <1>3 DEF FramedBody
  <1> QED
    BY <1>4 DEF BodyRead

\* The end of the trailers.
LEMMA NowChunked ==
    ASSUME script' = script, pc' = "dispatch", NEW h, HeadersRead(h)',
           verb' = "post", isChunked',
           NEW e \in h+1..pos', AreChunks(h + 1, e), IsPayload(got', h + 1, e)
    PROVE  BodyRead(h)'
  <1>1. AreChunks(h + 1, e)'
    BY DEF AreChunks, IsChunk, ChunkEnd
  <1>2. IsPayload(got, h + 1, e)'
    BY DEF IsPayload, BytesIn
  <1>3. SaysChunked(h)' /\ script[1].k # "get"
    BY DEF HeadersRead
  <1>4. FramedBody(h)'
    BY <1>1, <1>2, <1>3 DEF FramedBody
  <1> QED
    BY <1>4 DEF BodyRead

\* A step that leaves the parser alone.
LEMMA SameFraming ==
    ASSUME Framing, UNCHANGED <<script, parse, pc>>
    PROVE  Framing'
  <1>0. /\ script' = script /\ pos' = pos /\ pc' = pc /\ verb' = verb /\ need' = need
        /\ isChunked' = isChunked /\ clen' = clen /\ got' = got /\ coded' = coded
    BY DEF parse, framing, body
  <1>1. CASE pc = "headers"
    <2>1. HeadersRead(pos + 1) /\ (coded <=> SaysCoded(pos + 1))
      BY <1>1 DEF Framing
    <2>2. HeadersRead(pos + 1)' /\ (coded <=> SaysCoded(pos + 1))'
      BY <1>0, <2>1 DEF HeadersRead, SaysChunked, SaysLength, LengthHeader, Value, SaysCoded
    <2> QED
      BY <1>0, <1>1, <2>2 DEF Framing
  <1>2. CASE pc \in {"size", "data", "crlf", "trailers", "dispatch"}
    <2>1. PICK h \in 2..pos : EndsHeaders(h) /\ HeadersRead(h) /\ BodyRead(h)
      BY <1>2 DEF Framing
    <2>2. EndsHeaders(h)' /\ HeadersRead(h)'
      BY <1>0, <2>1, SameHeaders
    <2>3. BodyRead(h)'
      <3>1. ChunksUpTo(h + 1, pos)' <=> ChunksUpTo(h + 1, pos)
        BY <1>0 DEF ChunksUpTo, IsChunk, ChunkEnd
      <3>2. IsPayload(got, h + 1, pos)' <=> IsPayload(got, h + 1, pos)
        BY <1>0 DEF IsPayload, BytesIn
      <3>3. \A c : /\ ChunksUpTo(h + 1, c - 1)' <=> ChunksUpTo(h + 1, c - 1)
                  /\ InChunk(c)' <=> InChunk(c)
        BY <1>0 DEF ChunksUpTo, IsChunk, ChunkEnd, InChunk
      <3>4. \A e : /\ AreChunks(h + 1, e)' <=> AreChunks(h + 1, e)
                  /\ IsPayload(got, h + 1, e)' <=> IsPayload(got, h + 1, e)
        BY <1>0 DEF AreChunks, IsChunk, ChunkEnd, IsPayload, BytesIn
      <3>5. SaysChunked(h)' <=> SaysChunked(h)
        BY <1>0 DEF SaysChunked
      <3>6. SaysLength(h, Len(got))' <=> SaysLength(h, Len(got))
        BY <1>0 DEF SaysLength, LengthHeader, Value
      <3>7. FramedBody(h)' <=> FramedBody(h)
        <4>1. (\E e \in h+1..pos : AreChunks(h + 1, e) /\ IsPayload(got, h + 1, e))'
                <=> \E e \in h+1..pos : AreChunks(h + 1, e) /\ IsPayload(got, h + 1, e)
          BY <1>0 DEF AreChunks, IsChunk, ChunkEnd, IsPayload, BytesIn
        <4>2. (\E i \in 2..h-1 : LengthHeader(script[i]))'
                <=> \E i \in 2..h-1 : LengthHeader(script[i])
          BY <1>0 DEF LengthHeader
        <4>3. (\A i \in 1..Len(got) : script[h + i] = [k |-> "byte", n |-> got[i]])'
                <=> \A i \in 1..Len(got) : script[h + i] = [k |-> "byte", n |-> got[i]]
          BY <1>0
        <4> QED
          BY <1>0, <3>5, <3>6, <4>1, <4>2, <4>3 DEF FramedBody
      <3> QED
        BY <1>0, <2>1, <3>1, <3>2, <3>3, <3>4, <3>7 DEF BodyRead
    <2> QED
      BY <1>0, <1>2, <2>2, <2>3 DEF Framing
  <1>3. CASE pc \notin {"headers", "size", "data", "crlf", "trailers", "dispatch"}
    BY <1>0, <1>3 DEF Framing
  <1> QED
    BY <1>1, <1>2, <1>3

LEMMA FramingLine ==
    ASSUME IInv, Framing, ReadRequestLine
    PROVE  Framing'
  <1>1. CASE pc' = "headers"
    <2>1. /\ pos = 0 /\ ~isChunked /\ ~coded /\ clen = Absent /\ pos' = 1
          /\ UNCHANGED <<script, isChunked, coded, clen>> /\ verb' = Tok.k /\ Tok = script[1]
      BY DEF Framing, ReadRequestLine, framing, client, Tok
    <2>2. verb' \in {"get", "post"}
      BY <1>1, <2>1 DEF ReadRequestLine, Reject, Abort
    <2>3. HeadersRead(pos + 1)' /\ (coded <=> SaysCoded(pos + 1))'
      BY <2>1, <2>2 DEF HeadersRead, SaysChunked, SaysLength, SaysCoded
    <2> QED
      BY <1>1, <2>1, <2>3 DEF Framing
  <1>2. CASE pc' # "headers"
    BY <1>2 DEF ReadRequestLine, Goto, Reject, Abort, Framing
  <1> QED
    BY <1>1, <1>2

LEMMA FramingHeader ==
    ASSUME IInv, Framing, ReadHeader
    PROVE  Framing'
  <1>1. CASE pc' = "headers"
    <2>0. /\ pos >= 1 /\ HeadersRead(pos + 1) /\ pos \in Nat
          /\ coded <=> SaysCoded(pos + 1)
      BY ScriptType DEF ReadHeader, Framing, IInv
    <2>1. /\ script' = script /\ verb' = verb /\ pos' = pos + 1
          /\ Tok = script[pos + 1] /\ Tok.k # "blank"
          /\ isChunked' = (isChunked \/ (Tok.k = "chunked" /\ ~coded))
          /\ coded' = (coded \/ Tok.k = "coding")
          /\ clen' = IF clen = Absent /\ LengthHeader(Tok) THEN Value(Tok) ELSE clen
      BY <1>1 DEF ReadHeader, Abort, client, Tok
    <2>2. Tok.n \in Int
      <3>1. pos + 1 \in 1..Len(script)
        BY <2>0, ScriptType DEF ReadHeader, Available, IInv
      <3> QED
        BY <2>1, <3>1, ScriptType DEF IInv
    <2>3. \A i : i \in 2..(pos' + 1)-1 <=> i \in 2..(pos + 1)-1 \/ i = pos + 1
      BY <2>0, <2>1
    <2>4. /\ SaysChunked(pos + 1)'
               <=> SaysChunked(pos + 1) \/ (Tok.k = "chunked" /\ ~SaysCoded(pos + 1))
          /\ SaysCoded(pos + 1)' <=> SaysCoded(pos + 1) \/ Tok.k = "coding"
      <3>1. SaysCoded(pos + 1)' <=> SaysCoded(pos + 1) \/ Tok.k = "coding"
        BY <2>1, <2>3 DEF SaysCoded
      <3>2. (\A j \in 2..(pos + 1)-1 : script[j].k # "coding") <=> ~SaysCoded(pos + 1)
        BY DEF SaysCoded
      <3>3. SaysChunked(pos + 1)'
              <=> \/ SaysChunked(pos + 1)
                  \/ script[pos + 1].k = "chunked" /\ \A j \in 2..(pos + 1)-1 : script[j].k # "coding"
        BY <2>0, <2>1, <2>3 DEF SaysChunked
      <3> QED
        BY <2>1, <3>1, <3>2, <3>3
    <2>5. (\E i \in 2..(pos + 1)-1 : LengthHeader(script[i]))'
            <=> (\E i \in 2..(pos + 1)-1 : LengthHeader(script[i])) \/ LengthHeader(Tok)
      BY <2>1, <2>3 DEF LengthHeader
    <2>6. IF (\E i \in 2..(pos + 1)-1 : LengthHeader(script[i]))'
            THEN clen' # Absent /\ SaysLength(pos + 1, clen)'
            ELSE clen' = Absent
      <3>1. CASE \E i \in 2..(pos + 1)-1 : LengthHeader(script[i])
        <4>1. clen # Absent /\ SaysLength(pos + 1, clen)
          BY <2>0, <3>1 DEF HeadersRead
        <4>2. clen' = clen
          BY <2>1, <4>1
        <4>3. SaysLength(pos + 1, clen)'
          BY <2>1, <2>3, <4>1, <4>2 DEF SaysLength, LengthHeader, Value
        <4> QED
          BY <3>1, <2>5, <4>1, <4>2, <4>3
      <3>2. CASE ~(\E i \in 2..(pos + 1)-1 : LengthHeader(script[i])) /\ LengthHeader(Tok)
        <4>1. clen = Absent
          BY <2>0, <3>2 DEF HeadersRead
        <4>2. clen' = Value(Tok)
          BY <2>1, <3>2, <4>1
        <4>3. clen' # Absent
          BY <2>2, <4>2 DEF Value, Absent, Junk
        <4>4. SaysLength(pos + 1, clen)'
          BY <2>0, <2>1, <2>3, <3>2, <4>2 DEF SaysLength, LengthHeader, Value
        <4> QED
          BY <3>2, <2>5, <4>3, <4>4
      <3>3. CASE ~(\E i \in 2..(pos + 1)-1 : LengthHeader(script[i])) /\ ~LengthHeader(Tok)
        <4>1. clen = Absent
          BY <2>0, <3>3 DEF HeadersRead
        <4> QED
          BY <2>1, <2>5, <3>3, <4>1
      <3> QED
        BY <3>1, <3>2, <3>3
    <2>7. (\A i \in 2..(pos + 1)-1 : script[i].k # "blank")'
      BY <2>0, <2>1, <2>3 DEF HeadersRead
    <2>8. (isChunked <=> SaysChunked(pos + 1))' /\ (coded <=> SaysCoded(pos + 1))'
      BY <2>0, <2>1, <2>4 DEF HeadersRead
    <2>9. (verb = script[1].k /\ verb \in {"get", "post"})'
      BY <2>0, <2>1 DEF HeadersRead
    <2>10. HeadersRead(pos + 1)'
      BY <2>6, <2>7, <2>8, <2>9 DEF HeadersRead
    <2> QED
      BY <1>1, <2>0, <2>1, <2>8, <2>10 DEF Framing
  <1>2. CASE pc' # "headers"
    BY <1>2 DEF ReadHeader, Goto, Reject, Abort, Framing
  <1> QED
    BY <1>1, <1>2

LEMMA FramingBlank ==
    ASSUME IInv, Framing, ReadBlank
    PROVE  Framing'
  <1>0. PICK h : h = pos + 1
    OBVIOUS
  <1>1. /\ pos >= 1 /\ HeadersRead(h) /\ pos \in Nat /\ got = <<>> /\ clen \in Int
    BY <1>0, ScriptType DEF ReadBlank, Framing, IInv, Exact, Types
  <1>2. /\ UNCHANGED <<script, verb, isChunked, clen, got>> /\ pos' = h
        /\ script[h].k = "blank"
    BY <1>0 DEF ReadBlank, client, framing, body, Tok
  <1>3. EndsHeaders(h) /\ h \in 2..pos' /\ h \in Int
    BY <1>0, <1>1, <1>2 DEF EndsHeaders, HeadersRead
  <1>4. EndsHeaders(h)' /\ HeadersRead(h)'
    BY <1>1, <1>2, <1>3, SameHeaders
  <1>5. ASSUME BodyRead(h)' PROVE Framing'
    <2>1. \E x \in 2..pos' : EndsHeaders(x)' /\ HeadersRead(x)' /\ BodyRead(x)'
      BY <1>3, <1>4, <1>5
    <2>2. pc' # "headers" /\ pc' # "line"
      BY DEF ReadBlank, Goto, Reject
    <2> QED
      BY <2>1, <2>2 DEF Framing
  <1>6. CASE (verb = "get" \/ (~isChunked /\ clen \in {Absent, 0})) /\ pc' = "dispatch"
    <2>1. BodyRead(h)'
      BY <1>1, <1>2, <1>3, <1>4, <1>6, NowEmpty
    <2> QED
      BY <1>5, <2>1
  <1>7. CASE verb = "post" /\ isChunked /\ pc' = "size"
    <2>1. IsPayload(got', h + 1, pos')
      <3>1. h + 1 \in Int /\ (h + 1) - 1 = pos'
        BY <1>2, <1>3
      <3> QED
        BY <1>1, <1>2, <3>1, PayloadEmpty
    <2>2. ChunksUpTo(h + 1, pos')
      BY <1>2, <1>3 DEF ChunksUpTo
    <2>3. BodyRead(h)'
      BY <1>2, <1>7, <2>1, <2>2, NowSize
    <2> QED
      BY <1>5, <2>3
  <1>8. CASE verb = "post" /\ ~isChunked /\ clen > 0 /\ pc' = "data" /\ need' = clen
    <2>1. Len(got') = 0
      BY <1>1, <1>2
    <2>2. Len(got') = clen' - need' /\ pos' = h + Len(got') /\ clen' > 0
      BY <1>1, <1>2, <1>3, <1>8, <2>1
    <2>3. BodyRead(h)'
      BY <1>2, <1>8, <2>1, <2>2, NowInBody
    <2> QED
      BY <1>5, <2>3
  <1>9. CASE pc' = "head"
    BY <1>9 DEF Framing
  <1> QED
    BY <1>6, <1>7, <1>8, <1>9 DEF ReadBlank, Goto, Reject

\* A step of readBodyFromHeaders: the headers stay read.
LEMMA FramingBody ==
    ASSUME IInv, NEW h \in 2..pos, EndsHeaders(h), HeadersRead(h),
           UNCHANGED <<script, verb, isChunked, clen>>,
           pos' \in {pos, pos + 1}, BodyRead(h)', pc' \notin {"line", "headers"}
    PROVE  Framing'
  <1>1. EndsHeaders(h)' /\ HeadersRead(h)'
    BY SameHeaders
  <1>2. h \in 2..pos'
    BY ScriptType DEF IInv
  <1>3. \E x \in 2..pos' : EndsHeaders(x)' /\ HeadersRead(x)' /\ BodyRead(x)'
    BY <1>1, <1>2
  <1> QED
    BY <1>3 DEF Framing

\* A parser that reads on has a next token.
LEMMA NextToken ==
    ASSUME IInv, Available
    PROVE  /\ pos \in Nat /\ Len(script) \in Nat /\ pos + 1 <= Len(script)
           /\ Tok = script[pos + 1] /\ Tok.n \in Int
  <1>1. pos \in Nat /\ Len(script) \in Nat /\ pos + 1 <= Len(script)
    BY ScriptType DEF IInv, Available
  <1>2. pos + 1 \in 1..Len(script)
    BY <1>1
  <1> QED
    BY <1>1, <1>2, ScriptType DEF IInv, Tok

LEMMA FramingSize ==
    ASSUME IInv, Framing, ReadSize
    PROVE  Framing'
  <1>1. PICK h \in 2..pos : EndsHeaders(h) /\ HeadersRead(h) /\ BodyRead(h)
    BY DEF Framing, ReadSize
  <1>2. /\ pos \in Nat /\ Len(script) \in Nat /\ pos + 1 <= Len(script)
        /\ Tok = script[pos + 1] /\ Tok.n \in Int
    BY NextToken DEF ReadSize
  <1>3. /\ UNCHANGED <<script, verb, isChunked, clen, got>> /\ pos' = pos + 1
        /\ got \in Seq(Int) /\ isChunked /\ need = 0
    BY DEF ReadSize, client, framing, IInv, Exact, Types
  <1>4. verb = "post" /\ ChunksUpTo(h + 1, pos) /\ IsPayload(got, h + 1, pos)
    BY <1>1 DEF BodyRead, ReadSize
  <1>5. CASE Tok.k = "size" /\ Tok.n = 0 /\ pc' = "trailers"
    <2>1. AreChunks(h + 1, pos + 1)
      <3>1. script[h + 1].k = "size"
        BY <1>1, <1>2, <1>4, <1>5 DEF ChunksUpTo
      <3>2. ASSUME NEW c \in h+1..pos, script[c].k = "size"
            PROVE  IsChunk(c) /\ ChunkEnd(c) < pos + 1 /\ script[ChunkEnd(c) + 1].k = "size"
        <4>1. /\ IsChunk(c) /\ ChunkEnd(c) <= pos
              /\ ChunkEnd(c) = pos \/ script[ChunkEnd(c) + 1].k = "size"
          BY <1>4, <3>2 DEF ChunksUpTo
        <4>2. ChunkEnd(c) \in Int
          <5>1. c \in 1..Len(script)
            BY <1>1, <1>2
          <5> QED
            BY <5>1, ScriptType DEF ChunkEnd, IInv
        <4> QED
          BY <1>2, <1>5, <4>1, <4>2
      <3>3. (pos + 1) - 1 = pos
        BY <1>2
      <3> QED
        BY <1>2, <1>5, <3>1, <3>2, <3>3 DEF AreChunks
    <2>2. IsPayload(got', h + 1, pos + 1)
      <3>1. h + 1 \in Int /\ pos \in Int /\ script[pos + 1].k # "byte"
        BY <1>1, <1>2, <1>5
      <3> QED
        BY <1>3, <1>4, <3>1, PayloadLine
    <2>3. pos + 1 \in h+1..pos'
      BY <1>1, <1>2, <1>3
    <2>4. BodyRead(h)'
      <3>1. PICK e : e = pos + 1
        OBVIOUS
      <3> QED
        BY <1>3, <1>4, <1>5, <2>1, <2>2, <2>3, <3>1, NowTrailers
    <2> QED
      BY <1>1, <1>3, <1>5, <2>4, FramingBody
  <1>6. CASE Tok.k = "size" /\ Tok.n > 0 /\ need' = Tok.n /\ pc' = "data"
    <2>1. PICK c : c = pos + 1
      OBVIOUS
    <2>2. c \in h+1..pos' /\ c \in Int /\ c - 1 = pos
      BY <1>1, <1>2, <1>3, <2>1
    <2>3. ChunksUpTo(h + 1, c - 1)
      BY <1>4, <2>2
    <2>4. /\ script[c].k = "size" /\ script[c].n > 0 /\ pos' = c + script[c].n - need'
          /\ \A i \in c+1..pos' : script[i].k = "byte"
      BY <1>2, <1>3, <1>6, <2>1
    <2>5. IsPayload(got', h + 1, pos')
      <3>1. h + 1 \in Int /\ pos \in Int /\ script[pos + 1].k # "byte"
        BY <1>1, <1>2, <1>6
      <3> QED
        BY <1>3, <1>4, <3>1, PayloadLine
    <2>6. BodyRead(h)'
      BY <1>3, <1>4, <1>6, <2>2, <2>3, <2>4, <2>5, NowInChunk
    <2> QED
      BY <1>1, <1>3, <1>6, <2>6, FramingBody
  <1>7. CASE pc' \in {"closed", "panic"}
    BY <1>7 DEF Framing
  <1> QED
    BY <1>5, <1>6, <1>7 DEF ReadSize, Abort, Goto

LEMMA FramingByte ==
    ASSUME IInv, Framing, ReadByte
    PROVE  Framing'
  <1>1. PICK h \in 2..pos : EndsHeaders(h) /\ HeadersRead(h) /\ BodyRead(h)
    BY DEF Framing, ReadByte
  <1>2. /\ pos \in Nat /\ Len(script) \in Nat /\ pos + 1 <= Len(script)
        /\ Tok = script[pos + 1] /\ Tok.n \in Int
    BY NextToken DEF ReadByte
  <1>3. /\ UNCHANGED <<script, verb, isChunked, clen>> /\ pos' = pos + 1 /\ pc = "data"
        /\ got \in Seq(Int) /\ got' = Append(got, script[pos + 1].n)
        /\ need' = need - 1 /\ need \in Nat /\ need > 0
        /\ script[pos + 1].k = "byte" /\ clen \in Int
    BY <1>2 DEF ReadByte, client, framing, IInv, Exact, Types
  <1>4. pc' = IF need > 1 THEN "data" ELSE IF isChunked THEN "crlf" ELSE "dispatch"
    BY DEF ReadByte, Goto
  <1>5. verb = "post"
    BY <1>1, <1>3 DEF BodyRead
  <1>6. CASE isChunked
    <2>1. IsPayload(got, h + 1, pos)
      BY <1>1, <1>3, <1>6 DEF BodyRead
    <2>2. PICK c \in h+1..pos : ChunksUpTo(h + 1, c - 1) /\ InChunk(c)
      BY <1>1, <1>3, <1>6 DEF BodyRead
    <2>3. c \in 1..Len(script) /\ c \in Int
      BY <1>1, <1>2
    <2>4. script[c].n \in Int
      BY <2>3, ScriptType DEF IInv
    <2>5. IsPayload(got', h + 1, pos')
      <3>1. h + 1 \in Int /\ pos \in Int /\ h + 1 <= pos + 1 /\ script[pos + 1].n \in Int
        BY <1>1, <1>2
      <3> QED
        BY <1>3, <2>1, <3>1, PayloadByte
    <2>6. /\ script[c].k = "size" /\ script[c].n > 0 /\ pos = c + script[c].n - need
          /\ \A i \in c+1..pos : script[i].k = "byte"
      BY <2>2 DEF InChunk
    <2>7. pos' = c + script[c].n - need' /\ c \in h+1..pos'
      BY <1>1, <1>2, <1>3, <2>3, <2>4, <2>6
    <2>8. \A i \in c+1..pos' : script[i].k = "byte"
      BY <1>2, <1>3, <2>3, <2>6
    <2>9. pc' \in {"data", "crlf"}
      BY <1>4, <1>6
    <2>10. BodyRead(h)'
      BY <1>3, <1>5, <1>6, <2>2, <2>5, <2>6, <2>7, <2>8, <2>9, NowInChunk
    <2> QED
      BY <1>1, <1>3, <2>9, <2>10, FramingBody
  <1>7. CASE ~isChunked
    <2>1. /\ clen > 0 /\ Len(got) = clen - need /\ pos = h + Len(got)
          /\ \A i \in 1..Len(got) : script[h + i] = [k |-> "byte", n |-> got[i]]
      BY <1>1, <1>3, <1>7 DEF BodyRead
    <2>2. Len(got) \in Nat /\ Len(got') = Len(got) + 1 /\ got'[Len(got) + 1] = script[pos + 1].n
          /\ \A i \in 1..Len(got) : got'[i] = got[i]
      BY <1>2, <1>3
    <2>3. /\ Len(got') = clen' - need' /\ pos' = h + Len(got')
      <3>1. h \in Int /\ clen \in Int /\ need \in Int /\ Len(got) \in Int
        BY <1>1, <1>3, <2>2
      <3>2. Len(got) + 1 = clen - (need - 1) /\ pos + 1 = h + (Len(got) + 1)
        BY <2>1, <3>1
      <3> QED
        BY <1>3, <2>2, <3>2
    <2>4. \A i \in 1..Len(got') : script[h + i] = [k |-> "byte", n |-> got'[i]]
      <3> TAKE i \in 1..Len(got')
      <3>1. CASE i \in 1..Len(got)
        BY <2>1, <2>2, <3>1
      <3>2. CASE i = Len(got) + 1
        <4>1. h + i = pos + 1
          BY <1>1, <2>1, <2>2, <3>2
        <4>2. script[pos + 1] \in Token
          BY <1>2, <1>3, TokenType DEF ReadByte, IInv
        <4>3. script[pos + 1] = [k |-> "byte", n |-> script[pos + 1].n]
          BY <1>3, <4>2 DEF Token
        <4> QED
          BY <2>2, <3>2, <4>1, <4>3
      <3> QED
        BY <2>2, <3>1, <3>2
    <2>5. CASE pc' = "data"
      <3>1. BodyRead(h)'
        BY <1>3, <1>5, <1>7, <2>1, <2>3, <2>4, <2>5, NowInBody
      <3> QED
        BY <1>1, <1>3, <2>5, <3>1, FramingBody
    <2>6. CASE pc' = "dispatch"
      <3>1. Len(got') = clen'
        BY <1>3, <1>4, <2>3, <2>6
      <3>2. HeadersRead(h)'
        BY <1>1, <1>3, SameHeaders
      <3>3. BodyRead(h)'
        BY <1>3, <1>5, <1>7, <2>1, <2>3, <2>4, <2>6, <3>1, <3>2, NowWhole
      <3> QED
        BY <1>1, <1>3, <2>6, <3>3, FramingBody
    <2> QED
      BY <1>4, <1>7, <2>5, <2>6
  <1> QED
    BY <1>6, <1>7

LEMMA FramingCRLF ==
    ASSUME IInv, Framing, ReadCRLF
    PROVE  Framing'
  <1>1. PICK h \in 2..pos : EndsHeaders(h) /\ HeadersRead(h) /\ BodyRead(h)
    BY DEF Framing, ReadCRLF
  <1>2. /\ pos \in Nat /\ Len(script) \in Nat /\ pos + 1 <= Len(script)
        /\ Tok = script[pos + 1] /\ Tok.n \in Int
    BY NextToken DEF ReadCRLF
  <1>3. /\ UNCHANGED <<script, verb, isChunked, clen, got>> /\ pos' = pos + 1
        /\ got \in Seq(Int) /\ isChunked /\ need = 0 /\ pc = "crlf"
    BY DEF ReadCRLF, client, framing, body, IInv, Exact, Types
  <1>4. verb = "post" /\ IsPayload(got, h + 1, pos)
    BY <1>1, <1>3 DEF BodyRead
  <1>5. PICK c \in h+1..pos : ChunksUpTo(h + 1, c - 1) /\ InChunk(c)
    BY <1>1, <1>3 DEF BodyRead
  <1>6. CASE Tok.k = "crlf" /\ pc' = "size"
    <2>1. c \in 1..Len(script) /\ c \in Int /\ h \in Int
      BY <1>1, <1>2
    <2>2. script[c].n \in Int
      BY <2>1, ScriptType DEF IInv
    <2>3. /\ script[c].k = "size" /\ script[c].n > 0 /\ pos = c + script[c].n
          /\ \A i \in c+1..pos : script[i].k = "byte"
      BY <1>3, <1>5, <2>1, <2>2 DEF InChunk
    <2>4. ChunkEnd(c) = pos + 1
      BY <2>1, <2>2, <2>3 DEF ChunkEnd
    <2>5. IsChunk(c)
      BY <1>2, <1>6, <2>3, <2>4 DEF IsChunk
    <2>6. ChunksUpTo(h + 1, pos + 1)
      <3>1. script[h + 1].k = "size"
        BY <1>5, <2>1, <2>3 DEF ChunksUpTo
      <3>2. ASSUME NEW d \in h+1..pos+1, script[d].k = "size"
            PROVE  /\ IsChunk(d) /\ ChunkEnd(d) <= pos + 1
                   /\ ChunkEnd(d) = pos + 1 \/ script[ChunkEnd(d) + 1].k = "size"
        <4>1. CASE d < c
          <5>1. d \in h+1..c-1
            BY <2>1, <4>1
          <5>2. /\ IsChunk(d) /\ ChunkEnd(d) <= c - 1
                /\ ChunkEnd(d) = c - 1 \/ script[ChunkEnd(d) + 1].k = "size"
            BY <1>5, <3>2, <5>1 DEF ChunksUpTo
          <5>3. ChunkEnd(d) \in Int
            <6>1. d \in 1..Len(script)
              BY <2>1, <5>1
            <6> QED
              BY <6>1, ScriptType DEF ChunkEnd, IInv
          <5> QED
            BY <1>2, <2>1, <2>3, <5>2, <5>3
        <4>2. CASE d = c
          BY <1>2, <2>4, <2>5, <4>2
        <4>3. CASE d > c
          <5>1. d \in c+1..pos \/ d = pos + 1
            BY <1>2, <2>1, <4>3
          <5> QED
            BY <1>2, <1>6, <2>3, <3>2, <5>1
        <4> QED
          BY <2>1, <4>1, <4>2, <4>3
      <3> QED
        BY <3>1, <3>2 DEF ChunksUpTo
    <2>7. IsPayload(got', h + 1, pos')
      <3>1. h + 1 \in Int /\ pos \in Int /\ script[pos + 1].k # "byte"
        BY <1>1, <1>2, <1>6
      <3> QED
        BY <1>3, <1>4, <3>1, PayloadLine
    <2>8. BodyRead(h)'
      BY <1>3, <1>4, <1>6, <2>6, <2>7, NowSize
    <2> QED
      BY <1>1, <1>3, <1>6, <2>8, FramingBody
  <1>7. CASE pc' = "closed"
    BY <1>7 DEF Framing
  <1> QED
    BY <1>6, <1>7 DEF ReadCRLF, Abort, Goto

\* A trailer line, or the end of what can be read of the trailers.
LEMMA FramingTrailer ==
    ASSUME IInv, Framing, pc = "trailers", pc' \in {"trailers", "dispatch"},
           UNCHANGED <<script, verb, isChunked, clen, got>>, pos' \in {pos, pos + 1}
    PROVE  Framing'
  <1>1. PICK h \in 2..pos : EndsHeaders(h) /\ HeadersRead(h) /\ BodyRead(h)
    BY DEF Framing
  <1>2. verb = "post" /\ isChunked
    BY <1>1 DEF BodyRead
  <1>3. PICK e \in h+1..pos : AreChunks(h + 1, e) /\ IsPayload(got, h + 1, e)
    BY <1>1 DEF BodyRead
  <1>4. e \in h+1..pos'
    BY <1>1, ScriptType DEF IInv
  <1>5. IsPayload(got', h + 1, e)
    BY <1>3
  <1>6. HeadersRead(h)'
    BY <1>1, SameHeaders
  <1>7. BodyRead(h)'
    <2>1. CASE pc' = "trailers"
      BY <1>2, <1>3, <1>4, <1>5, <2>1, NowTrailers
    <2>2. CASE pc' = "dispatch"
      BY <1>2, <1>3, <1>4, <1>5, <1>6, <2>2, NowChunked
    <2> QED
      BY <2>1, <2>2
  <1> QED
    BY <1>1, <1>7, FramingBody

LEMMA NextFraming ==
    ASSUME IInv, Framing, [Next]_vars
    PROVE  Framing'
  <1>0. ASSUME pc' \notin {"line", "headers", "size", "data", "crlf", "trailers", "dispatch"}
        PROVE  Framing'
    BY <1>0 DEF Framing
  <1>1. CASE ReadTrailer
    BY <1>1, FramingTrailer DEF ReadTrailer, Goto, client, framing, body
  <1>2. CASE ReadFails
    <2>1. CASE pc = "trailers"
      BY <1>2, <2>1, FramingTrailer DEF ReadFails, Goto, client, parse, framing, body
    <2>2. CASE pc # "trailers"
      BY <1>0, <1>2, <2>2 DEF ReadFails, Abort
    <2> QED
      BY <2>1, <2>2
  <1>3. CASE TooManyHeaders \/ Dispatch
    BY <1>0, <1>3 DEF TooManyHeaders, Dispatch, Reject, Abort
  <1>4. CASE Write
    <2>1. pc' \in {"body", "closed"}
      BY <1>4 DEF Write, WriteHead, WriteData, WriteEnd, WriteFails, Goto
    <2> QED
      BY <1>0, <2>1
  <1>5. CASE Send \/ Hangup \/ Take \/ Expire \/ Done \/ UNCHANGED vars
    <2>1. UNCHANGED <<script, parse, pc>>
      BY <1>5 DEF Send, Hangup, Take, Expire, Done, vars, client
    <2> QED
      BY <2>1, SameFraming
  <1> QED
    BY <1>1, <1>2, <1>3, <1>4, <1>5, FramingLine, FramingHeader, FramingBlank,
       FramingSize, FramingByte, FramingCRLF DEF Next, Read

\* The tunnel reads on from where the parser stopped, and never parses again.
LEMMA ConnFraming ==
    ASSUME IInv, Framing, [ConnNext]_connVars
    PROVE  Framing'
  <1>0. ASSUME pc' \notin {"line", "headers", "size", "data", "crlf", "trailers", "dispatch"}
        PROVE  Framing'
    BY <1>0 DEF Framing
  <1>1. CASE Exchange(Next) \/ UNCHANGED connVars
    BY <1>1, NextFraming DEF Exchange, connVars
  <1>2. CASE Handshake
    <2>1. pc' \in {"head", "handshake", "answer", "tunnel", "closed"}
      BY <1>2 DEF Handshake, UpgradeFails, Upgrade, ReadHandshake, HandshakeFails,
         WriteHandshake, AnswerFails, Reject, Goto
    <2> QED
      BY <1>0, <2>1
  <1>3. CASE UpStep \/ DownStep \/ CloseTunnel
    <2>1. pc' \in {"tunnel", "closed"}
      BY <1>3 DEF UpStep, UpRead, UpWrite, UpEnds, DownStep, DownRead, DownWrite, DownEnds,
         CloseTunnel, Goto, vars
    <2> QED
      BY <1>0, <2>1
  <1>4. CASE BackendSend \/ BackendCloses \/ BackendStalls \/ TakeMore \/ ExpireUpgraded
    <2>1. UNCHANGED <<script, parse, pc>>
      BY <1>4 DEF BackendSend, BackendCloses, BackendStalls, TakeMore, ExpireUpgraded,
         vars, client
    <2> QED
      BY <2>1, SameFraming
  <1> QED
    BY <1>1, <1>2, <1>3, <1>4 DEF ConnNext

\* For every script and limit, the engine gets a request with exactly the body
\* that its headers frame: of a Content-Length the bytes that follow the blank
\* line, of a chunked body the data of the chunks in their order, up to the last
\* chunk (ParseRequest, readBodyFromHeaders, readChunkedBody).
THEOREM RequestsArriveWhole == ConnSpec => []RequestIntact
  <1>1. ConnInit => Framing
    BY DEF ConnInit, Init, Framing
  <1>2. IInv /\ Framing /\ [ConnNext]_connVars => Framing'
    BY ConnFraming
  <1>3. Framing => RequestIntact
    <2> SUFFICES ASSUME Framing, pc = "dispatch"
                 PROVE  \E h \in 2..pos : EndsHeaders(h) /\ FramedBody(h)
      BY DEF RequestIntact
    <2>1. PICK h \in 2..pos : EndsHeaders(h) /\ HeadersRead(h) /\ BodyRead(h)
      BY DEF Framing
    <2> QED
      BY <2>1 DEF BodyRead
  <1> QED
    BY <1>1, <1>2, <1>3, ParserInvariant, PTL DEF ConnSpec

-----------------------------------------------------------------------------
(* The answer.                                                             *)

\* The response that Dispatch makes of an answer.
Made(a) ==
    applyResponseRewrite(IF a.streaming THEN doForwardStream(a) ELSE doForward(a), a)

WireToken == [k : {"head", "chunkedHead", "data", "end"}, n : Int]

Served == answer # NoAnswer

\* The answers that become a response: a body that breaks off while doForward
\* reads it does not.
Handled == {a \in Answers : a.streaming \/ Readable(a)}

\* Before the first write.
Early == {"line", "headers", "size", "data", "crlf", "trailers", "dispatch",
          "handshake", "answer", "head"}

\* The client holds the head and a prefix of the body.
Written ==
    /\ wire \in Seq(WireToken) /\ wire # <<>> /\ wire[1] = HeadToken
    /\ copied \in 0..Len(Source) /\ data = SubSeq(Source, 1, copied)

HasEnd == Last(wire).k = "end"

\* AnswerIntact speaks of connections that are closed; these are the facts
\* that lead there.  A last chunk stands for a whole source, and a client that
\* stayed got all there was.
Untouched == pc \in Early => wire = <<>> /\ data = <<>> /\ copied = 0
Resolved == Served => answer \in Handled /\ resp = Made(answer) /\ pc \in {"head", "body", "closed"}
Writing == Served /\ pc = "body" => Written /\ ~HasEnd
Settled ==
    Served /\ pc = "closed" =>
        \/ wire = <<>> /\ gone
        \/ /\ Written
           /\ HasEnd => copied = Len(Source) /\ ~Broken
           /\ gone \/ (copied = Len(Source) /\ (Chunked /\ ~Broken => HasEnd))

AnswerInv == Untouched /\ Resolved /\ Writing /\ Settled

LEMMA AnswerType ==
    ASSUME NEW a \in Answers
    PROVE  /\ a.streaming \in BOOLEAN /\ a.failed \in BOOLEAN /\ a.declared \in BOOLEAN
           /\ a.body \in Seq(Int) /\ Len(a.body) \in Nat /\ a.got \in 0..Len(a.body)
           /\ a.grow \in {-1, 0, 1}
  <1>1. a \in Answer /\ a.got <= Len(a.body)
    BY ExchangeAssumption
  <1> QED
    BY <1>1 DEF Answer

LEMMA RewrittenType ==
    ASSUME NEW b \in Seq(Int), NEW grow \in {-1, 0, 1}
    PROVE  Rewritten(b, grow) \in Seq(Int)
  <1>1. CASE b = <<>> \/ grow = 0
    BY <1>1 DEF Rewritten
  <1>2. CASE b # <<>> /\ grow = 1
    BY <1>2 DEF Rewritten
  <1>3. CASE b # <<>> /\ grow = -1
    <2>1. Rewritten(b, grow) = SubSeq(b, 1, Len(b) - 1)
      BY <1>3 DEF Rewritten, Front
    <2>2. \A i \in 1..(Len(b) - 1) : b[i] \in Int
      BY ElementOfSeq
    <2>3. Len(b) - 1 \in Int
      OBVIOUS
    <2> QED
      BY <2>1, <2>2, <2>3, SubSeqProperties
  <1> QED
    BY <1>1, <1>2, <1>3

\* The response to an answer carries the body the proxy means to hand on.
LEMMA MadeFacts ==
    ASSUME NEW a \in Handled
    PROVE  /\ ~a.streaming => Made(a).kind = "bytes"
           /\ Dropped(a) => Made(a).kind = "nil"
           /\ a.streaming /\ ~a.failed => Made(a).kind = "stream"
           /\ Made(a).body = Kept(a) /\ Kept(a) \in Seq(Int)
           /\ a.streaming => Made(a).length = ContentLength(a)
  <1>0. a \in Answers
    BY DEF Handled
  <1>1. CASE ~a.streaming
    <2> DEFINE n == IF MaxResponse < a.got THEN MaxResponse ELSE a.got
               b == SubSeq(a.body, 1, n)
    <2>1. doForward(a) = [length |-> ContentLength(a), kind |-> "bytes", body |-> b]
      BY DEF doForward
    <2>2. b \in Seq(Int)
      <3>1. n \in 0..Len(a.body)
        BY <1>0, AnswerType, ExchangeAssumption
      <3>2. \A i \in 1..n : a.body[i] \in Int
        BY <1>0, <3>1, AnswerType, ElementOfSeq
      <3> QED
        BY <1>0, <3>1, <3>2, AnswerType, SubSeqProperties
    <2>6. b = IF Cut(a) THEN SubSeq(a.body, 1, MaxResponse) ELSE a.body
      <3>1. a.body \in Seq(Int) /\ a.got \in 0..Len(a.body) /\ Len(a.body) \in Nat
            /\ MaxResponse \in Nat /\ Readable(a)
        BY <1>0, <1>1, AnswerType, ExchangeAssumption DEF Handled
      <3>2. n = IF Cut(a) THEN MaxResponse ELSE Len(a.body)
        BY <1>1, <3>1 DEF Cut, Readable
      <3>3. SubSeq(a.body, 1, Len(a.body)) = a.body
        BY <3>1, SubSeqFull
      <3> QED
        BY <3>2, <3>3
    <2> HIDE DEF b
    <2>3. Made(a) = [doForward(a) EXCEPT !.body = Rewritten(@, a.grow)]
      BY <1>1, <2>1 DEF Made, applyResponseRewrite
    <2>4. Made(a).kind = "bytes" /\ Made(a).body = Rewritten(b, a.grow)
      BY <2>1, <2>3
    <2>5. Kept(a) = Rewritten(b, a.grow)
      BY <1>1, <2>6 DEF Kept, Dropped
    <2> QED
      BY <1>0, <1>1, <2>2, <2>4, <2>5, AnswerType, RewrittenType DEF Dropped
  <1>2. CASE Dropped(a)
    BY <1>2 DEF Dropped, Made, applyResponseRewrite, doForwardStream, Kept
  <1>3. CASE a.streaming /\ ~a.failed
    BY <1>0, <1>3, AnswerType DEF Dropped, Made, applyResponseRewrite, doForwardStream, Kept, Cut
  <1> QED
    BY <1>1, <1>2, <1>3 DEF Dropped

\* What WriteResponse has to write.
LEMMA SourceFacts ==
    ASSUME Resolved, Served
    PROVE  /\ Source \in Seq(Int) /\ Len(Source) \in Nat
           /\ resp.kind # "stream" => Source = Kept(answer)
           /\ resp.kind = "stream" =>
                /\ Source = SubSeq(answer.body, 1, answer.got) /\ Len(Source) = answer.got
                /\ Kept(answer) = answer.body
                /\ answer.got = Len(answer.body) => Source = Kept(answer)
  <1>1. answer \in Handled /\ answer \in Answers /\ resp = Made(answer)
    BY DEF Resolved, Handled
  <1>2. CASE resp.kind # "stream"
    BY <1>1, <1>2, MadeFacts, LenProperties DEF Source
  <1>3. CASE resp.kind = "stream"
    <2>1. answer.streaming /\ ~answer.failed
      BY <1>1, <1>3, MadeFacts, AnswerType DEF Dropped
    <2>2. resp.body = answer.body /\ Kept(answer) = answer.body
      BY <1>1, <2>1, MadeFacts DEF Kept, Dropped, Cut
    <2>3. Source = SubSeq(answer.body, 1, answer.got)
      BY <1>3, <2>2 DEF Source
    <2>4. /\ answer.body \in Seq(Int) /\ Len(answer.body) \in Nat
          /\ answer.got \in 0..Len(answer.body)
      BY <1>1, AnswerType
    <2>5. \A i \in 1..answer.got : answer.body[i] \in Int
      BY <2>4, ElementOfSeq
    <2>6. Source \in Seq(Int) /\ Len(Source) = answer.got
      <3>1. /\ SubSeq(answer.body, 1, answer.got) \in Seq(Int)
            /\ Len(SubSeq(answer.body, 1, answer.got))
                 = IF 1 <= answer.got THEN answer.got - 1 + 1 ELSE 0
        BY <2>4, <2>5, SubSeqProperties
      <3> QED
        BY <2>3, <2>4, <3>1
    <2>7. answer.got = Len(answer.body) => Source = answer.body
      BY <2>3, <2>4, SubSeqFull
    <2> QED
      BY <1>3, <2>2, <2>3, <2>4, <2>6, <2>7
  <1> QED
    BY <1>2, <1>3

\* The two prefixes WriteData joins, and the whole source.
LEMMA CopyMore ==
    ASSUME Resolved, Served, NEW m \in 0..Len(Source), NEW to \in m+1..Len(Source)
    PROVE  SubSeq(Source, 1, m) \o SubSeq(Source, m + 1, to) = SubSeq(Source, 1, to)
  <1>1. Source \in Seq(Int) /\ Len(Source) \in Nat
    BY SourceFacts
  <1>2. 1 \in 1..Len(Source)+1 /\ m \in 1-1..Len(Source) /\ to \in m..Len(Source)
    BY <1>1
  <1> QED
    BY <1>1, <1>2, ConcatAdjacentSubSeq

LEMMA HeadTokenType ==
    ASSUME Resolved, Served
    PROVE  HeadToken \in WireToken /\ HeadToken.k # "end"
  <1>1. answer \in Handled /\ answer \in Answers /\ resp = Made(answer)
    BY DEF Resolved, Handled
  <1>2. resp.kind = "bytes" => Len(resp.body) \in Int
    BY <1>1, MadeFacts, LenProperties
  <1>3. resp.kind # "bytes" => resp.length \in Int
    BY <1>1, MadeFacts, AnswerType DEF ContentLength, Absent
  <1>4. CASE Chunked
    BY <1>4 DEF HeadToken, WireToken
  <1>5. CASE ~Chunked /\ resp.kind = "bytes"
    BY <1>2, <1>5 DEF HeadToken, WireToken
  <1>6. CASE ~Chunked /\ resp.kind # "bytes"
    BY <1>3, <1>6 DEF HeadToken, WireToken
  <1> QED
    BY <1>4, <1>5, <1>6

\* A write at the end of what is written.
LEMMA AppendToken ==
    ASSUME NEW w \in Seq(WireToken), NEW t \in WireToken
    PROVE  /\ Append(w, t) \in Seq(WireToken) /\ Append(w, t) # <<>>
           /\ Last(Append(w, t)) = t
           /\ w # <<>> => Append(w, t)[1] = w[1]
           /\ w = <<>> => Append(w, t)[1] = t
  BY DEF Last

\* The steps that leave the answer alone.
LEMMA AnswerKept ==
    ASSUME AnswerInv, UNCHANGED <<pc, reply>>, pc # "closed" \/ gone' = gone
    PROVE  AnswerInv'
  <1>1. /\ HeadToken' = HeadToken /\ Source' = Source /\ Broken' = Broken
        /\ Chunked' = Chunked /\ HasEnd' = HasEnd /\ Served' = Served
    BY DEF reply, HeadToken, Chunked, Source, Broken, HasEnd, Served
  <1>2. Written' = Written
    BY <1>1 DEF reply, Written
  <1>3. Untouched' /\ Resolved' /\ Writing'
    BY <1>1, <1>2 DEF AnswerInv, Untouched, Resolved, Writing, reply
  <1>4. Settled'
    BY <1>1, <1>2 DEF AnswerInv, Settled, reply
  <1> QED
    BY <1>3, <1>4 DEF AnswerInv

\* The steps taken before there is an answer, errors included.
LEMMA NoAnswerYet ==
    ASSUME AnswerInv, pc \in Early \ {"head"}, UNCHANGED <<answer, copied, wire, data>>
    PROVE  AnswerInv'
  <1>1. ~Served /\ ~Served'
    BY DEF AnswerInv, Resolved, Served, Early
  <1>2. Untouched'
    BY DEF AnswerInv, Untouched
  <1> QED
    BY <1>1, <1>2 DEF AnswerInv, Resolved, Writing, Settled

\* The steps of the tunnel.
LEMMA NoAnswerInTunnel ==
    ASSUME AnswerInv, pc = "tunnel" \/ pc = "answer", pc' \in {"tunnel", "closed"},
           answer' = answer
    PROVE  AnswerInv'
  <1>1. ~Served /\ ~Served'
    BY DEF AnswerInv, Resolved, Served
  <1> QED
    BY <1>1 DEF AnswerInv, Untouched, Early, Resolved, Writing, Settled

LEMMA WriteKeepsAnswer ==
    ASSUME AnswerInv, Write
    PROVE  AnswerInv'
  <1>1. UNCHANGED <<answer, resp, gone>>
    BY DEF Write, WriteHead, WriteData, WriteEnd, WriteFails, Goto, reply, client
  <1>2. /\ HeadToken' = HeadToken /\ Source' = Source /\ Broken' = Broken
        /\ Chunked' = Chunked /\ Served' = Served
    BY <1>1 DEF HeadToken, Chunked, Source, Broken, Served
  <1>3. pc' \in {"body", "closed"}
    BY DEF Write, WriteHead, WriteData, WriteEnd, WriteFails, Goto
  <1>4. Untouched' /\ Resolved'
    BY <1>1, <1>2, <1>3 DEF AnswerInv, Untouched, Early, Resolved
  <1>5. CASE ~Served
    BY <1>2, <1>4, <1>5 DEF AnswerInv, Writing, Settled
  <1>6. CASE Served
    <2> USE <1>6
    <2>0. Resolved /\ Source \in Seq(Int) /\ Len(Source) \in Nat
      BY SourceFacts DEF AnswerInv
    <2>1. CASE WriteHead
      <3>1. pc = "head" /\ wire = <<>> /\ data = <<>> /\ copied = 0
        BY <2>1 DEF WriteHead, AnswerInv, Untouched, Early
      <3>2. wire' = Append(wire, HeadToken) /\ UNCHANGED <<copied, data>> /\ pc' = "body"
        BY <2>1 DEF WriteHead
      <3>3. /\ wire' \in Seq(WireToken) /\ wire' # <<>> /\ wire'[1] = HeadToken
            /\ Last(wire') = HeadToken
        BY <2>0, <3>1, <3>2, HeadTokenType, AppendToken, EmptySeq
      <3>4. SubSeq(Source, 1, 0) = <<>>
        BY SubSeqEmpty
      <3>5. Written' /\ ~HasEnd'
        BY <1>2, <2>0, <3>1, <3>2, <3>3, <3>4, HeadTokenType DEF Written, HasEnd
      <3> QED
        BY <1>4, <3>2, <3>5 DEF AnswerInv, Writing, Settled
    <2>2. CASE WriteData
      <3>1. pc = "body" /\ Written
        BY <2>2 DEF WriteData, AnswerInv, Writing
      <3>2. PICK to \in copied+1..Len(Source) :
               /\ wire' = Append(wire, [k |-> "data", n |-> 0])
               /\ data' = data \o SubSeq(Source, copied + 1, to)
               /\ copied' = to
        BY <2>2 DEF WriteData
      <3>3. [k |-> "data", n |-> 0] \in WireToken
        BY DEF WireToken
      <3>4. /\ wire' \in Seq(WireToken) /\ wire' # <<>> /\ wire'[1] = HeadToken
            /\ Last(wire') = [k |-> "data", n |-> 0]
        BY <3>1, <3>2, <3>3, AppendToken DEF Written
      <3>5. copied' \in 0..Len(Source) /\ data' = SubSeq(Source, 1, copied')
        BY <2>0, <3>1, <3>2, CopyMore DEF Written
      <3>6. Written' /\ ~HasEnd'
        BY <1>2, <3>4, <3>5 DEF Written, HasEnd
      <3>7. pc' = "body"
        BY <2>2, <3>1 DEF WriteData
      <3> QED
        BY <1>4, <3>6, <3>7 DEF AnswerInv, Writing, Settled
    <2>3. CASE WriteEnd
      <3>1. pc = "body" /\ Written /\ ~HasEnd /\ copied = Len(Source) /\ pc' = "closed"
        BY <2>3 DEF WriteEnd, AnswerInv, Writing
      <3>2. UNCHANGED <<copied, data>>
        BY <2>3 DEF WriteEnd
      <3>3. CASE Chunked /\ ~Broken
        <4>1. wire' = Append(wire, [k |-> "end", n |-> 0])
          BY <2>3, <3>3 DEF WriteEnd
        <4>2. [k |-> "end", n |-> 0] \in WireToken
          BY DEF WireToken
        <4>3. /\ wire' \in Seq(WireToken) /\ wire' # <<>> /\ wire'[1] = HeadToken
              /\ Last(wire') = [k |-> "end", n |-> 0]
          BY <3>1, <4>1, <4>2, AppendToken DEF Written
        <4>4. Written' /\ HasEnd'
          BY <1>2, <3>1, <3>2, <4>3 DEF Written, HasEnd
        <4> QED
          BY <1>2, <1>4, <3>1, <3>2, <3>3, <4>4 DEF AnswerInv, Writing, Settled
      <3>4. CASE ~(Chunked /\ ~Broken)
        <4>1. wire' = wire
          BY <2>3, <3>4 DEF WriteEnd
        <4>2. Written' /\ ~HasEnd'
          BY <1>2, <3>1, <3>2, <4>1 DEF Written, HasEnd
        <4> QED
          BY <1>2, <1>4, <3>1, <3>2, <3>4, <4>2 DEF AnswerInv, Writing, Settled
      <3> QED
        BY <3>3, <3>4
    <2>4. CASE WriteFails
      <3>1. pc \in {"head", "body"} /\ gone /\ gone' /\ pc' = "closed" /\ UNCHANGED reply
        BY <1>1, <2>4 DEF WriteFails, Goto
      <3>2. HasEnd' = HasEnd /\ Written' = Written /\ wire' = wire
        BY <1>2, <3>1 DEF reply, HasEnd, Written
      <3>3. CASE pc = "head"
        <4>1. wire' = <<>>
          BY <3>2, <3>3 DEF AnswerInv, Untouched, Early
        <4> QED
          BY <1>4, <3>1, <4>1 DEF AnswerInv, Writing, Settled
      <3>4. CASE pc = "body"
        <4>1. Written' /\ ~HasEnd'
          BY <3>2, <3>4 DEF AnswerInv, Writing
        <4> QED
          BY <1>4, <3>1, <4>1 DEF AnswerInv, Writing, Settled
      <3> QED
        BY <3>1, <3>3, <3>4
    <2> QED
      BY <2>1, <2>2, <2>3, <2>4 DEF Write
  <1> QED
    BY <1>5, <1>6

LEMMA NextAnswerInv ==
    ASSUME AnswerInv, [ConnNext]_connVars
    PROVE  AnswerInv'
  <1>1. CASE UNCHANGED connVars \/ Exchange(Done)
    BY <1>1, AnswerKept DEF connVars, Exchange, Done, vars, client
  <1>2. CASE Exchange(Read)
    <2>1. pc \in Early \ {"head"}
      BY <1>2 DEF Exchange, Early, Read, ReadRequestLine, TooManyHeaders, ReadHeader,
         ReadBlank, ReadSize, ReadByte, ReadCRLF, ReadTrailer, ReadFails, Parsing
    <2>2. UNCHANGED <<answer, copied, wire, data>>
      BY <1>2 DEF Exchange, Read, ReadRequestLine, TooManyHeaders, ReadHeader, ReadBlank,
         ReadSize, ReadByte, ReadCRLF, ReadTrailer, ReadFails, Reject, Abort, Goto, reply
    <2> QED
      BY <2>1, <2>2, NoAnswerYet
  <1>3. CASE Exchange(Dispatch)
    <2>1. pc \in Early \ {"head"}
      BY <1>3 DEF Exchange, Dispatch, Early
    <2>2. CASE Reject \/ Abort
      BY <2>1, <2>2, NoAnswerYet DEF Reject, Abort, reply
    <2>3. CASE \E a \in Handled :
                 /\ answer' = a /\ resp' = Made(a) /\ pc' = "head"
                 /\ UNCHANGED <<copied, wire, data>>
      <3>1. Resolved' /\ Untouched'
        BY <2>1, <2>3 DEF AnswerInv, Untouched, Resolved, Made, applyResponseRewrite,
           doForwardStream, doForward, Rewritten, ContentLength
      <3> QED
        BY <2>3, <3>1 DEF AnswerInv, Writing, Settled
    <2> QED
      BY <1>3, <2>2, <2>3 DEF Exchange, Dispatch, Made, Handled
  <1>4. CASE Exchange(Write)
    BY <1>4, WriteKeepsAnswer DEF Exchange
  <1>5. CASE Exchange(Send \/ Hangup \/ Take \/ Expire)
    BY <1>5, AnswerKept DEF Exchange, Send, Hangup, Take, Expire, client
  <1>6. CASE UpgradeFails \/ Upgrade \/ ReadHandshake \/ HandshakeFails
    BY <1>6, NoAnswerYet DEF UpgradeFails, Upgrade, ReadHandshake, HandshakeFails,
       Reject, Goto, reply, Early
  <1>7. CASE WriteHandshake \/ AnswerFails \/ CloseTunnel \/ DownWrite
    BY <1>7, NoAnswerInTunnel DEF WriteHandshake, AnswerFails, CloseTunnel, DownWrite,
       Goto, reply
  <1>8. CASE UpStep
    BY <1>8, AnswerKept DEF UpStep, UpRead, UpWrite, UpEnds, vars, client
  <1>9. CASE DownRead \/ DownEnds \/ BackendSend \/ BackendCloses \/ BackendStalls
    BY <1>9, AnswerKept DEF DownRead, DownEnds, BackendSend, BackendCloses,
       BackendStalls, vars, client
  <1>10. CASE TakeMore \/ ExpireUpgraded
    BY <1>10, AnswerKept DEF TakeMore, ExpireUpgraded, client
  <1> QED
    BY <1>1, <1>2, <1>3, <1>4, <1>5, <1>6, <1>7, <1>8, <1>9, <1>10
       DEF ConnNext, Exchange, Next, Handshake, DownStep

\* From the facts about the writes to what the client can conclude.
LEMMA AnswerInvSuffices ==
    ASSUME AnswerInv
    PROVE  AnswerIntact
  <1> SUFFICES ASSUME Served, pc = "closed" PROVE AnswerIntact
    BY DEF AnswerIntact, NoSilentTruncation, EndIsClear, Complete, Served
  <1> USE DEF AnswerInv
  <1>1. /\ answer \in Handled /\ answer \in Answers /\ resp = Made(answer)
        /\ Source \in Seq(Int) /\ Len(Source) \in Nat
    BY SourceFacts DEF Resolved, Handled
  <1>2. CASE wire = <<>>
    <2>1. gone
      BY <1>2 DEF Settled, Written
    <2> QED
      BY <1>2, <2>1 DEF AnswerIntact, NoSilentTruncation, EndIsClear, Complete
  <1>3. CASE wire # <<>>
    <2>1. /\ Written /\ (HasEnd => copied = Len(Source) /\ ~Broken)
          /\ gone \/ (copied = Len(Source) /\ (Chunked /\ ~Broken => HasEnd))
      BY <1>3 DEF Settled
    <2>2. Len(data) = copied /\ copied \in Nat /\ copied <= Len(Source)
      <3>1. copied \in 0..Len(Source) /\ data = SubSeq(Source, 1, copied)
        BY <2>1 DEF Written
      <3>2. \A i \in 1..copied : Source[i] \in Int
        BY <1>1, <3>1, ElementOfSeq
      <3>3. Len(SubSeq(Source, 1, copied)) = IF 1 <= copied THEN copied - 1 + 1 ELSE 0
        BY <1>1, <3>1, <3>2, SubSeqProperties
      <3> QED
        BY <1>1, <3>1, <3>3
    <2>3. copied = Len(Source) => data = Source
      BY <1>1, <2>1, SubSeqFull DEF Written
    <2>4. answer.got \in 0..Len(answer.body) /\ Len(answer.body) \in Nat
      BY <1>1, AnswerType
    <2>5. CASE Chunked
      <3>1. wire[1].k = "chunkedHead" /\ resp.kind = "stream"
        BY <2>1, <2>5 DEF Written, HeadToken, Chunked
      <3>2. Broken \/ Source = Kept(answer)
        BY <1>1, <2>4, <3>1, SourceFacts DEF Broken, Resolved
      <3>3. answer.got = Len(answer.body) => ~Broken
        BY <2>4 DEF Broken
      <3> QED
        BY <1>3, <2>1, <2>3, <2>5, <3>1, <3>2, <3>3
           DEF AnswerIntact, NoSilentTruncation, EndIsClear, Complete, HasEnd
    <2>6. CASE ~Chunked /\ resp.kind = "bytes"
      <3>1. wire[1].k = "head" /\ wire[1].n = Len(Source) /\ Source = Kept(answer)
        BY <1>1, <2>1, <2>6, SourceFacts DEF Written, HeadToken, Source
      <3>2. Len(Source) # Absent
        BY <1>1 DEF Absent
      <3> QED
        BY <1>1, <1>3, <2>1, <2>2, <2>3, <3>1, <3>2
           DEF AnswerIntact, NoSilentTruncation, EndIsClear, Complete
    <2>7. CASE ~Chunked /\ resp.kind # "bytes"
      <3>1. wire[1].k = "head" /\ wire[1].n = resp.length
        BY <2>1, <2>7 DEF Written, HeadToken
      <3>2. answer.streaming /\ resp.length = ContentLength(answer)
        BY <1>1, <2>7, MadeFacts, AnswerType
      <3>3. CASE answer.failed
        <4>1. Dropped(answer) /\ resp.kind = "nil"
          BY <1>1, <3>2, <3>3, MadeFacts DEF Dropped
        <4>2. Source = <<>> /\ Kept(answer) = <<>>
          BY <4>1, SourceFacts DEF Kept, Dropped
        <4>3. data = <<>>
          BY <2>2, <2>3, <4>2, EmptySeq
        <4>4. answer.body = <<>> => Len(answer.body) = Len(data)
          BY <4>3
        <4>5. \/ resp.length = Absent
              \/ answer.declared /\ resp.length = Len(answer.body)
          BY <1>1, <3>2, AnswerType DEF ContentLength
        <4> QED
          BY <1>3, <3>1, <4>1, <4>2, <4>3, <4>4, <4>5
             DEF AnswerIntact, NoSilentTruncation, EndIsClear, Complete
      <3>4. CASE ~answer.failed
        <4>1. resp.kind = "stream"
          BY <1>1, <3>2, <3>4, MadeFacts
        <4>2. resp.length = Len(answer.body) /\ resp.length # Absent
          BY <2>7, <3>2, <4>1 DEF ContentLength, Chunked
        <4>3. /\ Len(Source) = answer.got
              /\ answer.got = Len(answer.body) => Source = Kept(answer)
          BY <4>1, SourceFacts
        <4>4. resp.length = Len(data) => copied = Len(Source) /\ answer.got = Len(answer.body)
          BY <2>2, <2>4, <4>2, <4>3
        <4> QED
          BY <1>3, <2>1, <2>2, <2>3, <3>1, <4>2, <4>3, <4>4
             DEF AnswerIntact, NoSilentTruncation, EndIsClear, Complete
      <3> QED
        BY <3>3, <3>4
    <2> QED
      BY <2>5, <2>6, <2>7
  <1> QED
    BY <1>2, <1>3

\* A client that sees a complete message has all of the body the proxy means to
\* hand on, and one that stays for a whole answer can tell where it ends,
\* whatever the answer, the limit and the pace of the two sides (doForward,
\* doForwardStream, WriteResponse, writeChunkedStream).
THEOREM AnswersArriveWhole == ConnSpec => []AnswerIntact
  <1>1. ConnInit => AnswerInv
    BY DEF ConnInit, Init, AnswerInv, Untouched, Resolved, Writing, Settled, Served
  <1>2. AnswerInv /\ [ConnNext]_connVars => AnswerInv'
    BY NextAnswerInv
  <1>3. AnswerInv => AnswerIntact
    BY AnswerInvSuffices
  <1> QED
    BY <1>1, <1>2, <1>3, PTL DEF ConnSpec

-----------------------------------------------------------------------------
(* The tunnel.                                                             *)

Untunnelled == pc \in {"line", "headers", "size", "data", "crlf", "trailers",
                       "dispatch", "handshake"}

InTunnel == ended # "no" \/ pc \in {"tunnel", "answer"}

\* Nothing is in the tunnel before it opens.
Fresh ==
    /\ Untunnelled =>
         /\ bread = 0 /\ held = <<>> /\ hand = <<>> /\ passed = <<>> /\ data = <<>>
         /\ up = "read" /\ down = "read"
    /\ pc = "handshake" => first = pos
    /\ ended # "no" => pc \in {"tunnel", "closed"}

\* Backend to client: what the client has, then what the copy holds, is what
\* was read, without a gap.
DownFlow ==
    InTunnel =>
        /\ data \in Seq(Nat) /\ held \in Seq(Nat) /\ bread \in 0..bsent
        /\ Len(data) + Len(held) = bread
        /\ \A i \in 1..Len(data) : data[i] = i
        /\ \A i \in 1..Len(held) : held[i] = Len(data) + i

\* Client to backend, from where the parser left off.
UpFlow ==
    InTunnel =>
        /\ passed \in Seq(Int) /\ hand \in Seq(Int) /\ first \in 0..pos
        /\ first + Len(passed) + Len(hand) = pos
        /\ \A i \in 1..Len(passed) : passed[i] = script[first + i].n
        /\ \A i \in 1..Len(hand) : hand[i] = script[first + Len(passed) + i].n
        /\ up = "read" => hand = <<>>

\* Why the tunnel ended, and that this stays so.
Reason ==
    /\ ended \in {"no", "backendEOF", "clientEOF", "deadline", "write"}
    /\ ended = "backendEOF" => bgone /\ bread = bsent /\ held = <<>>
    /\ ended = "clientEOF" => gone /\ pos = sent /\ hand = <<>>
    /\ ended = "deadline" => expired
    /\ ended = "write" => gone \/ bgone

TunnelInv == bsent \in Nat /\ Fresh /\ DownFlow /\ UpFlow /\ Reason

\* The steps of the client, the backend and the clock.
LEMMA TunnelKept ==
    ASSUME TunnelInv, UNCHANGED <<pc, script, pos, data, tunnel>>,
           bsent' \in Nat, bsent <= bsent',
           bgone => bgone' /\ bsent' = bsent,
           gone => gone' /\ sent' = sent,
           expired => expired'
    PROVE  TunnelInv'
  <1> USE DEF TunnelInv, tunnel
  <1>1. InTunnel' = InTunnel /\ Untunnelled' = Untunnelled
    BY DEF InTunnel, Untunnelled
  <1>2. Fresh'
    BY <1>1 DEF Fresh
  <1>3. DownFlow'
    <2>1. bread \in 0..bsent => bread \in 0..bsent'
      OBVIOUS
    <2> QED
      BY <1>1, <2>1 DEF DownFlow
  <1>4. UpFlow'
    BY <1>1 DEF UpFlow
  <1>5. Reason'
    BY DEF Reason
  <1> QED
    BY <1>2, <1>3, <1>4, <1>5

\* The steps after which the tunnel is not open.
LEMMA TunnelNotOpen ==
    ASSUME TunnelInv, UNCHANGED <<bsent, bread, held, hand, passed, up, down, ended>>,
           ended = "no", pc' \notin {"tunnel", "answer"},
           Untunnelled' => Untunnelled /\ data' = data,
           pc' = "handshake" => first' = pos'
    PROVE  TunnelInv'
  <1>1. ~InTunnel'
    BY DEF InTunnel
  <1>2. Fresh'
    BY DEF TunnelInv, Fresh
  <1> QED
    BY <1>1, <1>2 DEF TunnelInv, DownFlow, UpFlow, Reason

\* One Read of what the backend has sent.
LEMMA TakeKeepsFlow ==
    ASSUME DownFlow, InTunnel, InTunnel', bsent \in Nat, held = <<>>, TakeFromBackend,
           UNCHANGED <<data, bsent>>
    PROVE  DownFlow' /\ bread < bsent
  <1>1. /\ data \in Seq(Nat) /\ Len(data) \in Nat /\ bread = Len(data) /\ bread <= bsent
        /\ \A i \in 1..Len(data) : data[i] = i
    BY DEF DownFlow
  <1>2. PICK to \in bread+1..bsent :
           held' = [i \in 1..(to - bread) |-> bread + i] /\ bread' = to
    BY DEF TakeFromBackend
  <1>3. to - bread \in Nat /\ \A i \in 1..(to - bread) : bread + i \in Nat
    BY <1>1, <1>2
  <1>4. held' \in Seq(Nat) /\ Len(held') = to - bread
    BY <1>2, <1>3
  <1>5. \A i \in 1..Len(held') : held'[i] = Len(data) + i
    BY <1>1, <1>2, <1>4
  <1>6. bread' \in 0..bsent /\ Len(data) + Len(held') = bread' /\ bread < bsent
    BY <1>1, <1>2, <1>4
  <1> QED
    BY <1>1, <1>4, <1>5, <1>6 DEF DownFlow

\* One Write of all that is held.
LEMMA WriteKeepsFlow ==
    ASSUME DownFlow, InTunnel, ToClient, UNCHANGED <<bread, bsent>>
    PROVE  DownFlow'
  <1>1. /\ data \in Seq(Nat) /\ Len(data) \in Nat /\ held \in Seq(Nat) /\ Len(held) \in Nat
        /\ bread \in 0..bsent /\ Len(data) + Len(held) = bread
        /\ \A i \in 1..Len(data) : data[i] = i
        /\ \A i \in 1..Len(held) : held[i] = Len(data) + i
    BY DEF DownFlow
  <1>2. data' = data \o held /\ held' = <<>>
    BY DEF ToClient
  <1>3. data' \in Seq(Nat) /\ Len(data') = Len(data) + Len(held)
    BY <1>1, <1>2, ConcatProperties
  <1>4. \A i \in 1..Len(data') : data'[i] = i
    <2> TAKE i \in 1..Len(data')
    <2>1. data'[i] = IF i <= Len(data) THEN data[i] ELSE held[i - Len(data)]
      BY <1>1, <1>2, <1>3, ConcatProperties
    <2>2. CASE i <= Len(data)
      BY <1>1, <2>1, <2>2
    <2>3. CASE i > Len(data)
      <3>1. i - Len(data) \in 1..Len(held)
        BY <1>1, <1>3, <2>3
      <3>2. data'[i] = held[i - Len(data)]
        BY <1>1, <1>3, <2>1, <2>3
      <3>3. held[i - Len(data)] = Len(data) + (i - Len(data))
        BY <1>1, <3>1
      <3> QED
        BY <1>1, <1>3, <3>2, <3>3
    <2> QED
      BY <1>1, <1>3, <2>2, <2>3
  <1>5. held' \in Seq(Nat) /\ Len(held') = 0
    BY <1>2, EmptySeq
  <1> QED
    BY <1>1, <1>3, <1>4, <1>5 DEF DownFlow

\* One Read from the client.
LEMMA UpReadKeepsFlow ==
    ASSUME IInv, UpFlow, InTunnel, UpRead
    PROVE  UpFlow'
  <1>1. /\ passed \in Seq(Int) /\ Len(passed) \in Nat /\ hand = <<>>
        /\ first \in Nat /\ first + Len(passed) = pos
        /\ \A i \in 1..Len(passed) : passed[i] = script[first + i].n
    <2>1. /\ passed \in Seq(Int) /\ Len(passed) \in Nat /\ hand = <<>> /\ first \in 0..pos
          /\ first + Len(passed) + Len(hand) = pos
          /\ \A i \in 1..Len(passed) : passed[i] = script[first + i].n
      BY DEF UpFlow, UpRead
    <2>2. Len(hand) = 0
      BY <2>1, EmptySeq
    <2> QED
      BY <2>1, <2>2
  <1>2. Tok.n \in Int
    BY TokenType DEF IInv, UpRead, Token
  <1>3. /\ hand' = <<Tok.n>> /\ pos' = pos + 1 /\ up' = "write"
        /\ UNCHANGED <<script, first, passed>>
    BY DEF UpRead, client
  <1>4. hand' \in Seq(Int) /\ Len(hand') = 1 /\ hand'[1] = script[pos + 1].n
    BY <1>2, <1>3 DEF Tok
  <1>5. \A i \in 1..Len(hand') : hand'[i] = script[first + Len(passed) + i].n
    <2> TAKE i \in 1..Len(hand')
    <2>1. i = 1
      BY <1>4
    <2> QED
      BY <1>1, <1>4, <2>1
  <1> QED
    BY <1>1, <1>3, <1>4, <1>5 DEF UpFlow

\* One Write to the backend.
LEMMA UpWriteKeepsFlow ==
    ASSUME UpFlow, InTunnel, UpWrite
    PROVE  UpFlow'
  <1>1. /\ passed \in Seq(Int) /\ Len(passed) \in Nat /\ hand \in Seq(Int) /\ Len(hand) \in Nat
        /\ first \in 0..pos /\ first + Len(passed) + Len(hand) = pos
        /\ \A i \in 1..Len(passed) : passed[i] = script[first + i].n
        /\ \A i \in 1..Len(hand) : hand[i] = script[first + Len(passed) + i].n
    BY DEF UpFlow
  <1>2. passed' = passed \o hand /\ hand' = <<>> /\ UNCHANGED <<script, first, pos>>
    BY DEF UpWrite, client, parse
  <1>3. passed' \in Seq(Int) /\ Len(passed') = Len(passed) + Len(hand)
    BY <1>1, <1>2, ConcatProperties
  <1>4. \A i \in 1..Len(passed') : passed'[i] = script[first + i].n
    <2> TAKE i \in 1..Len(passed')
    <2>1. passed'[i] = IF i <= Len(passed) THEN passed[i] ELSE hand[i - Len(passed)]
      BY <1>1, <1>2, <1>3, ConcatProperties
    <2>2. CASE i <= Len(passed)
      BY <1>1, <2>1, <2>2
    <2>3. CASE i > Len(passed)
      <3>1. i - Len(passed) \in 1..Len(hand)
        BY <1>1, <1>3, <2>3
      <3>2. passed'[i] = hand[i - Len(passed)]
        BY <1>1, <1>3, <2>1, <2>3
      <3>3. first + Len(passed) + (i - Len(passed)) = first + i
        BY <1>1, <1>3
      <3> QED
        BY <1>1, <3>1, <3>2, <3>3
    <2> QED
      BY <1>1, <1>3, <2>2, <2>3
  <1>5. hand' \in Seq(Int) /\ Len(hand') = 0
    BY <1>2, EmptySeq
  <1>6. first' + Len(passed') + Len(hand') = pos'
    BY <1>1, <1>2, <1>3, <1>5
  <1> QED
    BY <1>1, <1>2, <1>3, <1>4, <1>5, <1>6 DEF UpFlow

\* What the steps of the tunnel leave alone.
LEMMA DownFlowKept ==
    ASSUME DownFlow, InTunnel, UNCHANGED <<data, held, bread, bsent>>
    PROVE  DownFlow'
  BY DEF DownFlow

LEMMA UpFlowKept ==
    ASSUME UpFlow, InTunnel, UNCHANGED <<passed, hand, first, pos, script>>,
           up' = "read" => up = "read"
    PROVE  UpFlow'
  BY DEF UpFlow

LEMMA NextTunnelInv ==
    ASSUME IInv, TunnelInv, [ConnNext]_connVars
    PROVE  TunnelInv'
  <1> USE DEF TunnelInv
  <1>0. bsent \in Nat /\ Fresh /\ DownFlow /\ UpFlow /\ Reason
    OBVIOUS
  <1> DEFINE Calm == /\ UNCHANGED <<pc, script, pos, data, tunnel>>
                     /\ bsent' \in Nat /\ bsent <= bsent'
                     /\ bgone => bgone' /\ bsent' = bsent
                     /\ gone => gone' /\ sent' = sent
                     /\ expired => expired'
  <1>1. Calm => TunnelInv'
    BY TunnelKept
  <1>2. CASE UNCHANGED connVars \/ Exchange(Send \/ Hangup \/ Take \/ Expire \/ Done)
    <2>1. Calm
      BY <1>2 DEF connVars, vars, client, parse, reply, backend, Exchange, Send, Hangup,
         Take, Expire, Done
    <2> QED
      BY <1>1, <2>1
  <1>3. CASE BackendSend \/ BackendCloses \/ BackendStalls
    <2>1. Calm
      BY <1>3 DEF BackendSend, BackendCloses, BackendStalls, vars, client, parse, reply
    <2> QED
      BY <1>1, <2>1
  <1>4. CASE TakeMore \/ ExpireUpgraded
    <2>1. Calm
      BY <1>4 DEF TakeMore, ExpireUpgraded, client, parse, reply, backend
    <2> QED
      BY <1>1, <2>1
  <1> DEFINE Aside == /\ UNCHANGED <<bsent, bread, held, hand, passed, up, down, ended>>
                      /\ ended = "no" /\ pc' \notin {"tunnel", "answer"}
                      /\ Untunnelled' => Untunnelled /\ data' = data
                      /\ pc' = "handshake" => first' = pos'
  <1>5. Aside => TunnelInv'
    BY TunnelNotOpen
  <1>6. CASE Exchange(Read \/ Dispatch)
    <2>1. /\ Untunnelled /\ pc # "closed"
          /\ UNCHANGED <<bsent, bread, held, hand, passed, up, down, ended>>
      BY <1>6 DEF Exchange, Untunnelled, Read, ReadRequestLine, TooManyHeaders, ReadHeader,
         ReadBlank, ReadSize, ReadByte, ReadCRLF, ReadTrailer, ReadFails, Parsing, Dispatch,
         backend, tunnel
    <2>2. ended = "no"
      BY <2>1 DEF Fresh, Untunnelled
    <2>3. CASE Read
      <3>1. pc' \in {"line", "headers", "size", "data", "crlf", "trailers", "dispatch",
                     "head", "closed", "panic"} /\ data' = data
        BY <2>3 DEF Read, ReadRequestLine, TooManyHeaders, ReadHeader, ReadBlank, ReadSize,
           ReadByte, ReadCRLF, ReadTrailer, ReadFails, Reject, Abort, Goto, reply
      <3> QED
        BY <1>5, <2>1, <2>2, <3>1
    <2>4. CASE Dispatch
      <3>1. pc' \in {"head", "closed"} /\ data' = data
        BY <2>4 DEF Dispatch, Reject, Abort, reply
      <3> QED
        BY <1>5, <2>1, <2>2, <3>1
    <2> QED
      BY <1>6, <2>3, <2>4 DEF Exchange
  <1>7. CASE Exchange(Write)
    <2>1. /\ pc \in {"head", "body"} /\ pc' \in {"body", "closed"}
          /\ UNCHANGED <<bsent, bread, held, hand, passed, up, down, ended>>
      BY <1>7 DEF Exchange, Write, WriteHead, WriteData, WriteEnd, WriteFails, Goto,
         backend, tunnel
    <2>2. ended = "no" /\ ~Untunnelled'
      BY <2>1 DEF Fresh, Untunnelled
    <2> QED
      BY <1>5, <2>1, <2>2
  <1>8. CASE UpgradeFails \/ HandshakeFails \/ AnswerFails
    <2>1. /\ pc \in {"dispatch", "handshake", "answer"} /\ pc' \in {"head", "closed"}
          /\ UNCHANGED <<bsent, bread, held, hand, passed, up, down, ended>>
      BY <1>8 DEF UpgradeFails, HandshakeFails, AnswerFails, Reject, Goto, backend, tunnel
    <2>2. ended = "no" /\ ~Untunnelled'
      BY <2>1 DEF Fresh, Untunnelled
    <2> QED
      BY <1>5, <2>1, <2>2
  <1>9. CASE Upgrade
    <2>1. /\ pc = "dispatch" /\ pc' = "handshake" /\ first' = pos' /\ data' = data
          /\ UNCHANGED <<bsent, bread, held, hand, passed, up, down, ended>>
      BY <1>9 DEF Upgrade, Goto, reply, backend
    <2>2. ended = "no" /\ Untunnelled
      BY <2>1 DEF Fresh, Untunnelled
    <2> QED
      BY <1>5, <2>1, <2>2
  <1>10. CASE ReadHandshake
    <2>1. /\ pc = "handshake" /\ pc' = "answer" /\ TakeFromBackend
          /\ UNCHANGED <<script, pos, data, bsent, up, down, hand, passed, ended, first>>
      BY <1>10 DEF ReadHandshake, Goto, reply, client, parse, backend
    <2>2. /\ bread = 0 /\ held = <<>> /\ hand = <<>> /\ passed = <<>> /\ data = <<>>
          /\ first = pos /\ ended = "no"
      BY <2>1 DEF Fresh, Untunnelled
    <2>3. Fresh' /\ Reason'
      BY <2>1, <2>2 DEF Fresh, Untunnelled, Reason
    <2>4. DownFlow'
      <3>1. PICK to \in bread+1..bsent :
               held' = [i \in 1..(to - bread) |-> bread + i] /\ bread' = to
        BY <2>1 DEF TakeFromBackend
      <3>2. to \in Nat /\ held' = [i \in 1..to |-> 0 + i] /\ bread' = to /\ to <= bsent
        BY <2>2, <3>1
      <3>3. held' \in Seq(Nat) /\ Len(held') = to /\ \A i \in 1..to : held'[i] = i
        BY <3>2
      <3>4. data' \in Seq(Nat) /\ Len(data') = 0
        BY <2>1, <2>2, EmptySeq
      <3> QED
        BY <2>1, <3>2, <3>3, <3>4 DEF DownFlow
    <2>5. UpFlow'
      <3>1. passed' \in Seq(Int) /\ hand' \in Seq(Int) /\ Len(passed') = 0 /\ Len(hand') = 0
        BY <2>1, <2>2, EmptySeq
      <3>2. pos \in Nat
        BY DEF IInv, Types
      <3> QED
        BY <2>1, <2>2, <3>1, <3>2 DEF UpFlow
    <2> QED
      BY <2>1, <2>3, <2>4, <2>5
  <1>11. CASE pc \in {"answer", "tunnel"}
    <2>0. InTunnel /\ ~Untunnelled
      BY <1>11 DEF InTunnel, Untunnelled
    <2>1. CASE WriteHandshake \/ DownWrite
      <3>1. /\ pc' = "tunnel" /\ ToClient /\ held # <<>>
            /\ UNCHANGED <<script, sent, gone, expired, pos, bsent, bgone, bread, up, hand,
                           passed, ended, first>>
        BY <2>1 DEF WriteHandshake, DownWrite, ToClient, client, parse, backend
      <3>2. Fresh' /\ Reason'
        BY <3>1 DEF Fresh, Untunnelled, Reason
      <3> QED
        BY <2>0, <3>1, <3>2, WriteKeepsFlow, UpFlowKept
    <2>2. CASE UpRead
      <3>1. /\ pc = "tunnel" /\ pc' = pc /\ pos < sent
            /\ UNCHANGED <<script, sent, gone, expired, data, bsent, bgone, bread, held, ended>>
        BY <2>2 DEF UpRead, Available, client, reply, backend
      <3>2. pos \in Int /\ sent \in Int
        BY DEF IInv, Types
      <3>3. Fresh' /\ Reason'
        BY <3>1, <3>2 DEF Fresh, Untunnelled, Reason
      <3> QED
        BY <2>0, <2>2, <3>1, <3>3, DownFlowKept, UpReadKeepsFlow
    <2>3. CASE UpWrite
      <3>1. /\ pc = "tunnel" /\ pc' = pc /\ hand' = <<>>
            /\ UNCHANGED <<script, sent, pos, gone, expired, data, bsent, bgone, bread, held,
                           ended>>
        BY <2>3 DEF UpWrite, client, parse, reply, backend
      <3>2. Fresh' /\ Reason'
        BY <3>1 DEF Fresh, Untunnelled, Reason
      <3> QED
        BY <2>0, <2>3, <3>1, <3>2, DownFlowKept, UpWriteKeepsFlow
    <2>4. CASE UpEnds
      <3>1. /\ pc = "tunnel" /\ up' = "done"
            /\ UNCHANGED <<pc, script, sent, pos, gone, expired, data, bsent, bgone, bread,
                           held, hand, passed, first>>
        BY <2>4 DEF UpEnds, vars, client, parse, reply, backend
      <3>2. \/ ended' = ended
            \/ ended' = "deadline" /\ expired
            \/ ended' = "clientEOF" /\ up = "read" /\ gone /\ pos = sent
            \/ ended' = "write" /\ bgone
        BY <2>4 DEF UpEnds, Ends
      <3>3. up = "read" => hand = <<>>
        BY <2>0 DEF UpFlow
      <3>4. Fresh' /\ Reason'
        BY <3>1, <3>2, <3>3 DEF Fresh, Untunnelled, Reason
      <3> QED
        BY <2>0, <3>1, <3>4, DownFlowKept, UpFlowKept
    <2>5. CASE DownRead
      <3>1. /\ pc = "tunnel" /\ held = <<>> /\ TakeFromBackend
            /\ UNCHANGED <<pc, script, sent, pos, gone, expired, data, bsent, bgone, up, hand,
                           passed, ended, first>>
        BY <2>5 DEF DownRead, vars, client, parse, reply, backend
      <3>2. InTunnel'
        BY <3>1 DEF InTunnel
      <3>3. DownFlow' /\ bread < bsent
        BY <2>0, <3>1, <3>2, TakeKeepsFlow
      <3>4. bread \in Int /\ bsent \in Int
        BY <2>0 DEF DownFlow
      <3>5. Fresh' /\ Reason'
        BY <3>1, <3>3, <3>4 DEF Fresh, Untunnelled, Reason
      <3> QED
        BY <2>0, <3>1, <3>3, <3>5, UpFlowKept
    <2>6. CASE DownEnds
      <3>1. /\ pc = "tunnel"
            /\ UNCHANGED <<pc, script, sent, pos, gone, expired, data, bsent, bgone, bread,
                           held, up, hand, passed, first>>
        BY <2>6 DEF DownEnds, vars, client, parse, reply, backend
      <3>2. \/ ended' = ended
            \/ ended' = "backendEOF" /\ held = <<>> /\ bgone /\ bread = bsent
            \/ ended' = "write" /\ gone
        BY <2>6 DEF DownEnds, Ends
      <3>3. Fresh' /\ Reason'
        BY <3>1, <3>2 DEF Fresh, Untunnelled, Reason
      <3> QED
        BY <2>0, <3>1, <3>3, DownFlowKept, UpFlowKept
    <2>7. CASE CloseTunnel
      <3>1. /\ pc = "tunnel" /\ pc' = "closed" /\ UNCHANGED tunnel
            /\ UNCHANGED <<script, sent, pos, gone, expired, data, bsent, bgone>>
        BY <2>7 DEF CloseTunnel, Goto, client, parse, reply, backend
      <3>2. Fresh' /\ Reason'
        BY <3>1 DEF Fresh, Untunnelled, Reason, tunnel
      <3> QED
        BY <2>0, <3>1, <3>2, DownFlowKept, UpFlowKept DEF tunnel
    <2> QED
      BY <1>2, <1>3, <1>4, <1>6, <1>7, <1>8, <1>9, <1>10, <2>1, <2>2, <2>3, <2>4,
         <2>5, <2>6, <2>7
         DEF ConnNext, Exchange, Next, Handshake, UpStep, DownStep
  <1>12. CASE pc \notin {"answer", "tunnel"}
    <2>1. ~(WriteHandshake \/ UpStep \/ DownStep \/ CloseTunnel)
      BY <1>12 DEF WriteHandshake, UpStep, UpRead, UpWrite, UpEnds, DownStep, DownRead,
         DownWrite, DownEnds, CloseTunnel
    <2> QED
      BY <1>2, <1>3, <1>4, <1>6, <1>7, <1>8, <1>9, <1>10, <2>1
         DEF ConnNext, Exchange, Next, Handshake
  <1> QED
    BY <1>11, <1>12

LEMMA TunnelInvSuffices ==
    ASSUME IInv, TunnelInv
    PROVE  TunnelFaithful
  <1> SUFFICES ASSUME InTunnel PROVE TunnelFaithful
    BY DEF TunnelFaithful, InTunnel
  <1>1. /\ data \in Seq(Nat) /\ Len(data) \in Nat /\ held \in Seq(Nat) /\ Len(held) \in Nat
        /\ bread \in 0..bsent /\ bsent \in Nat
        /\ Len(data) + Len(held) = bread
        /\ \A i \in 1..Len(data) : data[i] = i
    BY DEF TunnelInv, DownFlow
  <1>2. /\ passed \in Seq(Int) /\ Len(passed) \in Nat /\ hand \in Seq(Int) /\ Len(hand) \in Nat
        /\ first \in 0..pos /\ first + Len(passed) + Len(hand) = pos
        /\ \A i \in 1..Len(passed) : passed[i] = script[first + i].n
    BY DEF TunnelInv, UpFlow
  <1>3. data = Counting(Len(data)) /\ Len(data) <= bsent
    <2>1. data = [i \in 1..Len(data) |-> data[i]]
      BY <1>1, LenProperties
    <2> QED
      BY <1>1, <2>1 DEF Counting
  <1>4. passed = BytesTo(first + Len(passed))
    <2>1. passed = [i \in 1..Len(passed) |-> passed[i]]
      BY <1>2, LenProperties
    <2>2. pos \in Nat
      BY DEF IInv, Types
    <2>3. (first + Len(passed)) - first = Len(passed)
      BY <1>2, <2>2
    <2> QED
      BY <1>2, <2>1, <2>3 DEF BytesTo
  <1>5. ASSUME pc = "closed"
        PROVE  /\ ended = "backendEOF" => data = Counting(bsent)
               /\ ended = "clientEOF" => passed = BytesTo(sent)
               /\ gone \/ bgone \/ expired
    <2>1. ended # "no" /\ Reason
      BY <1>5 DEF InTunnel, TunnelInv
    <2>2. ended = "backendEOF" => Len(data) = bsent
      <3>1. ended = "backendEOF" => Len(held) = 0 /\ bread = bsent
        BY <2>1, EmptySeq DEF Reason
      <3> QED
        BY <1>1, <3>1
    <2>3. ended = "clientEOF" => first + Len(passed) = sent
      <3>1. ended = "clientEOF" => Len(hand) = 0 /\ pos = sent
        BY <2>1, EmptySeq DEF Reason
      <3>2. pos \in Nat
        BY DEF IInv, Types
      <3> QED
        BY <1>2, <3>1, <3>2
    <2>4. gone \/ bgone \/ expired
      BY <2>1 DEF Reason
    <2> QED
      BY <1>3, <1>4, <2>2, <2>3, <2>4
  <1> QED
    BY <1>3, <1>4, <1>5 DEF TunnelFaithful

\* Both sides of a WebSocket tunnel get the other's bytes in order and without
\* a gap, whoever ends it by closing has had all of its bytes passed on, and it
\* ends for no other reason than a close or the parsing deadline, whatever the
\* two sides send and however the copies interleave (ForwardWebSocket).
THEOREM TunnelIsFaithful == ConnSpec => []TunnelFaithful
  <1>1. ConnInit => TunnelInv
    <2> SUFFICES ASSUME ConnInit PROVE TunnelInv
      OBVIOUS
    <2>1. ~InTunnel /\ pc = "line" /\ ended = "no"
      BY DEF ConnInit, Init, InTunnel
    <2>2. Fresh
      BY <2>1 DEF ConnInit, Init, Fresh
    <2> QED
      BY <2>1, <2>2 DEF ConnInit, TunnelInv, DownFlow, UpFlow, Reason
  <1>2. IInv /\ TunnelInv /\ [ConnNext]_connVars => TunnelInv'
    BY NextTunnelInv
  <1>3. IInv /\ TunnelInv => TunnelFaithful
    BY TunnelInvSuffices
  <1> QED
    BY <1>1, <1>2, <1>3, ParserInvariant, PTL DEF ConnSpec
=============================================================================
