---------------------------- MODULE MCConnection ----------------------------
(* Instances of Connection for TLC. *)
EXTENDS Connection

T(k, n) == [k |-> k, n |-> n]
Bytes(from, n) == [i \in 1..n |-> T("byte", from + i)]
Chunk(from, n) == <<T("size", n)>> \o Bytes(from, n) \o <<T("crlf", 0)>>
LastChunk == <<T("size", 0), T("blank", 0)>>
Post(headers) == <<T("post", 0)>> \o headers \o <<T("blank", 0)>>

MCMaxHeaderLines == 4
MCMaxHeaderBytes == 4
MCMaxBody == 3
MCMaxResponse == 2
MCMaxInt == 15

\* Requests a client may legally send, at and around every limit.
WellFormed == {
    <<T("get", 0), T("blank", 0)>>,
    <<T("get", 0), T("length", 1), T("blank", 0)>> \o Bytes(0, 1),
    Post(<<>>),
    Post(<<T("length", 0)>>),
    Post(<<T("other", 3), T("length", 3)>>) \o Bytes(0, 3),
    Post(<<T("length", 4)>>) \o Bytes(0, 4),
    Post(<<T("chunked", 0)>>) \o LastChunk,
    Post(<<T("chunked", 0)>>) \o Chunk(0, 1) \o Chunk(1, 2) \o LastChunk,
    Post(<<T("chunked", 0)>>) \o Chunk(0, 2) \o Chunk(2, 2) \o LastChunk,
    Post(<<T("length", 1), T("chunked", 0)>>) \o Chunk(0, 2) \o LastChunk,
    Post(<<T("chunked", 0)>>) \o Chunk(0, 1)
        \o <<T("size", 0), T("other", 1), T("long", 0), T("blank", 0)>>,
    Post(<<T("other", 1), T("other", 1), T("other", 1), T("other", 1)>>),
    Post(<<T("other", 5)>>),
    Post(<<T("length", 1)>>) \o Bytes(0, 2),
    Post(<<T("chunked", 0)>>) \o Chunk(0, 1) \o LastChunk \o Bytes(1, 1)}

\* Requests with a mistake in them.
Mistaken == {
    <<T("junkLine", 0)>>,
    <<T("long", 0)>>,
    <<T("get", 0), T("long", 0)>>,
    Post(<<T("length", 1), T("length", 2)>>) \o Bytes(0, 2),
    Post(<<T("chunked", 0), T("coding", 0)>>) \o Chunk(0, 1) \o LastChunk,
    Post(<<T("coding", 0), T("chunked", 0), T("length", 1)>>) \o Bytes(0, 1),
    Post(<<T("malformed", 1), T("length", 1)>>) \o Bytes(0, 1),
    Post(<<T("junkLength", 0)>>),
    Post(<<T("length", -3)>>),
    Post(<<T("chunked", 0), T("length", 2)>>) \o Chunk(0, 1) \o <<T("size", -1)>>,
    Post(<<T("chunked", 0)>>) \o <<T("junkSize", 0)>>,
    Post(<<T("chunked", 0)>>) \o <<T("size", 1)>> \o Bytes(0, 2)
        \o <<T("crlf", 0)>> \o LastChunk}

\* A second chunk so large that the sum of the sizes does not fit.
Huge == {Post(<<T("chunked", 0)>>) \o Chunk(0, 2) \o <<T("size", m)>> : m \in {13, 14}}

\* Requests to upgrade, and what the client says through the tunnel.
Upgrades == {
    <<T("get", 0), T("upgrade", 0), T("blank", 0)>> \o Bytes(0, 2),
    <<T("post", 0), T("length", 1), T("upgrade", 0), T("blank", 0)>> \o Bytes(0, 1)}

MCScripts == WellFormed \cup Mistaken \cup Huge \cup Upgrades

A(streaming, failed, declared, n, arrived) ==
    [streaming |-> streaming, failed |-> failed, declared |-> declared,
     body |-> [i \in 1..n |-> i], got |-> arrived, grow |-> 0]

\* Plain answers within and beyond the limit, streamed ones, broken at any
\* point, failures with and without a body, and rewritten ones.
MCAnswers ==
    {A(FALSE, f, d, n, n) : f, d \in BOOLEAN, n \in 0..3}
    \cup UNION {{A(TRUE, FALSE, d, n, g) : d \in BOOLEAN, g \in 0..n} : n \in 0..4}
    \cup {A(TRUE, TRUE, d, n, n) : d \in BOOLEAN, n \in 0..2}
    \cup {A(FALSE, FALSE, TRUE, 2, 1)}
    \cup {[A(s, FALSE, d, n, n) EXCEPT !.grow = g] : s, d \in BOOLEAN, n \in 0..2, g \in {-1, 1}}
=============================================================================
