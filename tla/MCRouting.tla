----------------------------- MODULE MCRouting -----------------------------
(* Two hot reloads; the middle table shares a path with both others.  All   *)
(* rooted paths up to three characters over one letter and the slash or     *)
(* over two letters, one of four, and one without a leading slash; requests *)
(* for longer ones.  Two routes with a backend in common.                    *)
EXTENDS Routing

MCChars == {"a", "b", "/"}

MCTables == << <<"a", "b">>, <<"b">>, <<"b", "c">> >>

PathsOver(chars, n) == {<<"/">> \o s : s \in UNION {TupleOf(chars, m) : m \in 0..(n - 1)}}

MCPrefixPaths ==
    PathsOver({"a", "/"}, 3) \cup PathsOver({"a", "b"}, 3) \cup {<<"/", "a", "/", "a">>, <<"a">>}
MCExactPaths == PathsOver({"a"}, 3) \cup {<<"/", "a", "/">>}
MCRequestPaths == PathsOver({"a", "/"}, 4) \cup PathsOver(MCChars, 3)

MCRoutes == [api |-> <<"a", "b", "c">>, web |-> <<"b">>]

\* Every precedence, weights below, at and above the total, and the defaults.
MCRules ==
    {[by |-> b, canary |-> 1, total |-> 2] : b \in {{}, {"header", "cookie", "weight"}}}
    \cup {[by |-> {"weight"}, canary |-> w, total |-> 2] : w \in 0..3}
    \cup {[by |-> {"weight"}, canary |-> 50, total |-> 0]}
=============================================================================
