------------------------------ MODULE RadixTree ------------------------------
(***************************************************************************)
(* The radix tree of internal/router/radix.go and the choice among its     *)
(* candidates in Router.match (internal/router/router.go), checked against *)
(* the rules of Router.matchRule applied to every inserted route.          *)
(*                                                                         *)
(* A path is a sequence of characters.  The nodes are numbered as they are *)
(* allocated, the root is node 1, and a node is [path, routes, children].  *)
(* The children are a set: the code keeps them sorted, which would matter  *)
(* only if two of them could fit the same path.                            *)
(***************************************************************************)
EXTENDS Integers, Sequences, SequencesExt

CONSTANTS
    Chars,          \* characters
    PrefixPaths,    \* paths configured with path_prefix
    ExactPaths,     \* paths configured with path_exact
    RequestPaths,   \* paths looked up
    MaxRoutes       \* bound: routes inserted

Slash == "/"

\* Requests name their target by its path, as HTTP has it.  The parser does not
\* insist: a request for "a" would miss a route configured as "a", which the
\* tree keeps under "/a".
ASSUME PathsAssumption ==
    /\ Slash \in Chars /\ MaxRoutes \in Nat
    /\ PrefixPaths \cup ExactPaths \cup RequestPaths \subseteq Seq(Chars)
    /\ <<>> \notin PrefixPaths \cup ExactPaths
    /\ \A p \in RequestPaths : p # <<>> /\ p[1] = Slash

\* A route: [id, kind, path, only].  A path_regex route has path <<>>, and its
\* expression fits every path.  only: the route names methods or headers,
\* which some requests meet and others do not.
RouteKinds == [kind : {"prefix"}, path : PrefixPaths, only : BOOLEAN]
                \cup [kind : {"exact"}, path : ExactPaths, only : BOOLEAN]
                \cup [kind : {"regex"}, path : {<<>>}, only : BOOLEAN]

LookupRequests == [path : RequestPaths, meets : BOOLEAN]

VARIABLES
    nodes,      \* the tree
    routes      \* Router.routes, in configuration order

treeVars == <<nodes, routes>>

Drop(s, k) == SubSeq(s, k + 1, Len(s))

\* The number of characters that two paths begin with in common.
commonPrefix(a, b) ==
    CHOOSE m \in 0..Len(a) :
        /\ m <= Len(b) /\ \A i \in 1..m : a[i] = b[i]
        /\ m = Len(a) \/ m = Len(b) \/ a[m + 1] # b[m + 1]

Node(path, rs, children) == [path |-> path, routes |-> rs, children |-> children]

\* The children that share a first character with the path.
findChild(n, path) == {c \in nodes[n].children : commonPrefix(path, nodes[c].path) > 0}

\* A place on the way down a path: a node, and how much of the path leads to it.
Places(path) == (DOMAIN nodes) \X (0..Len(path))

\* findOrCreateNode ends its loop at a node when nothing is left of the path
\* but a slash, or no child's path is a prefix of what is left.
Ends(rest) == rest \in {<<>>, <<Slash>>}
Onward(p, path) ==
    LET rest == Drop(path, p[2])
    IN IF Ends(rest) THEN {}
       ELSE {c \in findChild(p[1], rest) :
               commonPrefix(rest, nodes[c].path) = Len(nodes[c].path)}
Step(p, c) == <<c, p[2] + Len(nodes[c].path)>>

Descend(path) ==
    LET from[p \in Places(path)] ==
            IF Onward(p, path) = {} THEN p
            ELSE from[Step(p, CHOOSE c \in Onward(p, path) : TRUE)]
    IN from[<<1, 0>>]

\* The route is appended to the routes of a node that is there, ...
AppendRoute(n, r) == [nodes EXCEPT ![n].routes = Append(@, r)]

\* ... or goes to a new child of it.
appendChild(n, rest, r) ==
    Append([nodes EXCEPT ![n].children = @ \cup {Len(nodes) + 1}], Node(rest, <<r>>, {}))

\* Mutant: the old child's subtree is dropped by the split.
Split_DropsChildren(n, c, rest, r) ==
    LET m == commonPrefix(rest, nodes[c].path)
        s == Len(nodes) + 1
        cut == [nodes EXCEPT ![c] = Node(Drop(@.path, m), @.routes, {}),
                             ![n].children = (@ \ {c}) \cup {s}]
    IN IF m = Len(rest)
       THEN Append(cut, Node(rest, <<r>>, {c}))
       ELSE cut \o <<Node(SubSeq(rest, 1, m), <<>>, {c, s + 1}), Node(Drop(rest, m), <<r>>, {})>>

\* splitNodeWithPrefix and splitNodePartial: child c of n shares only its first
\* m characters with the rest of the path.  The new route goes to the node of
\* the split, or to a new sibling of the old child.
Split(n, c, rest, r) ==
    LET m == commonPrefix(rest, nodes[c].path)
        s == Len(nodes) + 1
        cut == [nodes EXCEPT ![c].path = Drop(@, m),
                             ![n].children = (@ \ {c}) \cup {s}]
    IN IF m = Len(rest)
       THEN Append(cut, Node(rest, <<r>>, {c}))
       ELSE cut \o <<Node(SubSeq(rest, 1, m), <<>>, {c, s + 1}), Node(Drop(rest, m), <<r>>, {})>>

\* A path without a leading slash gets one.
Rooted(path) == IF path = <<>> \/ path[1] = Slash THEN path ELSE <<Slash>> \o path

\* RadixTree.Insert
InsertRoute(r) ==
    LET path == Rooted(r.path)
        p    == Descend(path)
        rest == Drop(path, p[2])
        found == findChild(p[1], rest)
    IN IF Ends(rest) THEN AppendRoute(p[1], r)
       ELSE IF found = {} THEN appendChild(p[1], rest, r)
       ELSE Split(p[1], CHOOSE c \in found : TRUE, rest, r)

\* The routes of one node that collectMatches takes.
Own(n, full) ==
    LET rs == nodes[n].routes
        upTo[i \in 0..Len(rs)] ==
            IF i = 0 THEN <<>>
            ELSE IF rs[i].kind = "exact" => rs[i].path = full THEN Append(upTo[i - 1], rs[i])
            ELSE upTo[i - 1]
    IN upTo[Len(rs)]

\* The children whose path is a prefix of what is left.
Fitting(p, path) ==
    {c \in nodes[p[1]].children : IsPrefix(nodes[c].path, Drop(path, p[2]))}

\* Lookup, by collectMatches: the routes on the way down, outermost first.
Lookup(path) ==
    LET from[p \in Places(path)] ==
            IF Fitting(p, path) = {} THEN Own(p[1], path)
            ELSE Own(p[1], path) \o from[Step(p, CHOOSE c \in Fitting(p, path) : TRUE)]
    IN from[<<1, 0>>]

\* Router.matchRule
MatchRule(r, path) ==
    CASE r.kind = "exact"  -> r.path = path
      [] r.kind = "prefix" -> IsPrefix(r.path, path)
      [] r.kind = "regex"  -> TRUE

\* matchMethod and matchHeaders
MatchRest(r, req) == r.only => req.meets

Fits(r, req) == MatchRule(r, req.path) /\ MatchRest(r, req)

\* The candidates of Router.match are tried from the last to the first.
match(req) ==
    LET candidates == Lookup(req.path)
        fit == {i \in DOMAIN candidates : Fits(candidates[i], req)}
    IN candidates[CHOOSE i \in fit : \A j \in fit : j <= i]

TreeInit ==
    /\ nodes = <<Node(<<Slash>>, <<>>, {})>>
    /\ routes = <<>>

\* rebuildTree inserts the routes of a configuration one after the other.
Insert ==
    /\ Len(routes) < MaxRoutes
    /\ \E k \in RouteKinds :
          LET r == [id |-> Len(routes) + 1, kind |-> k.kind, path |-> k.path, only |-> k.only]
          IN /\ routes' = Append(routes, r)
             /\ nodes' = InsertRoute(r)

-----------------------------------------------------------------------------
(* Properties                                                              *)

Wanted(req) == {r \in ToSet(routes) : Fits(r, req)}

\* The tree loses nothing: among its candidates for a path are all routes of
\* the configuration that fit the request, whatever the order of insertion and
\* the splits it caused, and no route is there twice.
LookupComplete ==
    \A req \in LookupRequests :
        \E found \in {Lookup(req.path)} :
            /\ {r \in ToSet(found) : Fits(r, req)} = Wanted(req)
            /\ \A i, j \in DOMAIN found : i # j => found[i] # found[j]

Trimmed(path) ==
    IF path # <<>> /\ path[Len(path)] = Slash THEN Front(path) ELSE path

\* The most specific route wins: of the routes that fit a request, method and
\* headers included, match returns one with the longest path, up to a trailing
\* slash of the others ("/a/" may share the node of "/a", where the later route
\* comes first).
LongestWins ==
    \A req \in LookupRequests : Wanted(req) # {} =>
        \E best \in {match(req)} :
            /\ best \in Wanted(req)
            /\ \A r \in Wanted(req) : Len(best.path) >= Len(Trimmed(r.path))
=============================================================================
