------------------------------ MODULE Routing ------------------------------
(***************************************************************************)
(* The router: when its lookup tree is rebuilt (RouteTable), what the tree *)
(* finds (RadixTree), and which backend of the route is taken (Selectors). *)
(* The first treats a tree as the routes inserted into it; the second      *)
(* shows that a tree behaves so, whatever is inserted in whatever order;   *)
(* the third starts where a route is found.  A behaviour follows one.      *)
(***************************************************************************)
EXTENDS RouteTable, RadixTree, Selectors

VARIABLE part

routingVars == <<part, vars, treeVars, selectorVars>>

\* Selectors that are not followed stay in one of their initial states.
RoutingInit ==
    /\ part \in {"table", "tree", "selectors"} /\ Init /\ TreeInit /\ SelectorsInit
    /\ part # "selectors" => /\ strategy = "ip_hash"
                             /\ \A a \in DOMAIN at : at[a] = 0
                             /\ \A e \in Entries : weight[e] = 1

Serve == part = "table" /\ Next /\ UNCHANGED <<part, treeVars, selectorVars>>

Fill == part = "tree" /\ Insert /\ UNCHANGED <<part, vars, selectorVars>>

Choose(A) == part = "selectors" /\ A /\ UNCHANGED <<part, vars, treeVars>>

RoutingNext == Serve \/ Fill \/ Choose(SelectorsNext)

RoutingSpec == RoutingInit /\ [][RoutingNext]_routingVars

\* The fairness of FairSelectors.
FairRouting == RoutingSpec /\ WF_routingVars(Choose(UseWeights))

-----------------------------------------------------------------------------
\* A lookup in the tree is as good as a scan of the route list: it finds exactly
\* the routes that fit a request, and of them the most specific one wins,
\* wherever the configuration lists it (Insert, Lookup, match).
MatchesScan == part = "tree" => LookupComplete /\ LongestWins
=============================================================================
