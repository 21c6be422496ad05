--------------------------- MODULE RouterBackends ---------------------------
(***************************************************************************)
(* What the selectors of internal/router/ share: the routes with their     *)
(* backends, and the health flags that UpdateBackendHealth sets under the  *)
(* router's write lock.  Router.selectors holds one selector per strategy, *)
(* for all routes of it; selectors of different strategies have no state   *)
(* in common, so a behaviour follows the routes of one strategy.           *)
(***************************************************************************)
EXTENDS Integers, Sequences, FiniteSets, SequencesExt, FiniteSetsExt

CONSTANTS
    Routes,         \* route name -> the addresses of its backends, in order
    MaxHash,        \* hashes are 0..MaxHash
    MaxFlips        \* bound: health changes and reloads

Names == DOMAIN Routes
Addrs == UNION {Range(Routes[n]) : n \in Names}

\* The code does not check that a route lists an address once (validateConfig
\* looks at backends one by one); a route that repeats one is outside the model,
\* which knows a backend by its route and address.
ASSUME RoutesAssumption ==
    /\ \A n \in Names : Routes[n] \in Seq(Addrs) \ {<<>>} /\ IsInjective(Routes[n])
    /\ IsFiniteSet(Names) /\ MaxHash \in Nat /\ MaxFlips \in Nat

Hashes == 0..MaxHash

VARIABLES
    strategy,       \* Route.Strategy of the routes
    healthy,        \* Backend.Healthy, by address
    flips           \* bound counter

routerVars == <<strategy, healthy, flips>>

Strategies ==
    {"consistent_hash", "weighted_round_robin", "canary", "header_route", "ip_hash"}

RouterInit ==
    /\ strategy \in Strategies
    /\ healthy = [a \in Addrs |-> TRUE]
    /\ flips = 0

\* Mutant: the loop ends at the first unhealthy backend.
Healthy_Breaks(n) ==
    LET down == {i \in DOMAIN Routes[n] : ~healthy[Routes[n][i]]}
    IN  IF down = {} THEN Routes[n] ELSE SubSeq(Routes[n], 1, Min(down) - 1)

\* healthyBackends of Route: the loop appends those that are healthy, in the
\* order of the configuration.
Healthy(n) ==
    LET upTo[i \in 0..Len(Routes[n])] ==
            IF i = 0 THEN <<>>
            ELSE IF healthy[Routes[n][i]] THEN Append(upTo[i - 1], Routes[n][i])
            ELSE upTo[i - 1]
    IN  upTo[Len(Routes[n])]

\* The flags of every backend with the address, whatever its route.
SetHealth(a) ==
    /\ flips < MaxFlips
    /\ flips' = flips + 1
    /\ healthy' = [healthy EXCEPT ![a] = ~@]
    /\ UNCHANGED strategy
=============================================================================
