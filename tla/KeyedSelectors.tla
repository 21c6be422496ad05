--------------------------- MODULE KeyedSelectors ---------------------------
(***************************************************************************)
(* The selectors that keep nothing between selections: canary              *)
(* (internal/router/canary.go), header_route and ip_hash, as Router.Route  *)
(* calls them with the key it takes from the request and the backends that *)
(* are healthy at the time.                                                *)
(*                                                                         *)
(* A key is what its selector makes of it: an FNV hash where the key is    *)
(* hashed (MaxHash stands for the largest uint32), and otherwise the one   *)
(* fact the rule asks for.  A client is known by its Cookie header alone:  *)
(* RemoteAddr has the port, and a connection carries one request, so that  *)
(* an address is a new key with every request.                             *)
(***************************************************************************)
EXTENDS RouterBackends

CONSTANTS
    Clients,        \* who sends requests
    CanaryRules,    \* values of Route.Canary: by, the rules that are set, and
                    \* the two weights of a weight rule
    MaxAnswers      \* bound: selections kept

ASSUME CanaryAssumption ==
    /\ CanaryRules \subseteq [by : SUBSET {"header", "cookie", "weight"}, canary : Int, total : Int]
    /\ CanaryRules # {} /\ MaxAnswers \in Nat

\* The canary key: its hash, and whether it is the value a header rule names or
\* has the cookie a cookie rule names.
CanaryKeys == [hash : Hashes, matches : BOOLEAN]

VARIABLES
    cookie,     \* the Cookie header a client sends with every request: {key}, or
                \* {} for a client that sends none
    meta,       \* Backend.Meta by address: "marked" has canary: "true", or the
                \* version that requests ask for
    rule,       \* Route.Canary of the routes
    routed      \* history: selections, with the Meta that was chosen (side) and
                \* those there were to choose from (sides)

keyedVars == <<cookie, meta, rule, routed>>

Keyed == {"canary", "header_route", "ip_hash"}

KeyedInit ==
    /\ cookie \in [Clients -> {{}} \cup {{k} : k \in CanaryKeys}]
    /\ meta \in [Addrs -> {"plain", "marked"}]
    /\ rule \in CanaryRules
    /\ routed = {}

-----------------------------------------------------------------------------
(* canary                                                                  *)

Default == 100

\* selectByWeight: the threshold is truncated to 32 bits.
ByWeight(r, h) ==
    LET total == IF r.total <= 0 THEN Default ELSE r.total
        canary == IF r.canary < 0 THEN 0 ELSE r.canary
    IN  h < ((canary * MaxHash) \div total) % (MaxHash + 1)

\* The first rule that is set decides: header, cookie, weight; none: stable.  A
\* header rule compares the key as well, not the header it names.
ToCanary(r, key) ==
    IF r.by \cap {"header", "cookie"} # {} THEN key.matches
    ELSE "weight" \in r.by /\ ByWeight(r, key.hash)

First(list, Test(_)) == list[Min({i \in DOMAIN list : Test(list[i])})]

Marked(list) == {a \in Range(list) : meta[a] = "marked"}

\* findCanaryBackend: the first that is marked, else the last of the list.
CanaryBackend(list) ==
    IF Marked(list) # {} THEN First(list, LAMBDA a : meta[a] = "marked") ELSE Last(list)

\* findStableBackend: the first that is not marked, else the first.
StableBackend(list) ==
    IF Marked(list) # Range(list) THEN First(list, LAMBDA a : meta[a] # "marked") ELSE Head(list)

Canary(key, list) ==
    IF Len(list) = 1 THEN Head(list)
    ELSE IF ToCanary(rule, key) THEN CanaryBackend(list) ELSE StableBackend(list)

-----------------------------------------------------------------------------
(* header_route and ip_hash                                                *)

\* The first backend of the version, else (fallback is always on) the first.
HeaderRoute(key, list) ==
    IF Len(list) > 1 /\ \E a \in Range(list) : meta[a] = key
      THEN First(list, LAMBDA a : meta[a] = key)
      ELSE Head(list)

IPHash(key, list) == list[(key % Len(list)) + 1]

-----------------------------------------------------------------------------
\* Mutant: the address comes before the Cookie.
KeysOf_Address(c) ==
    CASE strategy = "canary" -> CanaryKeys
      [] strategy = "header_route" -> {"marked", "unknown"}
      [] OTHER -> Hashes

\* The key Route takes from a request of c: for canary the Cookie or else the
\* address, for header_route the header it names, and otherwise the address.
KeysOf(c) ==
    CASE strategy = "canary" -> IF cookie[c] = {} THEN CanaryKeys ELSE cookie[c]
      [] strategy = "header_route" -> {"marked", "unknown"}
      [] OTHER -> Hashes

Choice(key, list) ==
    CASE strategy = "canary" -> Canary(key, list)
      [] strategy = "header_route" -> HeaderRoute(key, list)
      [] OTHER -> IPHash(key, list)

\* Does the request ask header_route for the version of the marked backends?
Asks(key) == strategy = "header_route" /\ key = "marked"

\* Route, under the read lock; without a healthy backend it answers
\* ErrBackendDown.
SelectKeyed(n) ==
    \E list \in {Healthy(n)} :
    /\ strategy \in Keyed /\ list # <<>> /\ Cardinality(routed) < MaxAnswers
    /\ \E c \in Clients : \E key \in KeysOf(c) :
        routed' = routed \cup
            {[client |-> c, asks |-> Asks(key), rule |-> rule,
              side |-> meta[Choice(key, list)], sides |-> {meta[a] : a \in Range(list)}]}
    /\ UNCHANGED <<cookie, meta, rule>>

\* A reload installs another canary rule, and new backends: all healthy.
SwapRule ==
    /\ strategy = "canary" /\ flips < MaxFlips
    /\ flips' = flips + 1
    /\ \E r \in CanaryRules : r # rule /\ rule' = r
    /\ healthy' = [a \in Addrs |-> TRUE]
    /\ UNCHANGED <<strategy, cookie, meta, routed>>

-----------------------------------------------------------------------------
(* Properties                                                              *)

\* Both the canary and the stable side have a healthy backend.
BothSides(x) == x.sides = {"plain", "marked"}

\* Of two rules with the same tests, the second gives the canary at least as
\* much: for weights, at least the weight of the first and at most the total.
Widens(r, s) ==
    /\ r.by = s.by
    /\ \/ r = s
       \/ r.total = s.total /\ r.canary <= s.canary /\ s.canary <= s.total

\* A client that sends the same Cookie with each request (selectKey of Route)
\* and was sent to the canary is sent to it again, whichever backends go down or
\* come back and however often the weight is raised, as long as both sides have
\* a healthy backend; one that was sent to the stable side stays there until the
\* rule changes.  Nothing holds a client without a Cookie to a side.
KeepsSide ==
    strategy = "canary" =>
        \A x, y \in routed :
            /\ x.client = y.client /\ cookie[x.client] # {}
            /\ Widens(x.rule, y.rule) /\ BothSides(x) /\ BothSides(y)
            => (x.side = "marked" => y.side = "marked")

\* A weight of w in a total of t gives the canary w/t of the hashes, and at
\* most two hashes less: never more, and none for a weight of zero.
CanaryShare ==
    LET share == Cardinality({h \in Hashes : ByWeight(rule, h)}) * rule.total
        due == rule.canary * (MaxHash + 1)
    IN  (0 <= rule.canary /\ rule.canary <= rule.total /\ rule.total > 0)
        => share <= due /\ share + 2 * rule.total > due

\* A request that asks header_route for a version is sent to a backend without
\* it only if no healthy backend has it.
VersionHonoured ==
    \A x \in routed : x.asks /\ "marked" \in x.sides => x.side = "marked"

\* The key decides as its rule says, whatever goes down or is reloaded
\* (CanaryStrategy.Select, selectByWeight, HeaderRoute.Select).
HonoursKey == KeepsSide /\ CanaryShare /\ VersionHonoured
=============================================================================
