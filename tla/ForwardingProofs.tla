-------------------------- MODULE ForwardingProofs --------------------------
(***************************************************************************)
(* Forwarding for any number of requests, backends, reloads and failures:  *)
(* a least_conn counter never exceeds the requests that hold the backend,  *)
(* and equals them in a table installed with nothing in flight; and one    *)
(* good backend is enough for a request with a retry for each.             *)
(***************************************************************************)
EXTENDS Forwarding, FiniteSetTheorems, WellFoundedInduction, TLAPS

\* What the argument needs of the types.
CoreTypes ==
    /\ gen \in Gens
    /\ conns \in [Gens -> [Addrs -> Int]]
    /\ pc \in [Reqs -> Labels]
    /\ rgen \in [Reqs -> Gens] /\ rel \in [Reqs -> Gens]
    /\ DOMAIN first = Reqs

\* A route object belongs to a table that has been installed, and to the
\* current one while Route holds the lock; Release's selector is not older.
Tables ==
    \A r \in Reqs :
        /\ rgen[r] <= gen
        /\ InRoute(r) => rgen[r] = gen
        /\ CasPending(r) => rgen[r] <= rel[r] /\ rel[r] <= gen

\* The selectors of tables to come count nothing yet.
FutureZero == \A g \in Gens : g > gen => \A a \in Addrs : conns[g][a] = 0

IInv == CoreTypes /\ Tables /\ FutureZero /\ NoLeak

LEMMA HoldersFinite ==
    ASSUME NEW g, NEW a
    PROVE  /\ IsFiniteSet(Holders(g, a))
           /\ Cardinality(Holders(g, a)) \in Nat
<1>1. Holders(g, a) \subseteq Reqs
  BY DEF Holders
<1>2. IsFiniteSet(Holders(g, a))
  BY <1>1, FS_Subset, ForwardingAssumption
<1> QED
  BY <1>2, FS_CardinalityType

LEMMA InitIInv == Init => IInv
<1> SUFFICES ASSUME Init PROVE IInv
  OBVIOUS
<1>1. CoreTypes /\ Tables /\ FutureZero
  BY ForwardingAssumption DEF Init, CoreTypes, Tables, FutureZero, Gens, Labels, InRoute, CasPending
<1>2. NoLeak
  BY HoldersFinite, ForwardingAssumption DEF Init, NoLeak, Gens
<1> QED
  BY <1>1, <1>2 DEF IInv

\* A step that leaves the counters alone and takes nobody out of Holders.
LEMMA Quiet ==
    ASSUME IInv, CoreTypes', Tables', gen' = gen, conns' = conns,
           \A r \in Reqs : Holds(r)' <=> Holds(r),
           \A r \in Reqs : Holds(r) => rgen'[r] = rgen[r] /\ first'[r] = first[r]
    PROVE  IInv'
<1>1. \A a \in Addrs : Holders(gen, a)' = Holders(gen, a)
  BY DEF Holders
<1> QED
  BY <1>1 DEF IInv, FutureZero, NoLeak

\* A step that takes r out of Holders without touching the counters, when
\* its counter is not positive or r does not count in the current table.
LEMMA Leave ==
    ASSUME IInv, CoreTypes', Tables', NEW r \in Reqs, gen' = gen, conns' = conns,
           UNCHANGED <<rgen, first>>,
           \A q \in Reqs \ {r} : Holds(q)' <=> Holds(q),
           ~Holds(r)',
           rgen[r] = gen => conns[gen][first[r]] <= 0
    PROVE  IInv'
<1>1. ASSUME NEW a \in Addrs PROVE conns[gen][a] <= Cardinality(Holders(gen, a)')
  <2>1. Cardinality(Holders(gen, a)') \in Nat /\ conns[gen][a] \in Int
    <3>1. Holders(gen, a)' \subseteq Reqs
      BY DEF Holders
    <3> QED
      BY <3>1, FS_Subset, FS_CardinalityType, ForwardingAssumption DEF IInv, CoreTypes
  <2>2. CASE rgen[r] = gen /\ first[r] = a
    BY <2>1, <2>2
  <2>3. CASE ~(rgen[r] = gen /\ first[r] = a)
    <3>1. Holders(gen, a)' = Holders(gen, a)
      BY <2>3 DEF Holders
    <3> QED
      BY <3>1 DEF IInv, NoLeak
  <2> QED
    BY <2>2, <2>3
<1> QED
  BY <1>1 DEF IInv, FutureZero, NoLeak

\* A counter updated at one place, whether or not it exists, keeps its type.
LEMMA UpdateType ==
    ASSUME NEW f \in [Gens -> [Addrs -> Int]], NEW g, NEW b, NEW v,
           NEW h, h = [f EXCEPT ![g][b] = v],
           \A x \in Gens, a \in Addrs : h[x][a] \in Int
    PROVE  h \in [Gens -> [Addrs -> Int]]
<1>1. DOMAIN h = Gens /\ h = [x \in Gens |-> h[x]]
  OBVIOUS
<1>2. ASSUME NEW x \in Gens PROVE h[x] \in [Addrs -> Int]
  <2>1. h[x] = [a \in Addrs |-> h[x][a]]
    OBVIOUS
  <2> QED
    BY <2>1
<1> QED
  BY <1>1, <1>2

LEMMA AddIInv ==
    ASSUME IInv, NEW r \in Reqs, SelectAdd(r)
    PROVE  IInv'
<1> DEFINE b == scan[r].best
<1>1. /\ conns' = [conns EXCEPT ![gen][b] = @ + 1]
      /\ first' = [first EXCEPT ![r] = b]
      /\ pc' = [pc EXCEPT ![r] = "try"]
      /\ UNCHANGED <<gen, rgen, rel>>
      /\ pc[r] = "add"
  BY DEF SelectAdd, Goto, tableVars, relVars
<1>2. CoreTypes' /\ Tables' /\ FutureZero'
  <2>1. \A g \in Gens, a \in Addrs :
            conns'[g][a] = IF g = gen /\ a = b THEN conns[g][a] + 1 ELSE conns[g][a]
    BY <1>1 DEF IInv, CoreTypes
  <2>2. conns' \in [Gens -> [Addrs -> Int]]
    <3>1. conns \in [Gens -> [Addrs -> Int]]
      BY DEF IInv, CoreTypes
    <3>2. \A g \in Gens, a \in Addrs : conns'[g][a] \in Int
      BY <2>1, <3>1
    <3>3. conns' = [conns EXCEPT ![gen][b] = conns[gen][b] + 1]
      BY <1>1
    <3> HIDE DEF b
    <3> QED
      BY <3>1, <3>2, <3>3, UpdateType
  <2>3. CoreTypes'
    BY <1>1, <2>2 DEF IInv, CoreTypes, Labels
  <2>4. Tables'
    BY <1>1 DEF IInv, CoreTypes, Tables, InRoute, CasPending
  <2>5. FutureZero'
    BY <1>1, <2>1 DEF IInv, CoreTypes, FutureZero, Gens
  <2> QED
    BY <2>3, <2>4, <2>5
<1>3. ASSUME NEW a \in Addrs PROVE conns'[gen][a] <= Cardinality(Holders(gen, a)')
  <2>1. conns[gen][a] <= Cardinality(Holders(gen, a)) /\ conns[gen][a] \in Int
    BY DEF IInv, NoLeak, CoreTypes
  <2>2. CASE a = b
    <3>1. Holders(gen, a)' = Holders(gen, a) \cup {r} /\ r \notin Holders(gen, a)
      BY <1>1, <2>2 DEF Holders, Holds, IInv, CoreTypes, Tables, InRoute
    <3>2. Cardinality(Holders(gen, a)') = Cardinality(Holders(gen, a)) + 1
      BY <3>1, HoldersFinite, FS_AddElement
    <3>3. conns'[gen][a] = conns[gen][a] + 1
      BY <1>1, <2>2 DEF IInv, CoreTypes
    <3> QED
      BY <2>1, <3>2, <3>3, HoldersFinite
  <2>3. CASE a # b
    <3>1. Holders(gen, a)' = Holders(gen, a)
      BY <1>1, <2>3 DEF Holders, Holds, IInv, CoreTypes
    <3>2. conns'[gen][a] = conns[gen][a]
      BY <1>1, <2>3 DEF IInv, CoreTypes
    <3> QED
      BY <2>1, <3>1, <3>2
  <2> QED
    BY <2>2, <2>3
<1> QED
  BY <1>1, <1>2, <1>3 DEF IInv, NoLeak

LEMMA ReleaseIInv ==
    ASSUME IInv, NEW r \in Reqs, Release(r)
    PROVE  IInv'
<1>1. /\ UNCHANGED <<gen, conns, rgen, first>>
      /\ rel' = [rel EXCEPT ![r] = gen]
      /\ pc' = [pc EXCEPT ![r] = IF conns[gen][first[r]] <= 0 THEN Ending(pc[r])
                                 ELSE IF pc[r] = "release" THEN "cas" ELSE "casFailed"]
      /\ pc[r] \in {"release", "releaseFailed"}
  BY DEF Release, Releasing, Goto, tableVars, selVars
<1>2. CoreTypes' /\ Tables'
  BY <1>1 DEF IInv, CoreTypes, Tables, InRoute, CasPending, Labels, Gens, Ending
<1>3. CASE conns[gen][first[r]] <= 0
  <2>1. ~Holds(r)'
    BY <1>1, <1>3 DEF Holds, Ending, IInv, CoreTypes
  <2>2. \A q \in Reqs \ {r} : Holds(q)' <=> Holds(q)
    BY <1>1 DEF Holds, IInv, CoreTypes
  <2> QED
    BY <1>1, <1>2, <1>3, <2>1, <2>2, Leave
<1>4. CASE ~(conns[gen][first[r]] <= 0)
  <2>1. \A q \in Reqs : Holds(q)' <=> Holds(q)
    BY <1>1, <1>4 DEF Holds, IInv, CoreTypes
  <2> QED
    BY <1>1, <1>2, <2>1, Quiet
<1> QED
  BY <1>3, <1>4

LEMMA CasIInv ==
    ASSUME IInv, NEW r \in Reqs, ReleaseCas(r)
    PROVE  IInv'
<1> DEFINE c == conns[rel[r]][first[r]]
<1>1. UNCHANGED <<gen, rgen, rel, first>> /\ pc[r] \in {"cas", "casFailed"}
  BY DEF ReleaseCas, CasPending, tableVars, selVars
<1>2. rgen[r] <= rel[r] /\ rel[r] <= gen
  BY <1>1 DEF IInv, Tables, CasPending
<1>3. CASE c = val[r]
  <2>1. /\ conns' = [conns EXCEPT ![rel[r]][first[r]] = c - 1]
        /\ pc' = [pc EXCEPT ![r] = Ending(pc[r])]
    BY <1>3 DEF ReleaseCas, Goto
  <2>2. CoreTypes' /\ Tables' /\ FutureZero'
    <3>1. \A g \in Gens, a \in Addrs :
            conns'[g][a] = IF g = rel[r] /\ a = first[r] THEN conns[g][a] - 1 ELSE conns[g][a]
      BY <2>1 DEF IInv, CoreTypes
    <3>2. conns' \in [Gens -> [Addrs -> Int]]
      <4>1. conns \in [Gens -> [Addrs -> Int]]
        BY DEF IInv, CoreTypes
      <4>2. \A g \in Gens, a \in Addrs : conns'[g][a] \in Int
        BY <3>1, <4>1
      <4> QED
        BY <2>1, <4>1, <4>2, UpdateType
    <3>3. CoreTypes'
      BY <1>1, <2>1, <3>2 DEF IInv, CoreTypes, Labels, Ending
    <3>4. Tables'
      BY <1>1, <2>1 DEF IInv, CoreTypes, Tables, InRoute, CasPending, Ending
    <3>5. FutureZero'
      <4>1. \A g \in Gens : g > gen => g # rel[r]
        BY <1>2 DEF IInv, CoreTypes, Gens
      <4> QED
        BY <1>1, <3>1, <4>1 DEF IInv, FutureZero
    <3> QED
      BY <3>3, <3>4, <3>5
  <2>3. ASSUME NEW a \in Addrs PROVE conns'[gen][a] <= Cardinality(Holders(gen, a)')
    <3>1. /\ conns[gen][a] <= Cardinality(Holders(gen, a)) /\ conns[gen][a] \in Int
          /\ Cardinality(Holders(gen, a)) \in Nat /\ IsFiniteSet(Holders(gen, a))
      BY HoldersFinite DEF IInv, NoLeak, CoreTypes
    <3>2. CASE r \in Holders(gen, a)
      <4>1. rel[r] = gen /\ first[r] = a
        BY <1>2, <3>2 DEF Holders, IInv, CoreTypes, Gens
      <4>2. conns'[gen][a] = conns[gen][a] - 1
        BY <2>1, <4>1 DEF IInv, CoreTypes
      <4>3. Holders(gen, a)' = Holders(gen, a) \ {r}
        BY <1>1, <2>1 DEF Holders, Holds, Ending, IInv, CoreTypes
      <4>4. Cardinality(Holders(gen, a)') = Cardinality(Holders(gen, a)) - 1
        BY <3>1, <3>2, <4>3, FS_RemoveElement
      <4> QED
        BY <3>1, <4>2, <4>4
    <3>3. CASE r \notin Holders(gen, a)
      <4>1. Holders(gen, a)' = Holders(gen, a)
        BY <1>1, <2>1, <3>3 DEF Holders, Holds, Ending, IInv, CoreTypes
      <4>2. conns'[gen][a] <= conns[gen][a]
        BY <2>1 DEF IInv, CoreTypes
      <4>3. conns'[gen][a] \in Int
        BY <1>1, <2>2 DEF CoreTypes
      <4> QED
        BY <3>1, <4>1, <4>2, <4>3
    <3> QED
      BY <3>2, <3>3
  <2> QED
    BY <1>1, <2>2, <2>3 DEF IInv, NoLeak
<1>4. CASE c # val[r]
  <2>1. /\ conns' = conns
        /\ pc' = [pc EXCEPT ![r] = IF c <= 0 THEN Ending(pc[r]) ELSE pc[r]]
    BY <1>4 DEF ReleaseCas, Goto
  <2>2. CoreTypes' /\ Tables'
    BY <1>1, <2>1 DEF IInv, CoreTypes, Tables, InRoute, CasPending, Labels, Ending
  <2>3. \A q \in Reqs \ {r} : Holds(q)' <=> Holds(q)
    BY <2>1 DEF Holds, IInv, CoreTypes
  <2>4. CASE c <= 0
    <3>1. ~Holds(r)'
      BY <1>1, <2>1, <2>4 DEF Holds, Ending, IInv, CoreTypes
    <3>2. rgen[r] = gen => conns[gen][first[r]] <= 0
      BY <1>2, <2>4 DEF IInv, CoreTypes, Gens
    <3> QED
      BY <1>1, <2>1, <2>2, <2>3, <3>1, <3>2, Leave
  <2>5. CASE ~(c <= 0)
    <3>1. Holds(r)' <=> Holds(r)
      BY <2>1, <2>5 DEF Holds, IInv, CoreTypes
    <3>2. \A q \in Reqs : Holds(q)' <=> Holds(q)
      BY <2>3, <3>1
    <3> QED
      BY <1>1, <2>1, <2>2, <3>2, Quiet
  <2> QED
    BY <2>4, <2>5
<1> QED
  BY <1>3, <1>4

LEMMA SwapIInv ==
    ASSUME IInv, SwapRoutes
    PROVE  IInv'
<1>1. gen' = gen + 1 /\ UNCHANGED <<conns, pc, rgen, rel, first>> /\ gen < MaxSwaps
  BY DEF SwapRoutes, reqVars, selVars, relVars
<1>2. CoreTypes' /\ Tables' /\ FutureZero'
  <2>1. gen \in Int /\ gen + 1 \in Gens
    BY <1>1, ForwardingAssumption DEF IInv, CoreTypes, Gens
  <2>2. CoreTypes'
    BY <1>1, <2>1 DEF IInv, CoreTypes
  <2>3. \A r \in Reqs : ~InRoute(r) /\ rgen[r] \in Int /\ rel[r] \in Int
    BY DEF SwapRoutes, IInv, CoreTypes, Gens
  <2>4. Tables'
    BY <1>1, <2>1, <2>3 DEF IInv, Tables, InRoute, CasPending
  <2>5. FutureZero'
    BY <1>1, <2>1 DEF IInv, FutureZero, Gens
  <2> QED
    BY <2>2, <2>4, <2>5
<1>3. \A a \in Addrs : conns[gen + 1][a] = 0
  BY <1>1, ForwardingAssumption DEF IInv, FutureZero, CoreTypes, Gens
<1>4. \A a \in Addrs : Cardinality(Holders(gen, a)') \in Nat
  <2>1. \A a \in Addrs : Holders(gen, a)' \subseteq Reqs
    BY DEF Holders
  <2> QED
    BY <2>1, FS_Subset, FS_CardinalityType, ForwardingAssumption
<1> QED
  BY <1>1, <1>2, <1>3, <1>4 DEF IInv, NoLeak

LEMMA NextIInv == IInv /\ [Next]_vars => IInv'
<1> SUFFICES ASSUME IInv, [Next]_vars PROVE IInv'
  OBVIOUS
<1> USE DEF IInv, CoreTypes, Tables, InRoute, CasPending, Holds, Labels, Goto, Return
<1> USE DEF envVars, tableVars, tryVars, relVars, selVars, reqVars
<1>1. ASSUME NEW r \in Reqs, Route(r) PROVE IInv'
  <2>1. CoreTypes' /\ Tables'
    BY <1>1 DEF Route, Gens
  <2> QED
    BY <1>1, <2>1, Quiet DEF Route
<1>2. ASSUME NEW r \in Reqs, Select(r) PROVE IInv'
  <2>1. CoreTypes' /\ Tables'
    BY <1>2 DEF Select
  <2> QED
    BY <1>2, <2>1, Quiet DEF Select
<1>3. ASSUME NEW r \in Reqs, TrySucceeds(r) \/ TryFails(r) \/ Retry(r)
                          \/ DialFails(r) \/ DialSucceeds(r) \/ TunnelEnds(r) PROVE IInv'
  <2>1. UNCHANGED <<gen, conns, rgen, rel, first>> /\ pc[r] \in {"try", "tunnel", "backoff"}
    BY <1>3 DEF TrySucceeds, TryFails, Retry, DialFails, DialSucceeds, TunnelEnds
  <2>2. \E l \in {"try", "tunnel", "backoff", "release", "releaseFailed"} : pc' = [pc EXCEPT ![r] = l]
    BY <1>3 DEF TrySucceeds, TryFails, Retry, DialFails, DialSucceeds, TunnelEnds
  <2>3. CoreTypes' /\ Tables'
    BY <2>1, <2>2
  <2> QED
    BY <2>1, <2>2, <2>3, Quiet
<1>4. ASSUME NEW a \in Addrs, Toggle(a) \/ CheckHealth(a) PROVE IInv'
  <2>1. UNCHANGED <<gen, conns, pc, rgen, rel, first>>
    BY <1>4 DEF Toggle, CheckHealth
  <2> QED
    BY <2>1, Quiet
<1>5. CASE UNCHANGED vars
  <2>1. UNCHANGED <<gen, conns, pc, rgen, rel, first>>
    BY <1>5 DEF vars
  <2> QED
    BY <2>1, Quiet
<1> QED
  BY <1>1, <1>2, <1>3, <1>4, <1>5, AddIInv, ReleaseIInv, CasIInv, SwapIInv DEF Next, RequestStep

\* Least_conn never leaks a count: for any number of requests, backends,
\* reloads and failures, a counter of the current selector is at most the
\* number of requests that took it and have not yet called Release.
THEOREM NoCounterLeaks == Spec => []NoLeak
<1>1. IInv => NoLeak
  BY DEF IInv
<1> QED
  BY InitIInv, NextIInv, <1>1, PTL DEF Spec

-----------------------------------------------------------------------------
(* Exact counters                                                          *)

\* In a table installed with nothing in flight, whoever holds a backend chose
\* it from that table, and the counters are the numbers of those who hold.
Exact ==
    ~crossed =>
        /\ \A r \in Reqs : Holds(r) => rgen[r] = gen
        /\ \A a \in Addrs : conns[gen][a] = Cardinality(Holders(gen, a))

\* A step that changes neither the counters nor who holds what.
LEMMA QuietExact ==
    ASSUME Exact, gen' = gen, crossed' = crossed, conns' = conns,
           \A r \in Reqs : Holds(r)' <=> Holds(r),
           \A r \in Reqs : Holds(r) => rgen'[r] = rgen[r] /\ first'[r] = first[r]
    PROVE  Exact'
<1>1. \A a \in Addrs : Holders(gen, a)' = Holders(gen, a)
  BY DEF Holders
<1> QED
  BY <1>1 DEF Exact

\* Release finds a counter that is not positive only if nobody counts in it.
LEMMA LeaveExact ==
    ASSUME IInv, Exact, NEW r \in Reqs, Holds(r), ~Holds(r)', ~crossed => conns[gen][first[r]] <= 0,
           UNCHANGED <<gen, crossed, conns, rgen, first>>,
           \A q \in Reqs \ {r} : Holds(q)' <=> Holds(q)
    PROVE  Exact'
<1> SUFFICES ASSUME ~crossed PROVE Exact'
  BY DEF Exact
<1>1. first[r] \notin Addrs
  <2> SUFFICES ASSUME first[r] \in Addrs PROVE FALSE
    OBVIOUS
  <2>1. r \in Holders(gen, first[r]) /\ conns[gen][first[r]] = Cardinality(Holders(gen, first[r]))
    BY DEF Exact, Holders
  <2>2. Cardinality(Holders(gen, first[r])) # 0 /\ Cardinality(Holders(gen, first[r])) \in Nat
    BY <2>1, HoldersFinite, FS_EmptySet
  <2> QED
    BY <2>1, <2>2
<1>2. \A a \in Addrs : Holders(gen, a)' = Holders(gen, a)
  BY <1>1 DEF Holders
<1> QED
  BY <1>2 DEF Exact

LEMMA AddExact ==
    ASSUME IInv, Exact, NEW r \in Reqs, SelectAdd(r)
    PROVE  Exact'
<1> DEFINE b == scan[r].best
<1>1. /\ conns' = [conns EXCEPT ![gen][b] = @ + 1]
      /\ first' = [first EXCEPT ![r] = b]
      /\ pc' = [pc EXCEPT ![r] = "try"]
      /\ UNCHANGED <<gen, crossed, rgen>>
      /\ pc[r] = "add"
  BY DEF SelectAdd, Goto, tableVars
<1> SUFFICES ASSUME ~crossed PROVE Exact'
  BY <1>1 DEF Exact
<1>2. \A q \in Reqs : Holds(q)' => rgen'[q] = gen
  BY <1>1 DEF Exact, Holds, IInv, CoreTypes, Tables, InRoute
<1>3. ASSUME NEW a \in Addrs PROVE conns'[gen][a] = Cardinality(Holders(gen, a)')
  <2>1. conns[gen][a] = Cardinality(Holders(gen, a)) /\ conns[gen][a] \in Int
    BY DEF Exact, IInv, CoreTypes
  <2>2. CASE a = b
    <3>1. Holders(gen, a)' = Holders(gen, a) \cup {r} /\ r \notin Holders(gen, a)
      BY <1>1, <2>2 DEF Holders, Holds, IInv, CoreTypes, Tables, InRoute
    <3>2. Cardinality(Holders(gen, a)') = Cardinality(Holders(gen, a)) + 1
      BY <3>1, HoldersFinite, FS_AddElement
    <3>3. conns'[gen][a] = conns[gen][a] + 1
      BY <1>1, <2>2 DEF IInv, CoreTypes
    <3> QED
      BY <2>1, <3>2, <3>3
  <2>3. CASE a # b
    <3>1. Holders(gen, a)' = Holders(gen, a)
      BY <1>1, <2>3 DEF Holders, Holds, IInv, CoreTypes
    <3>2. conns'[gen][a] = conns[gen][a]
      BY <1>1, <2>3 DEF IInv, CoreTypes
    <3> QED
      BY <2>1, <3>1, <3>2
  <2> QED
    BY <2>2, <2>3
<1> QED
  BY <1>1, <1>2, <1>3 DEF Exact

\* The compare-and-swap: who succeeds takes itself off the counter.
LEMMA CasExact ==
    ASSUME IInv, Exact, NEW r \in Reqs, ReleaseCas(r)
    PROVE  Exact'
<1> DEFINE c == conns[rel[r]][first[r]]
<1>1. UNCHANGED <<gen, crossed, rgen, rel, first>> /\ pc[r] \in {"cas", "casFailed"} /\ Holds(r)
  BY DEF ReleaseCas, CasPending, tableVars, selVars, Holds
<1> SUFFICES ASSUME ~crossed PROVE Exact'
  BY <1>1 DEF Exact
<1>2. rgen[r] = gen /\ rel[r] = gen
  BY <1>1 DEF IInv, Tables, CasPending, CoreTypes, Gens, Exact
<1>3. CASE c = val[r]
  <2>1. /\ conns' = [conns EXCEPT ![gen][first[r]] = conns[gen][first[r]] - 1]
        /\ pc' = [pc EXCEPT ![r] = Ending(pc[r])]
    BY <1>2, <1>3 DEF ReleaseCas, Goto
  <2>2. \A q \in Reqs : Holds(q)' => rgen[q] = gen
    BY <1>1, <2>1 DEF Exact, Holds, IInv, CoreTypes, Ending
  <2>3. ASSUME NEW a \in Addrs PROVE conns'[gen][a] = Cardinality(Holders(gen, a)')
    <3>1. conns[gen][a] = Cardinality(Holders(gen, a)) /\ conns[gen][a] \in Int
      BY DEF Exact, IInv, CoreTypes
    <3>2. CASE first[r] = a
      <4>1. Holders(gen, a)' = Holders(gen, a) \ {r} /\ r \in Holders(gen, a)
        BY <1>1, <1>2, <2>1, <3>2 DEF Holders, Holds, Ending, IInv, CoreTypes
      <4>2. Cardinality(Holders(gen, a)') = Cardinality(Holders(gen, a)) - 1
        BY <4>1, HoldersFinite, FS_RemoveElement
      <4>3. conns'[gen][a] = conns[gen][a] - 1
        BY <2>1, <3>2 DEF IInv, CoreTypes
      <4> QED
        BY <3>1, <4>2, <4>3
    <3>3. CASE first[r] # a
      <4>1. Holders(gen, a)' = Holders(gen, a)
        BY <1>1, <2>1, <3>3 DEF Holders, Holds, Ending, IInv, CoreTypes
      <4>2. conns'[gen][a] = conns[gen][a]
        BY <2>1, <3>3 DEF IInv, CoreTypes
      <4> QED
        BY <3>1, <4>1, <4>2
    <3> QED
      BY <3>2, <3>3
  <2> QED
    BY <1>1, <2>2, <2>3 DEF Exact
<1>4. CASE c # val[r]
  <2>1. /\ conns' = conns
        /\ pc' = [pc EXCEPT ![r] = IF c <= 0 THEN Ending(pc[r]) ELSE pc[r]]
    BY <1>4 DEF ReleaseCas, Goto
  <2>2. \A q \in Reqs \ {r} : Holds(q)' <=> Holds(q)
    BY <2>1 DEF Holds, IInv, CoreTypes
  <2>3. CASE c <= 0
    <3>1. ~Holds(r)'
      BY <1>1, <2>1, <2>3 DEF Holds, Ending, IInv, CoreTypes
    <3> QED
      BY <1>1, <1>2, <2>1, <2>2, <2>3, <3>1, LeaveExact
  <2>4. CASE ~(c <= 0)
    <3>1. \A q \in Reqs : Holds(q)' <=> Holds(q)
      BY <2>1, <2>4 DEF Holds, IInv, CoreTypes
    <3> QED
      BY <1>1, <2>1, <3>1, QuietExact
  <2> QED
    BY <2>3, <2>4
<1> QED
  BY <1>3, <1>4

LEMMA ReleaseExact ==
    ASSUME IInv, Exact, NEW r \in Reqs, Release(r)
    PROVE  Exact'
<1>1. /\ UNCHANGED <<gen, crossed, conns, rgen, first>> /\ Holds(r)
      /\ pc' = [pc EXCEPT ![r] = IF conns[gen][first[r]] <= 0 THEN Ending(pc[r])
                                 ELSE IF pc[r] = "release" THEN "cas" ELSE "casFailed"]
  BY DEF Release, Releasing, Goto, tableVars, selVars, Holds
<1>2. CASE conns[gen][first[r]] <= 0
  <2>1. ~Holds(r)'
    BY <1>1, <1>2 DEF Holds, Ending, IInv, CoreTypes
  <2>2. \A q \in Reqs \ {r} : Holds(q)' <=> Holds(q)
    BY <1>1 DEF Holds, IInv, CoreTypes
  <2> QED
    BY <1>1, <1>2, <2>1, <2>2, LeaveExact
<1>3. CASE ~(conns[gen][first[r]] <= 0)
  <2>1. \A q \in Reqs : Holds(q)' <=> Holds(q)
    BY <1>1, <1>3 DEF Holds, IInv, CoreTypes
  <2> QED
    BY <1>1, <2>1, QuietExact
<1> QED
  BY <1>2, <1>3

LEMMA SwapExact ==
    ASSUME IInv, SwapRoutes
    PROVE  Exact'
<1>1. /\ gen' = gen + 1 /\ UNCHANGED <<conns, pc, rgen, first>> /\ gen < MaxSwaps
      /\ crossed' = \E r \in Reqs : Holds(r)
  BY DEF SwapRoutes, reqVars, selVars, relVars
<1> SUFFICES ASSUME ~crossed' PROVE Exact'
  BY DEF Exact
<1>2. \A r \in Reqs : ~Holds(r)'
  BY <1>1 DEF Holds
<1>3. \A a \in Addrs : Holders(gen, a)' = {}
  BY <1>2 DEF Holders
<1>4. \A a \in Addrs : conns[gen + 1][a] = 0
  BY <1>1, ForwardingAssumption DEF IInv, FutureZero, CoreTypes, Gens
<1> QED
  BY <1>1, <1>2, <1>3, <1>4, FS_EmptySet DEF Exact

LEMMA NextExact == IInv /\ Exact /\ [Next]_vars => Exact'
<1> SUFFICES ASSUME IInv, Exact, [Next]_vars PROVE Exact'
  OBVIOUS
<1> USE DEF IInv, CoreTypes, Holds, Goto, Return
<1> USE DEF envVars, tableVars, tryVars, relVars, selVars, reqVars
<1>1. ASSUME NEW r \in Reqs, Route(r) \/ Select(r) PROVE Exact'
  BY <1>1, QuietExact DEF Route, Select
<1>2. ASSUME NEW r \in Reqs, TrySucceeds(r) \/ TryFails(r) \/ Retry(r)
                          \/ DialFails(r) \/ DialSucceeds(r) \/ TunnelEnds(r) PROVE Exact'
  <2>1. UNCHANGED <<gen, crossed, conns, rgen, first>> /\ pc[r] \in {"try", "tunnel", "backoff"}
    BY <1>2 DEF TrySucceeds, TryFails, Retry, DialFails, DialSucceeds, TunnelEnds
  <2>2. \E l \in {"try", "tunnel", "backoff", "release", "releaseFailed"} : pc' = [pc EXCEPT ![r] = l]
    BY <1>2 DEF TrySucceeds, TryFails, Retry, DialFails, DialSucceeds, TunnelEnds
  <2> QED
    BY <2>1, <2>2, QuietExact
<1>3. ASSUME NEW a \in Addrs, Toggle(a) \/ CheckHealth(a) PROVE Exact'
  <2>1. UNCHANGED <<gen, crossed, conns, pc, rgen, first>>
    BY <1>3 DEF Toggle, CheckHealth
  <2> QED
    BY <2>1, QuietExact
<1>4. CASE UNCHANGED vars
  <2>1. UNCHANGED <<gen, crossed, conns, pc, rgen, first>>
    BY <1>4 DEF vars
  <2> QED
    BY <2>1, QuietExact
<1> QED
  BY <1>1, <1>2, <1>3, <1>4, AddExact, ReleaseExact, CasExact, SwapExact DEF Next, RequestStep

\* LeastConn: the loops of Select and Release lose no count.  A selector
\* installed with nothing in flight counts exactly the requests that Route sent
\* to each backend and that have not been released, wherever a retry has taken
\* them, however the loads, additions and compare-and-swaps interleave.
THEOREM CountsAreExact == Spec => []CountsExact
<1>1. Init => Exact
  <2> SUFFICES ASSUME Init PROVE Exact
    OBVIOUS
  <2>1. \A a \in Addrs : Holders(gen, a) = {}
    BY DEF Init, Holders, Holds
  <2>2. \A a \in Addrs : conns[gen][a] = 0
    BY ForwardingAssumption DEF Init, Gens
  <2>3. \A r \in Reqs : ~Holds(r)
    BY DEF Init, Holds
  <2> QED
    BY <2>1, <2>2, <2>3, FS_EmptySet DEF Exact
<1>2. Exact => CountsExact
  <2> SUFFICES ASSUME Exact, ~crossed, NEW a \in Addrs
               PROVE  conns[gen][a] = Cardinality(Charged(a))
    BY DEF CountsExact
  <2>1. Charged(a) = Holders(gen, a)
    BY DEF Exact, Holders, Charged
  <2> QED
    BY <2>1 DEF Exact
<1> QED
  BY <1>1, <1>2, InitIInv, NextIInv, NextExact, PTL DEF Spec

-----------------------------------------------------------------------------
(* Retries                                                                 *)

RetryTypes ==
    /\ up \in [Addrs -> BOOLEAN] /\ healthy \in [Gens -> [Addrs -> BOOLEAN]]
    /\ DOMAIN kind = Reqs /\ DOMAIN cur = Reqs
    /\ eligible \in [Reqs -> SUBSET Addrs] /\ good \in [Reqs -> SUBSET Addrs]
    /\ scan \in [Reqs -> [idx : Nat, best : Addrs \cup {NoOne}, count : Int]]
    /\ tried \in [Reqs -> SUBSET Addrs] /\ attempt \in [Reqs -> Nat]

\* A good backend is up, and flagged in the route object of the request.
GoodIsUp == \A r \in Reqs : \A a \in good[r] : up[a] /\ healthy[rgen[r]][a]

\* Select's loop ends with an eligible backend: there is one, and a turn that
\* meets one leaves some best.
SelectFindsFor(r) ==
    /\ pc[r] = "new" => scan[r] = NoScan
    /\ pc[r] \in {"new", "scan", "add"} => attempt[r] = 0
    /\ pc[r] = "scan" =>
         /\ scan[r].idx \in 1..Len(Backends) /\ eligible[r] # {}
         /\ \A i \in 1..(scan[r].idx - 1) : Backends[i] \in eligible[r] => scan[r].best # NoOne
    /\ pc[r] = "add" => scan[r].best \in Addrs

SelectFinds == \A r \in Reqs : SelectFindsFor(r)

\* While there is a good backend each attempt is made with another one, and
\* those that were tried and failed are not good.
Progress(r) == good[r] = {} \/ Cardinality(tried[r]) = attempt[r] + 1

AttemptsOf(r) ==
    /\ pc[r] = "tunnel" => kind[r] = "websocket"
    /\ (kind[r] # "websocket" /\ ~total) =>
        /\ pc[r] = "try" => good[r] \cap tried[r] \subseteq {cur[r]} /\ Progress(r)
        /\ pc[r] = "backoff" => good[r] \cap tried[r] = {} /\ Progress(r)
        /\ (pc[r] \in {"releaseFailed", "casFailed", "failed"}
            /\ MaxRetries(kind[r]) >= Len(Backends) - 1) => good[r] = {}

Attempts == \A r \in Reqs : AttemptsOf(r)

RetryInv == RetryTypes /\ GoodIsUp /\ SelectFinds /\ Attempts

LEMMA BackendFacts ==
    /\ Len(Backends) \in Nat \ {0} /\ Backends \in [1..Len(Backends) -> Addrs]
    /\ IsFiniteSet(Addrs) /\ Cardinality(Addrs) <= Len(Backends) /\ Cardinality(Addrs) \in Nat
<1>1. Len(Backends) \in Nat \ {0} /\ Backends \in [1..Len(Backends) -> Addrs]
  BY ForwardingAssumption
<1>2. Backends \in Surjection(1..Len(Backends), Addrs)
  BY <1>1 DEF Surjection, Addrs
<1>3. IsFiniteSet(1..Len(Backends)) /\ Cardinality(1..Len(Backends)) = Len(Backends)
  BY <1>1, FS_Interval
<1>4. IsFiniteSet(Addrs) /\ Cardinality(Addrs) <= Len(Backends)
  BY <1>2, <1>3, FS_Surjection
<1> QED
  BY <1>1, <1>4, FS_CardinalityType

LEMMA LeastElement ==
    ASSUME NEW S \in SUBSET Nat, S # {}
    PROVE  \E m \in S : \A n \in S : m <= n
<1> DEFINE R == {ss \in Nat \X Nat : ss[1] < ss[2]}
<1>1. IsWellFoundedOn(R, Nat)
  BY NatLessThanWellFounded, Zenon DEF OpToRel
<1>2. \A a, b \in Nat : a < b => <<a, b>> \in R
  OBVIOUS
<1> HIDE DEF R
<1>3. PICK m \in S : \A n \in S : ~(<<n, m>> \in R)
  BY <1>1, WFMin
<1>4. \A n \in S : ~(n < m) /\ n \in Nat /\ m \in Nat
  BY <1>2, <1>3
<1>5. \A n \in S : m <= n
  BY <1>4
<1> QED
  BY <1>5

\* nextBackend finds an untried backend that is flagged, if there is one.
LEMMA NextBackendFinds ==
    ASSUME NEW g, NEW excluded, NEW b, b = nextBackend(g, excluded)
    PROVE  \/ b = NoOne /\ \A a \in Addrs : healthy[g][a] => a \in excluded
           \/ b \in Addrs /\ b # NoOne /\ b \notin excluded
<1> DEFINE ok == {i \in 1..Len(Backends) : healthy[g][Backends[i]] /\ Backends[i] \notin excluded}
<1>1. CASE ok = {}
  <2>1. b = NoOne
    BY <1>1 DEF nextBackend
  <2> QED
    BY <1>1, <2>1 DEF Addrs
<1>2. CASE ok # {}
  <2>1. ok \in SUBSET Nat
    BY BackendFacts
  <2>2. \E i \in ok : \A j \in ok : i <= j
    <3> HIDE DEF ok
    <3> QED
      BY <1>2, <2>1, LeastElement
  <2>3. PICK i \in ok : b = Backends[i]
    BY <1>2, <2>2 DEF nextBackend
  <2> QED
    BY <2>3, BackendFacts, ForwardingAssumption
<1> QED
  BY <1>1, <1>2

LEMMA InitRetry == Init => RetryInv
<1> SUFFICES ASSUME Init PROVE RetryInv
  OBVIOUS
<1>1. RetryTypes
  BY DEF Init, RetryTypes, NoScan
<1>2. GoodIsUp /\ SelectFinds
  BY DEF Init, GoodIsUp, SelectFinds, SelectFindsFor, NoScan
<1>3. Attempts
  BY DEF Init, Attempts, AttemptsOf
<1> QED
  BY <1>1, <1>2, <1>3 DEF RetryInv

LEMMA NextRetryTypes ==
    ASSUME IInv, RetryInv, [Next]_vars
    PROVE  RetryTypes'
<1>t. CoreTypes /\ RetryTypes /\ SelectFinds
  BY DEF IInv, RetryInv
<1> USE DEF RetryTypes, Goto, Return, envVars, tableVars, tryVars, relVars, selVars, reqVars
<1>1. ASSUME NEW r \in Reqs, Route(r) PROVE RetryTypes'
  BY <1>t, <1>1 DEF Route
<1>2. ASSUME NEW r \in Reqs, Select(r) PROVE RetryTypes'
  <2>1. UNCHANGED <<up, healthy, kind, cur, eligible, good, tried, attempt>>
    BY <1>2 DEF Select
  <2>2. scan[r] \in [idx : Nat, best : Addrs \cup {NoOne}, count : Int] /\ scan[r].idx \in 1..Len(Backends)
    BY <1>t, <1>2 DEF Select, SelectFinds, SelectFindsFor
  <2>3. Backends[scan[r].idx] \in Addrs
    BY <2>2, BackendFacts
  <2>4. conns[gen][Backends[scan[r].idx]] \in Int
    BY <1>t, <2>3 DEF CoreTypes
  <2>5. scan' \in [Reqs -> [idx : Nat, best : Addrs \cup {NoOne}, count : Int]]
    BY <1>t, <1>2, <2>2, <2>3, <2>4 DEF Select
  <2> QED
    BY <1>t, <2>1, <2>5
<1>3. ASSUME NEW r \in Reqs, SelectAdd(r) PROVE RetryTypes'
  <2>1. scan[r].best \in Addrs
    BY <1>t, <1>3 DEF SelectAdd, SelectFinds, SelectFindsFor
  <2> QED
    BY <1>t, <1>3, <2>1 DEF SelectAdd, NoScan
<1>4. ASSUME NEW r \in Reqs, TrySucceeds(r) \/ TryFails(r) \/ DialSucceeds(r) \/ TunnelEnds(r)
      PROVE RetryTypes'
  BY <1>t, <1>4 DEF TrySucceeds, TryFails, DialSucceeds, TunnelEnds
<1>5. ASSUME NEW r \in Reqs, Retry(r) PROVE RetryTypes'
  <2>1. UNCHANGED <<up, healthy, kind, eligible, good, scan>>
    BY <1>5 DEF Retry
  <2>2. PICK b : b = nextBackend(rgen[r], tried[r])
    OBVIOUS
  <2>3. b = NoOne \/ b \in Addrs
    BY <2>2, NextBackendFinds
  <2>4. tried' \in [Reqs -> SUBSET Addrs] /\ DOMAIN cur' = Reqs
    BY <1>t, <1>5, <2>2, <2>3 DEF Retry
  <2>5. attempt' \in [Reqs -> Nat]
    BY <1>t, <1>5 DEF Retry
  <2> QED
    BY <1>t, <2>1, <2>4, <2>5
<1>6. ASSUME NEW r \in Reqs, DialFails(r) PROVE RetryTypes'
  BY <1>t, <1>6 DEF DialFails
<1>7. ASSUME NEW r \in Reqs, Release(r) \/ ReleaseCas(r) PROVE RetryTypes'
  BY <1>t, <1>7 DEF Release, ReleaseCas
<1>8. ASSUME NEW a \in Addrs, Toggle(a) \/ CheckHealth(a) PROVE RetryTypes'
  <2>1. UNCHANGED <<kind, cur, eligible, scan, tried, attempt>>
    BY <1>8 DEF Toggle, CheckHealth
  <2>2. good' \in [Reqs -> SUBSET Addrs]
    BY <1>t, <1>8 DEF Toggle, CheckHealth
  <2>3. up' \in [Addrs -> BOOLEAN]
    BY <1>t, <1>8 DEF Toggle, CheckHealth
  <2>4. healthy' \in [Gens -> [Addrs -> BOOLEAN]]
    <3>1. CASE Toggle(a)
      BY <1>t, <3>1 DEF Toggle
    <3>2. CASE CheckHealth(a)
      <4>1. up[a] \in BOOLEAN /\ healthy' = [healthy EXCEPT ![gen][a] = up[a]]
        BY <1>t, <3>2 DEF CheckHealth
      <4> QED
        BY <1>t, <4>1, Zenon
    <3> QED
      BY <1>8, <3>1, <3>2
  <2> QED
    BY <1>t, <2>1, <2>2, <2>3, <2>4
<1>9. CASE SwapRoutes \/ UNCHANGED vars
  BY <1>t, <1>9 DEF SwapRoutes, vars
<1> QED
  BY <1>1, <1>2, <1>3, <1>4, <1>5, <1>6, <1>7, <1>8, <1>9 DEF Next, RequestStep

LEMMA NextGood ==
    ASSUME IInv, RetryInv, [Next]_vars
    PROVE  GoodIsUp'
<1>t. CoreTypes /\ RetryTypes /\ GoodIsUp
  BY DEF IInv, RetryInv
<1> USE DEF envVars, tableVars, tryVars, relVars, selVars, reqVars
<1>1. ASSUME NEW r \in Reqs, Route(r) PROVE GoodIsUp'
  <2>1. UNCHANGED <<up, healthy>>
    BY <1>1 DEF Route
  <2>2. \A q \in Reqs : q # r => good'[q] = good[q] /\ rgen'[q] = rgen[q]
    BY <1>t, <1>1 DEF Route, RetryTypes, CoreTypes
  <2>3. rgen'[r] = gen /\ \A a \in good'[r] : up[a] /\ healthy[gen][a]
    BY <1>t, <1>1 DEF Route, RetryTypes, CoreTypes
  <2> QED
    BY <1>t, <2>1, <2>2, <2>3 DEF GoodIsUp
<1>2. ASSUME NEW a \in Addrs, Toggle(a) PROVE GoodIsUp'
  <2>1. UNCHANGED <<healthy, rgen>> /\ \A r \in Reqs : good'[r] = good[r] \ {a}
    BY <1>2 DEF Toggle
  <2>2. \A c \in Addrs : c # a => up'[c] = up[c]
    BY <1>t, <1>2 DEF Toggle, RetryTypes
  <2> QED
    BY <1>t, <2>1, <2>2 DEF GoodIsUp, RetryTypes
<1>3. ASSUME NEW a \in Addrs, CheckHealth(a) PROVE GoodIsUp'
  <2>1. UNCHANGED <<up, rgen>> /\ \A r \in Reqs : good'[r] = good[r] \ {a}
    BY <1>3 DEF CheckHealth
  <2>2. \A g \in Gens, c \in Addrs : c # a => healthy'[g][c] = healthy[g][c]
    BY <1>t, <1>3 DEF CheckHealth, RetryTypes, CoreTypes
  <2> QED
    BY <1>t, <2>1, <2>2 DEF GoodIsUp, RetryTypes, CoreTypes
<1>4. CASE UNCHANGED <<up, healthy, rgen, good>>
  BY <1>t, <1>4 DEF GoodIsUp
<1>5. ASSUME NEW r \in Reqs, RequestStep(r) \/ TunnelEnds(r), ~Route(r)
      PROVE  UNCHANGED <<up, healthy, rgen, good>>
  BY <1>5 DEF RequestStep, Select, SelectAdd, TrySucceeds, TryFails, Retry, DialFails,
              DialSucceeds, Release, ReleaseCas, TunnelEnds
<1>6. CASE SwapRoutes \/ UNCHANGED vars
  BY <1>4, <1>6 DEF SwapRoutes, vars
<1> QED
  BY <1>1, <1>2, <1>3, <1>4, <1>5, <1>6 DEF Next

LEMMA NextSelect ==
    ASSUME IInv, RetryInv, [Next]_vars
    PROVE  SelectFinds'
<1>t. CoreTypes /\ RetryTypes /\ SelectFinds
  BY DEF IInv, RetryInv
<1> USE DEF SelectFindsFor
<1>f. \A q \in Reqs : SelectFindsFor(q)
  BY <1>t DEF SelectFinds
<1>q. ASSUME NEW q \in Reqs, pc'[q] = pc[q], scan'[q] = scan[q], attempt'[q] = attempt[q],
             eligible'[q] = eligible[q]
      PROVE  SelectFindsFor(q)'
  BY <1>f, <1>q
<1> USE DEF envVars, tableVars, tryVars, relVars, selVars, reqVars, Goto
<1>1. ASSUME NEW r \in Reqs, Route(r), NEW q \in Reqs PROVE SelectFindsFor(q)'
  <2>1. CASE q # r
    BY <1>t, <1>1, <1>q, <2>1 DEF Route, RetryTypes, CoreTypes
  <2>2. CASE q = r
    <3>1. scan'[r] = NoScan /\ attempt'[r] = 0
      BY <1>f, <1>1 DEF Route
    <3>2. pc'[r] = "failed" \/ (pc'[r] = "scan" /\ eligible'[r] # {})
      BY <1>t, <1>1 DEF Route, RetryTypes, CoreTypes
    <3> QED
      BY <2>2, <3>1, <3>2, BackendFacts DEF NoScan
  <2> QED
    BY <2>1, <2>2
<1>2. ASSUME NEW r \in Reqs, Select(r), NEW q \in Reqs PROVE SelectFindsFor(q)'
  <2>1. CASE q # r
    BY <1>t, <1>2, <1>q, <2>1 DEF Select, RetryTypes, CoreTypes
  <2>2. CASE q = r
    <3> DEFINE s == scan[r]
               c == Backends[s.idx]
               better == c \in eligible[r] /\ (s.best = NoOne \/ conns[gen][c] < s.count)
    <3>1. /\ pc[r] = "scan" /\ UNCHANGED <<eligible, attempt>>
          /\ pc'[r] = IF s.idx = Len(Backends) THEN "add" ELSE "scan"
      BY <1>t, <1>2 DEF Select, CoreTypes
    <3>2. scan'[r].idx = s.idx + 1 /\ scan'[r].best = (IF better THEN c ELSE s.best)
      BY <1>t, <1>2 DEF Select, RetryTypes
    <3>3. /\ attempt[r] = 0 /\ s.idx \in 1..Len(Backends) /\ eligible[r] # {} /\ eligible[r] \subseteq Addrs
          /\ \A i \in 1..(s.idx - 1) : Backends[i] \in eligible[r] => s.best # NoOne
      BY <1>f, <1>t, <3>1 DEF RetryTypes
    <3>4. c \in Addrs /\ c # NoOne /\ s.best \in Addrs \cup {NoOne} /\ Len(Backends) \in Nat
      BY <1>t, <3>3, BackendFacts, ForwardingAssumption DEF RetryTypes
    <3>5. \A i \in 1..s.idx : Backends[i] \in eligible[r] => scan'[r].best # NoOne
      <4> SUFFICES ASSUME NEW i \in 1..s.idx, Backends[i] \in eligible[r], s.best = NoOne PROVE better
        BY <3>2, <3>4
      <4>1. i \notin 1..(s.idx - 1)
        BY <3>3
      <4>2. i = s.idx
        BY <3>3, <4>1
      <4> QED
        BY <4>2
    <3>6. scan'[r].best \in Addrs \cup {NoOne}
      BY <3>2, <3>4
    <3>7. CASE s.idx = Len(Backends)
      <4>1. PICK i \in 1..Len(Backends) : Backends[i] \in eligible[r]
        BY <3>3 DEF Addrs
      <4>2. scan'[r].best \in Addrs
        BY <3>5, <3>6, <3>7, <4>1
      <4> QED
        BY <2>2, <3>1, <3>3, <3>7, <4>2
    <3>8. CASE s.idx # Len(Backends)
      <4>1. s.idx + 1 \in 1..Len(Backends) /\ s.idx + 1 - 1 = s.idx
        BY <3>3, <3>4, <3>8
      <4> QED
        BY <2>2, <3>1, <3>2, <3>3, <3>5, <3>8, <4>1
    <3> QED
      BY <3>7, <3>8
  <2> QED
    BY <2>1, <2>2
<1>3. ASSUME NEW r \in Reqs, RequestStep(r) \/ TunnelEnds(r), ~Route(r), ~Select(r), NEW q \in Reqs
      PROVE  SelectFindsFor(q)'
  <2>1. pc'[r] \notin {"new", "scan", "add"}
    <3>1. CASE SelectAdd(r) \/ TrySucceeds(r) \/ TryFails(r) \/ Retry(r) \/ DialFails(r)
               \/ DialSucceeds(r) \/ TunnelEnds(r)
      BY <1>t, <3>1 DEF SelectAdd, TrySucceeds, TryFails, Retry, DialFails, DialSucceeds,
                        TunnelEnds, Return, CoreTypes
    <3>2. CASE Release(r) \/ ReleaseCas(r)
      BY <1>t, <3>2 DEF Release, ReleaseCas, Releasing, CasPending, Ending, CoreTypes
    <3> QED
      BY <1>3, <3>1, <3>2 DEF RequestStep
  <2>2. ASSUME q # r
        PROVE  pc'[q] = pc[q] /\ scan'[q] = scan[q] /\ attempt'[q] = attempt[q] /\ eligible'[q] = eligible[q]
    <3>1. CASE SelectAdd(r) \/ Release(r) \/ ReleaseCas(r)
      BY <1>t, <2>2, <3>1 DEF SelectAdd, Release, ReleaseCas, RetryTypes, CoreTypes
    <3>2. CASE TrySucceeds(r) \/ TryFails(r) \/ Retry(r) \/ DialFails(r) \/ DialSucceeds(r) \/ TunnelEnds(r)
      BY <1>t, <2>2, <3>2 DEF TrySucceeds, TryFails, Retry, DialFails, DialSucceeds, TunnelEnds,
                              Return, RetryTypes, CoreTypes
    <3> QED
      BY <1>3, <3>1, <3>2 DEF RequestStep
  <2> QED
    BY <1>q, <2>1, <2>2
<1>4. ASSUME NEW a \in Addrs, Toggle(a) \/ CheckHealth(a), NEW q \in Reqs PROVE SelectFindsFor(q)'
  BY <1>4, <1>q DEF Toggle, CheckHealth
<1>5. ASSUME SwapRoutes \/ UNCHANGED vars, NEW q \in Reqs PROVE SelectFindsFor(q)'
  BY <1>5, <1>q DEF SwapRoutes, vars
<1> HIDE DEF SelectFindsFor
<1>6. \A q \in Reqs : SelectFindsFor(q)'
  BY <1>1, <1>2, <1>3, <1>4, <1>5 DEF Next
<1> QED
  BY <1>6 DEF SelectFinds

\* What stays true of a request that a step only takes good backends from.
LEMMA SameAttempts ==
    ASSUME NEW q \in Reqs, AttemptsOf(q), UNCHANGED <<kind, total>>,
           pc'[q] = pc[q], cur'[q] = cur[q], tried'[q] = tried[q], attempt'[q] = attempt[q],
           good'[q] \subseteq good[q]
    PROVE  AttemptsOf(q)'
BY DEF AttemptsOf, Progress, MaxRetries

\* A request that every backend was tried for has none left.
LEMMA TriedThemAll ==
    ASSUME NEW T \in SUBSET Addrs, NEW G \in SUBSET Addrs, NEW n \in Nat,
           G \cap T = {}, G = {} \/ Cardinality(T) = n + 1, n >= Len(Backends) - 1
    PROVE  G = {}
<1> SUFFICES ASSUME Cardinality(T) = n + 1 PROVE G = {}
  OBVIOUS
<1>1. IsFiniteSet(T) /\ Cardinality(T) <= Cardinality(Addrs)
  BY BackendFacts, FS_Subset
<1>2. Cardinality(T) = Cardinality(Addrs)
  BY <1>1, BackendFacts
<1>3. T = Addrs
  BY <1>2, BackendFacts, FS_Subset
<1> QED
  BY <1>3

LEMMA NextAttempts ==
    ASSUME IInv, RetryInv, [Next]_vars
    PROVE  Attempts'
<1>t. CoreTypes /\ RetryTypes /\ GoodIsUp /\ SelectFinds /\ \A q \in Reqs : AttemptsOf(q)
  BY DEF IInv, RetryInv, Attempts
<1> USE DEF envVars, tableVars, tryVars, relVars, selVars, reqVars, Goto
\* The requests whose step it is not.
<1>o. ASSUME NEW r \in Reqs, RequestStep(r) \/ TunnelEnds(r), NEW q \in Reqs, q # r
      PROVE  AttemptsOf(q)'
  <2>1. UNCHANGED <<kind, total>>
    BY <1>o DEF RequestStep, Route, Select, SelectAdd, TrySucceeds, TryFails, Retry, DialFails,
                DialSucceeds, Release, ReleaseCas, TunnelEnds
  <2>2. pc'[q] = pc[q] /\ cur'[q] = cur[q] /\ tried'[q] = tried[q] /\ attempt'[q] = attempt[q] /\ good'[q] = good[q]
    <3>1. CASE Route(r) \/ Select(r) \/ SelectAdd(r) \/ Release(r) \/ ReleaseCas(r)
      BY <1>t, <1>o, <3>1 DEF Route, Select, SelectAdd, Release, ReleaseCas, RetryTypes, CoreTypes
    <3>2. CASE TrySucceeds(r) \/ TryFails(r) \/ Retry(r) \/ DialFails(r) \/ DialSucceeds(r) \/ TunnelEnds(r)
      BY <1>t, <1>o, <3>2 DEF TrySucceeds, TryFails, Retry, DialFails, DialSucceeds, TunnelEnds,
                              Return, RetryTypes, CoreTypes
    <3> QED
      BY <1>o, <3>1, <3>2 DEF RequestStep
  <2> QED
    BY <1>t, <2>1, <2>2, SameAttempts
<1>1. ASSUME NEW r \in Reqs, Route(r) PROVE AttemptsOf(r)'
  <2>1. pc'[r] \in {"failed", "scan"} /\ (pc'[r] = "failed" => good'[r] = {})
    BY <1>t, <1>1 DEF Route, RetryTypes, CoreTypes
  <2> QED
    BY <2>1 DEF AttemptsOf
<1>2. ASSUME NEW r \in Reqs, Select(r) PROVE AttemptsOf(r)'
  BY <1>t, <1>2 DEF Select, CoreTypes, AttemptsOf
<1>3. ASSUME NEW r \in Reqs, SelectAdd(r) PROVE AttemptsOf(r)'
  <2>1. /\ pc'[r] = "try" /\ cur'[r] = scan[r].best /\ tried'[r] = {scan[r].best}
        /\ attempt'[r] = 0
    BY <1>t, <1>3 DEF SelectAdd, RetryTypes, CoreTypes, SelectFinds, SelectFindsFor
  <2>2. Cardinality(tried'[r]) = 1
    BY <2>1, FS_Singleton
  <2> QED
    BY <2>1, <2>2 DEF AttemptsOf, Progress
<1>4. ASSUME NEW r \in Reqs, TrySucceeds(r) \/ DialSucceeds(r) PROVE AttemptsOf(r)'
  BY <1>t, <1>4 DEF TrySucceeds, DialSucceeds, Return, CoreTypes, AttemptsOf
<1>5. ASSUME NEW r \in Reqs, TryFails(r) PROVE AttemptsOf(r)'
  <2>0. UNCHANGED <<kind, total, good>> /\ pc[r] = "try" /\ kind[r] # "websocket" /\ ~CanSucceed(r)
    BY <1>5 DEF TryFails
  <2> SUFFICES ASSUME ~total PROVE AttemptsOf(r)'
    BY <1>t, <1>5, <2>0 DEF TryFails, Return, AttemptsOf, CoreTypes
  <2>1. ~up[cur[r]]
    BY <2>0 DEF CanSucceed
  <2>2. good[r] \cap tried[r] = {} /\ Progress(r)
    <3>1. good[r] \cap tried[r] \subseteq {cur[r]} /\ Progress(r)
      BY <1>t, <2>0 DEF AttemptsOf
    <3>2. cur[r] \notin good[r]
      BY <1>t, <2>1 DEF GoodIsUp
    <3> QED
      BY <3>1, <3>2
  <2>3. CASE attempt[r] < MaxRetries(kind[r])
    <3>1. pc'[r] = "backoff" /\ UNCHANGED <<tried, attempt>>
      BY <1>t, <1>5, <2>3 DEF TryFails, CoreTypes
    <3> QED
      BY <2>0, <2>2, <3>1 DEF AttemptsOf, Progress
  <2>4. CASE ~(attempt[r] < MaxRetries(kind[r]))
    <3>1. pc'[r] = "releaseFailed"
      BY <1>t, <1>5, <2>4 DEF TryFails, Return, CoreTypes
    <3>2. ASSUME MaxRetries(kind[r]) >= Len(Backends) - 1 PROVE good[r] = {}
      <4>1. MaxRetries(kind[r]) \in Nat /\ attempt[r] \in Nat
        BY <1>t, ForwardingAssumption DEF MaxRetries, RetryTypes
      <4>2. attempt[r] >= Len(Backends) - 1
        BY <2>4, <3>2, <4>1, BackendFacts
      <4>3. good[r] \in SUBSET Addrs /\ tried[r] \in SUBSET Addrs
        BY <1>t DEF RetryTypes
      <4> QED
        BY <2>2, <4>1, <4>2, <4>3, TriedThemAll DEF Progress
    <3> QED
      BY <2>0, <3>1, <3>2 DEF AttemptsOf, MaxRetries
  <2> QED
    BY <2>3, <2>4
<1>6. ASSUME NEW r \in Reqs, Retry(r) PROVE AttemptsOf(r)'
  <2>0. /\ UNCHANGED <<kind, total, good>> /\ pc[r] = "backoff" /\ pc'[r] = "try"
        /\ attempt'[r] = attempt[r] + 1 /\ attempt[r] \in Nat
    BY <1>t, <1>6 DEF Retry, CoreTypes, RetryTypes
  <2> SUFFICES ASSUME ~total, kind[r] # "websocket" PROVE AttemptsOf(r)'
    BY <2>0 DEF AttemptsOf
  <2>1. good[r] \cap tried[r] = {} /\ Progress(r)
    BY <1>t, <2>0 DEF AttemptsOf
  <2>2. PICK b : b = nextBackend(rgen[r], tried[r])
    OBVIOUS
  <2>3. CASE b = NoOne
    <3>1. \A a \in Addrs : healthy[rgen[r]][a] => a \in tried[r]
      BY <2>2, <2>3, NextBackendFinds
    <3>2. good[r] = {}
      BY <1>t, <2>1, <3>1 DEF GoodIsUp, RetryTypes
    <3>3. UNCHANGED <<cur, tried>>
      BY <1>6, <2>2, <2>3 DEF Retry
    <3> QED
      BY <2>0, <3>2, <3>3 DEF AttemptsOf, Progress
  <2>4. CASE b # NoOne
    <3>1. b \in Addrs /\ b \notin tried[r]
      BY <2>2, <2>4, NextBackendFinds
    <3>2. cur'[r] = b /\ tried'[r] = tried[r] \cup {b}
      BY <1>t, <1>6, <2>2, <2>4 DEF Retry, RetryTypes
    <3>3. IsFiniteSet(tried[r])
      BY <1>t, BackendFacts, FS_Subset DEF RetryTypes
    <3>4. Cardinality(tried'[r]) = Cardinality(tried[r]) + 1
      BY <3>1, <3>2, <3>3, FS_AddElement
    <3>5. Progress(r)'
      BY <2>0, <2>1, <3>4 DEF Progress
    <3> QED
      BY <2>0, <2>1, <3>2, <3>5 DEF AttemptsOf
  <2> QED
    BY <2>3, <2>4
<1>7. ASSUME NEW r \in Reqs, DialFails(r) \/ TunnelEnds(r) PROVE AttemptsOf(r)'
  <2>1. UNCHANGED kind /\ kind[r] = "websocket"
    BY <1>t, <1>7 DEF DialFails, TunnelEnds, AttemptsOf
  <2> QED
    BY <2>1 DEF AttemptsOf
<1>8. ASSUME NEW r \in Reqs, Release(r) \/ ReleaseCas(r) PROVE AttemptsOf(r)'
  <2>1. UNCHANGED <<kind, total, good>>
    BY <1>8 DEF Release, ReleaseCas
  <2>2. /\ pc'[r] \in {"cas", "casFailed", "done", "failed"}
        /\ pc'[r] \in {"casFailed", "failed"} => pc[r] \in {"releaseFailed", "casFailed"}
    BY <1>t, <1>8 DEF Release, ReleaseCas, Releasing, CasPending, Ending, CoreTypes
  <2> QED
    BY <1>t, <2>1, <2>2 DEF AttemptsOf, MaxRetries
<1>9. ASSUME NEW a \in Addrs, Toggle(a) \/ CheckHealth(a), NEW q \in Reqs PROVE AttemptsOf(q)'
  <2>1. UNCHANGED <<kind, total, pc, cur, tried, attempt>> /\ good'[q] = good[q] \ {a}
    BY <1>9 DEF Toggle, CheckHealth
  <2> QED
    BY <1>t, <2>1, SameAttempts
<1>10. ASSUME SwapRoutes \/ UNCHANGED vars, NEW q \in Reqs PROVE AttemptsOf(q)'
  <2>1. UNCHANGED <<kind, total, pc, cur, tried, attempt, good>>
    BY <1>10 DEF SwapRoutes, vars
  <2> QED
    BY <1>t, <2>1, SameAttempts
<1>11. ASSUME NEW r \in Reqs, RequestStep(r) \/ TunnelEnds(r), NEW q \in Reqs PROVE AttemptsOf(q)'
  BY <1>o, <1>1, <1>2, <1>3, <1>4, <1>5, <1>6, <1>7, <1>8, <1>11 DEF RequestStep
<1> QED
  BY <1>9, <1>10, <1>11 DEF Next, Attempts

\* Forward and ForwardStream with nextBackend: for any backends and any
\* interleaving with failures, health checks and reloads, a request that has a
\* retry for every backend and no total timeout is given up only if no backend
\* was up and flagged healthy throughout.
THEOREM OneGoodBackend == Spec => []OneGoodBackendIsEnough
<1>1. RetryInv => OneGoodBackendIsEnough
  BY DEF RetryInv, Attempts, AttemptsOf, OneGoodBackendIsEnough
<1>2. IInv /\ RetryInv /\ [Next]_vars => RetryInv'
  BY NextRetryTypes, NextGood, NextSelect, NextAttempts DEF RetryInv
<1> QED
  BY <1>1, <1>2, InitIInv, InitRetry, NextIInv, PTL DEF Spec
=============================================================================
