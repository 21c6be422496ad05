----------------------------- MODULE Forwarding -----------------------------
(***************************************************************************)
(* The life of a proxied request after a shard's worker, or the connection *)
(* handler for an upgrade, has taken it: Router.Route with the least_conn  *)
(* selector, Proxy.Forward, ForwardStream or ForwardWebSocket with their   *)
(* retries, and Router.Release (internal/router/{router,least_conn}.go,    *)
(* internal/proxy/{proxy,websocket}.go, buildHandler and handleConnection  *)
(* of cmd/nexusgate/main.go).  Requests run concurrently; the route table  *)
(* may be swapped while they run, which gives the router new selectors and *)
(* new Backend objects, and the health checker sets the flags of the       *)
(* current table only.                                                     *)
(***************************************************************************)
EXTENDS Integers, Sequences, FiniteSets

CONSTANTS
    Reqs,           \* requests, each served once
    Backends,       \* sequence of distinct addresses, the route's order
    Kinds,          \* subset of {"plain", "stream", "websocket"}
    RouteRetries,   \* route.Retry.MaxRetries; 0 is "not set"
    PolicyRetries,  \* the proxy's own RetryPolicy.MaxRetries
    MaxSwaps,       \* bound: reloads
    MaxToggles      \* bound: backends going down or coming back

Addrs == {Backends[i] : i \in 1..Len(Backends)}
NoOne == "none"

ASSUME ForwardingAssumption ==
    /\ Backends \in Seq(Addrs) /\ Len(Backends) > 0 /\ NoOne \notin Addrs
    /\ \A i, j \in 1..Len(Backends) : Backends[i] = Backends[j] => i = j
    /\ Kinds \subseteq {"plain", "stream", "websocket"}
    /\ RouteRetries \in Nat /\ PolicyRetries \in Nat
    /\ MaxSwaps \in Nat /\ MaxToggles \in Nat
    /\ IsFiniteSet(Reqs)

Gens == 0..MaxSwaps
NoScan == [idx |-> 1, best |-> NoOne, count |-> 0]

VARIABLES
    up,             \* does the backend answer properly (an upgrade: accept)?
    toggles,        \* bound counter
    total,          \* is route.Timeout.Total set?
    gen,            \* the current table
    crossed,        \* history: was it installed while requests were in flight?
    healthy,        \* Backend.Healthy, per table
    conns,          \* LeastConn.connections, per table
    pc, kind,       \* the request's next step, and what it is
    rgen,           \* the table its route object belongs to
    eligible,       \* healthyBackends of Route
    scan,           \* Select's loop: next index, best so far, its count
    first,          \* the backend Route returned
    cur, tried,     \* Forward's backend and tried
    attempt,        \* Forward's attempt
    rel, val,       \* Release: the selector's table, the value loaded
    good            \* history: backends up and flagged ever since Route

envVars == <<up, toggles, total>>
tableVars == <<gen, healthy, crossed>>
tryVars == <<cur, tried, attempt>>
relVars == <<rel, val>>
selVars == <<eligible, scan, first>>
reqVars == <<kind, rgen, selVars, tryVars, relVars, good>>
vars == <<envVars, tableVars, conns, pc, reqVars>>

Init ==
    /\ up = [a \in Addrs |-> TRUE] /\ toggles = 0 /\ total \in BOOLEAN
    /\ gen = 0 /\ crossed = FALSE
    /\ healthy = [g \in Gens |-> [a \in Addrs |-> TRUE]]
    /\ conns = [g \in Gens |-> [a \in Addrs |-> 0]]
    /\ pc = [r \in Reqs |-> "new"]
    /\ kind \in [Reqs -> Kinds]
    /\ rgen = [r \in Reqs |-> 0]
    /\ eligible = [r \in Reqs |-> {}]
    /\ scan = [r \in Reqs |-> NoScan]
    /\ first = [r \in Reqs |-> NoOne] /\ cur = [r \in Reqs |-> NoOne]
    /\ tried = [r \in Reqs |-> {}] /\ attempt = [r \in Reqs |-> 0]
    /\ rel = [r \in Reqs |-> 0] /\ val = [r \in Reqs |-> 0]
    /\ good = [r \in Reqs |-> {}]

\* r has been counted by Select and has not finished its Release.
Holds(r) == pc[r] \in {"try", "tunnel", "backoff", "release", "releaseFailed", "cas", "casFailed"}

Goto(r, l) == pc' = [pc EXCEPT ![r] = l]

-----------------------------------------------------------------------------
(* Router.Route with LeastConn.Select, under the read lock of Router.mu    *)

InRoute(r) == pc[r] \in {"scan", "add"}

\* A matching route is found; without a healthy backend the answer is 502.
Route(r) ==
    /\ pc[r] = "new"
    /\ rgen' = [rgen EXCEPT ![r] = gen]
    /\ LET hb == {a \in Addrs : healthy[gen][a]} IN
        /\ eligible' = [eligible EXCEPT ![r] = hb]
        /\ good' = [good EXCEPT ![r] = {a \in hb : up[a]}]
        /\ Goto(r, IF hb = {} THEN "failed" ELSE "scan")
    /\ UNCHANGED <<envVars, tableVars, conns, kind, scan, first, tryVars, relVars>>

\* One turn of Select's loop: load a counter, keep the smaller.
Select(r) ==
    /\ pc[r] = "scan"
    /\ LET s == scan[r]
           a == Backends[s.idx]
           c == conns[gen][a]
           better == a \in eligible[r] /\ (s.best = NoOne \/ c < s.count)
       IN scan' = [scan EXCEPT ![r] = [idx |-> s.idx + 1,
                                        best |-> IF better THEN a ELSE s.best,
                                        count |-> IF better THEN c ELSE s.count]]
    /\ Goto(r, IF scan[r].idx = Len(Backends) THEN "add" ELSE "scan")
    /\ UNCHANGED <<envVars, tableVars, conns, kind, rgen, eligible, first, tryVars, relVars, good>>

\* counter.Add(1) and Select's locals are gone; the first try is made with
\* this backend.
SelectAdd(r) ==
    /\ pc[r] = "add"
    /\ LET b == scan[r].best IN
        /\ conns' = [conns EXCEPT ![gen][b] = @ + 1]
        /\ first' = [first EXCEPT ![r] = b]
        /\ cur' = [cur EXCEPT ![r] = b]
        /\ tried' = [tried EXCEPT ![r] = {b}]
    /\ scan' = [scan EXCEPT ![r] = NoScan]
    /\ eligible' = [eligible EXCEPT ![r] = {}]
    /\ Goto(r, "try")
    /\ UNCHANGED <<envVars, tableVars, kind, rgen, attempt, relVars, good>>

-----------------------------------------------------------------------------
(* Proxy.Forward, ForwardStream, ForwardWebSocket                          *)

MaxRetries(k) == IF k = "plain" /\ RouteRetries = 0 THEN PolicyRetries ELSE RouteRetries

\* buildUpstreamRequest cancels the context of a total timeout before the
\* request is sent.
CanSucceed(r) == kind[r] # "websocket" /\ up[cur[r]] /\ ~total

\* Forward returns: its variables are gone.
Return(r, l) ==
    /\ Goto(r, l)
    /\ cur' = [cur EXCEPT ![r] = NoOne]
    /\ tried' = [tried EXCEPT ![r] = {}]
    /\ attempt' = [attempt EXCEPT ![r] = 0]

\* The backend answers, with a status that is not retried.
TrySucceeds(r) ==
    /\ pc[r] = "try" /\ CanSucceed(r)
    /\ Return(r, "release")
    /\ UNCHANGED <<envVars, tableVars, conns, kind, rgen, selVars, relVars, good>>

\* Mutant: an error is returned past the call of Release.
TryFails_NoRelease(r) ==
    /\ pc[r] = "try" /\ ~CanSucceed(r) /\ kind[r] # "websocket"
    /\ Goto(r, IF attempt[r] < MaxRetries(kind[r]) THEN "backoff" ELSE "failed")
    /\ UNCHANGED <<envVars, tableVars, conns, reqVars>>

\* Refused, timed out, cut off or a retryable status: back off, or give up.
TryFails(r) ==
    /\ pc[r] = "try" /\ ~CanSucceed(r) /\ kind[r] # "websocket"
    /\ IF attempt[r] < MaxRetries(kind[r])
         THEN Goto(r, "backoff") /\ UNCHANGED tryVars
         ELSE Return(r, "releaseFailed")
    /\ UNCHANGED <<envVars, tableVars, conns, kind, rgen, selVars, relVars, good>>

\* The first backend of the route that is flagged healthy and not excluded.
nextBackend(g, excluded) ==
    LET ok == {i \in 1..Len(Backends) : healthy[g][Backends[i]] /\ Backends[i] \notin excluded}
    IN  IF ok = {} THEN NoOne ELSE Backends[CHOOSE i \in ok : \A j \in ok : i <= j]

\* Mutant: the retry goes to the backend that just failed.
Retry_SameBackend(r) ==
    /\ pc[r] = "backoff"
    /\ attempt' = [attempt EXCEPT ![r] = @ + 1]
    /\ Goto(r, "try")
    /\ UNCHANGED <<envVars, tableVars, conns, kind, rgen, selVars, cur, tried, relVars, good>>

\* After the back-off: an untried backend if there is one, else the same.
Retry(r) ==
    /\ pc[r] = "backoff"
    /\ attempt' = [attempt EXCEPT ![r] = @ + 1]
    /\ LET b == nextBackend(rgen[r], tried[r]) IN
        IF b = NoOne THEN UNCHANGED <<cur, tried>>
        ELSE /\ cur' = [cur EXCEPT ![r] = b]
             /\ tried' = [tried EXCEPT ![r] = @ \cup {b}]
    /\ Goto(r, "try")
    /\ UNCHANGED <<envVars, tableVars, conns, kind, rgen, selVars, relVars, good>>

\* Mutant: with no other backend left the same one is dialled again.
DialFails_Insists(r) ==
    /\ pc[r] = "try" /\ kind[r] = "websocket" /\ ~up[cur[r]]
    /\ LET b == nextBackend(rgen[r], {cur[r]}) IN
        cur' = [cur EXCEPT ![r] = IF b = NoOne THEN @ ELSE b]
    /\ UNCHANGED <<envVars, tableVars, conns, pc, kind, rgen, selVars, tried, attempt, relVars, good>>

\* A failed dial of an upgrade: any healthy backend but this one, no limit.
DialFails(r) ==
    /\ pc[r] = "try" /\ kind[r] = "websocket" /\ ~up[cur[r]]
    /\ LET b == nextBackend(rgen[r], {cur[r]}) IN
        IF b = NoOne THEN Return(r, "releaseFailed")
        ELSE /\ cur' = [cur EXCEPT ![r] = b]
             /\ UNCHANGED <<pc, tried, attempt>>
    /\ UNCHANGED <<envVars, tableVars, conns, kind, rgen, selVars, relVars, good>>

\* The backend accepts the connection.
DialSucceeds(r) ==
    /\ pc[r] = "try" /\ kind[r] = "websocket" /\ up[cur[r]]
    /\ Return(r, "tunnel")
    /\ UNCHANGED <<envVars, tableVars, conns, kind, rgen, selVars, relVars, good>>

\* The handshake fails, which is not retried, or one side ends the tunnel.  No
\* deadline is set for either.
TunnelEnds(r) ==
    /\ pc[r] = "tunnel"
    /\ \E l \in {"release", "releaseFailed"} : Goto(r, l)
    /\ UNCHANGED <<envVars, tableVars, conns, reqVars>>

-----------------------------------------------------------------------------
(* Router.Release: the selector of the table that is current now           *)

Releasing(r) == pc[r] \in {"release", "releaseFailed"}
CasPending(r) == pc[r] \in {"cas", "casFailed"}
Ending(l) == IF l \in {"releaseFailed", "casFailed"} THEN "failed" ELSE "done"

\* Look up the counter and load it; not positive (or absent): nothing to do.
Release(r) ==
    /\ Releasing(r)
    /\ rel' = [rel EXCEPT ![r] = gen]
    /\ val' = [val EXCEPT ![r] = conns[gen][first[r]]]
    /\ Goto(r, IF conns[gen][first[r]] <= 0 THEN Ending(pc[r])
               ELSE IF pc[r] = "release" THEN "cas" ELSE "casFailed")
    /\ UNCHANGED <<envVars, tableVars, conns, kind, rgen, selVars, tryVars, good>>

\* Mutant: a plain store of v-1 instead of the compare-and-swap.
ReleaseCas_Store(r) ==
    /\ CasPending(r)
    /\ conns' = [conns EXCEPT ![rel[r]][first[r]] = val[r] - 1]
    /\ Goto(r, Ending(pc[r]))
    /\ UNCHANGED <<envVars, tableVars, reqVars>>

\* CompareAndSwap; if it fails the loop loads again.
ReleaseCas(r) ==
    /\ CasPending(r)
    /\ LET c == conns[rel[r]][first[r]] IN
        IF c = val[r]
        THEN /\ conns' = [conns EXCEPT ![rel[r]][first[r]] = c - 1]
             /\ Goto(r, Ending(pc[r]))
             /\ UNCHANGED val
        ELSE /\ val' = [val EXCEPT ![r] = c]
             /\ Goto(r, IF c <= 0 THEN Ending(pc[r]) ELSE pc[r])
             /\ UNCHANGED conns
    /\ UNCHANGED <<envVars, tableVars, kind, rgen, selVars, tryVars, rel, good>>

-----------------------------------------------------------------------------
(* Around the requests                                                     *)

\* A backend goes down or comes back.
Toggle(a) ==
    /\ toggles < MaxToggles
    /\ toggles' = toggles + 1
    /\ up' = [up EXCEPT ![a] = ~@]
    /\ good' = [r \in Reqs |-> good[r] \ {a}]
    /\ UNCHANGED <<total, tableVars, conns, pc, kind, rgen, selVars, tryVars, relVars>>

\* UpdateBackendHealth: the current table only, under the write lock.
CheckHealth(a) ==
    /\ healthy[gen][a] # up[a]
    /\ \A r \in Reqs : ~InRoute(r)
    /\ healthy' = [healthy EXCEPT ![gen][a] = up[a]]
    /\ good' = [r \in Reqs |-> good[r] \ {a}]
    /\ UNCHANGED <<envVars, gen, crossed, conns, pc, kind, rgen, selVars, tryVars, relVars>>

\* SwapRoutes: new Backend objects, new selectors.
SwapRoutes ==
    /\ gen < MaxSwaps
    /\ \A r \in Reqs : ~InRoute(r)
    /\ gen' = gen + 1
    /\ crossed' = \E r \in Reqs : Holds(r)
    /\ UNCHANGED <<envVars, healthy, conns, pc, reqVars>>

RequestStep(r) ==
    \/ Route(r) \/ Select(r) \/ SelectAdd(r)
    \/ TrySucceeds(r) \/ TryFails(r) \/ Retry(r) \/ DialFails(r) \/ DialSucceeds(r)
    \/ Release(r) \/ ReleaseCas(r)

Next ==
    \/ \E r \in Reqs : RequestStep(r) \/ TunnelEnds(r)
    \/ \E a \in Addrs : Toggle(a) \/ CheckHealth(a)
    \/ SwapRoutes

Spec == Init /\ [][Next]_vars

\* A request's goroutine is scheduled.  Nothing is assumed of the two ends of a
\* tunnel, nor of the health checker: it reports changes only, and may never
\* correct the flags that a reload has reset.
Fairness == \A r \in Reqs : WF_vars(RequestStep(r))

FairSpec == Spec /\ Fairness

-----------------------------------------------------------------------------
(* Properties                                                              *)

Labels == {"new", "scan", "add", "try", "tunnel", "backoff", "release",
           "releaseFailed", "cas", "casFailed", "done", "failed"}

\* Requests that chose a in table g and have yet to release it.
Holders(g, a) == {r \in Reqs : Holds(r) /\ rgen[r] = g /\ first[r] = a}

\* A counter of the current table never exceeds the requests that hold the
\* backend, whatever else is released into it after a swap: no counter leaks,
\* so no backend looks busy for ever and is never chosen again.
NoLeak == \A a \in Addrs : conns[gen][a] <= Cardinality(Holders(gen, a))

\* Requests charged to a: Route chose it for them, and their Release has not
\* come.  A retried request stays charged to the backend it was first sent to,
\* wherever it is now (Forward switches its own variable, the handler releases
\* the original); a streamed one is released when its header has arrived.
Charged(a) == {r \in Reqs : Holds(r) /\ first[r] = a}

\* In a table that was installed with nothing in flight each counter is the
\* number of requests charged to the backend: the compare-and-swap loop of
\* Release loses no decrement and takes none twice.  (A request that began
\* before a reload has no counter in the new selector, and may take another's.)
CountsExact == ~crossed => \A a \in Addrs : conns[gen][a] = Cardinality(Charged(a))

\* A request with retries for every backend and no total timeout (whose context
\* is cancelled before the request is sent) fails only if no backend was both up
\* and flagged healthy all along.
OneGoodBackendIsEnough ==
    \A r \in Reqs :
        (/\ pc[r] = "failed" /\ kind[r] # "websocket"
         /\ MaxRetries(kind[r]) >= Len(Backends) - 1 /\ ~total)
            => good[r] = {}

\* An upgrade whose route object flags two dead backends healthy: it dials them
\* in turn.  The flags are wrong for good if a reload has set them and the
\* checker, which had already reported the backends down, has nothing to tell,
\* or if they are those of a table that a reload has replaced.
DialsTheDead(r) ==
    /\ pc[r] = "try" /\ kind[r] = "websocket"
    /\ \E a, b \in Addrs : a # b /\ \A x \in {a, b} : healthy[rgen[r]][x] /\ ~up[x]

\* Every request ends, answered or refused, or has its tunnel (Forward,
\* ForwardStream, ForwardWebSocket, the loop of Release), even if the health
\* checker never corrects a flag; only an upgrade does not end that from some
\* time on dials dead backends flagged healthy.
RequestsEnd ==
    \A r \in Reqs : <>(pc[r] \in {"done", "failed", "tunnel"}) \/ <>[]DialsTheDead(r)
=============================================================================
