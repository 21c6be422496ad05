# NexusGate in TLA+

A verification project for NexusGate, an HTTP gateway written in Go: TLA+ modules
that model its components, TLC configurations that check them on small instances,
and TLAPS proofs of the results that matter most, for every value of the constants.
Paths and line numbers refer to the repository's tree; `PROJECT.json` maps every
definition to the lines it models.

To check a configuration: `tlc -config Engine.cfg MCShardEngine`. To check a
proof: `tlapm ShardEngineProofs.tla`.

## 1. The system

```
 listener --> handleConnection --> Gateway.DispatchSync --> shard queue --> worker
  (main.go)    parser, writer         (gateway.go)              |            |
                                                                v            v
                                               slowRecover helper    middleware chain
                                                                  (limiter, breaker, tenant, auth...)
                                                                             |
                                                                     Router.Route -> selector
                                                                             |
                                                                 Proxy.Forward / ForwardStream
 file watcher --\                                                            |
 etcd watch ------> config.Store --> callback --> Router.SwapRoutes      backends
 dashboard -----/                             \-> HealthChecker.Register     ^
                    HealthChecker rounds --> Router.UpdateBackendHealth -----/
 Recoverable keeps the background tasks alive; GracefulShutdown ends everything.
```

| Component | State | Operations | Why it is hard |
|---|---|---|---|
| Shard engine, `gateway/gateway.go` | per shard a bounded channel, `pending`, `wg`, `recovering`; the request pool | `Dispatch`, `DispatchSync`, `run`, `slowRecover`, `Close` | many goroutines, counters updated in several steps, a timeout that races the answer and returns the object to the pool, shutdown under load |
| Connection, `main.go`, `httparser/parser.go`, `proxy/websocket.go` | socket, deadline, body buffer, the bytes in a tunnel | parse, dispatch, write, upgrade, two copies | input and output break off anywhere; limits; two framings on each side; the first copy to end closes both sockets |
| Circuit breaker, `middleware/circuitbreaker.go` | state, three counters, time of the last failure | `Allow`, `RecordFailure`, `RecordSuccess`, `Reset`, `UpdateConfig` | results arrive in another state than the one that admitted them |
| Rate limiter, `middleware/ratelimit.go` | map of lazily refilled buckets | `Allow`, cleanup, `UpdateRate`, `UpdateBurst` | a dropped bucket comes back full; rates change under it |
| Tenant isolation, `middleware/tenant.go`, `chain.go` | a lazily refilled bucket per tenant | the check of a request, inside the breaker | its refusals are the breaker's failures; unknown and default tenants |
| Router, `router/router.go`, `radix.go` | routes, a cached tree, a dirty flag, selectors | `Route`, `SwapRoutes`, `UpdateBackendHealth`, `Release` | the tree is rebuilt under the read lock; the tree must find what a linear scan would |
| Selectors, `router/*.go` | counters, current weights, a hash ring, each shared by all routes of a strategy | `Select`, `Release` | state of one route seen by another; caches of lists that change |
| Proxy, `proxy/proxy.go`, `websocket.go` | tried backends, attempts, pooled clients | `Forward`, `ForwardStream`, `ForwardWebSocket` | retries across backends while tables are swapped |
| Health checker, `lifecycle/health.go` | one object per address with a failure count | rounds, `Register`, `StopAll` | a round overlaps a reload; two copies of every flag |
| Configuration store, `config/store.go` | two buffers, `dirty` and `clean` | `Update`, `Commit`, `Rollback`, `Load` | four kinds of writers, each in several critical sections |
| Watcher and etcd, `config/watcher.go`, `etcd.go` | debounce timer, watch channel | reload, watch | invalid documents, a file that vanishes |
| Dashboard, `dashboard/api.go` | login attempts, sessions | edits, login | edits are Update, Commit, swap in three steps; login checks and counts in two |
| Lifecycle, `lifecycle/recoverable.go`, `graceful.go` | registered tasks, restart budget, hooks | `Go`, restart, `StopAll`, `Wait` | stop races restart; a hook hangs |

What makes each of them correct is the list of properties in section 3; what is hard to
test in them is the list of hazards in `PROJECT.json`, each with the properties that
would notice it going wrong.

## 2. Modules and plan

| Order | Module | Models | Composes | Theorems |
|---|---|---|---|---|
| 1 | `ShardEngine` | engine, pool, connection goroutines, shutdown | connections with shards and pool | `ShardEngineProofs` |
| 2 | `CircuitBreaker` | breaker | | `ChainProofs` |
| 3 | `RouteTable`, `RadixTree` | lookup and rebuild of the route tree; the tree as a data structure | | `RouterProofs` |
| 4 | `HealthSync` | health checker with router flags, reload callback, dashboard edits | three components | `LifecycleProofs` |
| 5 | `ConfigStore` | store with dashboard, watcher, etcd, router, limiter | five components | `ConfigStoreProofs` |
| 6 | `Forwarding` | routing, least-connections, retries, release, table swaps | router, selector, proxy, health flags | `ForwardingProofs` |
| 7 | `TokenBucket`, abstract `IdealLimiter` | rate limiter | refinement | `LimitsProofs` |
| 8 | `Supervisor` | Recoverable and GracefulShutdown | both | `LifecycleProofs` |
| 9 | `Lifecycle` | the background work | `HealthSync`, `Supervisor` | `LifecycleProofs` |
| 10 | `RouterBackends`, `HashRing`, `WeightedRR`, `KeyedSelectors` | routes with health flags; the consistent-hash ring; smooth weighted round-robin; canary, header and IP hash | | `RouterProofs` |
| 11 | `Selectors` | Route with all of them | the four above | `RouterProofs` |
| 12 | `Routing` | the router: lookup and selection | `RouteTable`, `RadixTree`, `Selectors` | `RouterProofs` |
| 13 | `HttpExchange` | parser, response writer, what the proxy hands back | connection, parser, proxy | `ConnectionProofs` |
| 14 | `Connection` | upgrade, handshake, tunnel | `HttpExchange` with the backend's side | `ConnectionProofs` |
| 15 | `TenantLimiter` | tenant isolation | refinement of `IdealLimiter` | `ChainProofs` |
| 16 | `Chain` | the stateful part of the middleware chain | `CircuitBreaker`, `TenantLimiter` | `ChainProofs` |
| 17 | `DashboardAuth` | login attempts, blocks and sessions | | `LimitsProofs` |
| 18 | `Limits` | both doors' limiters | `TokenBucket`, `DashboardAuth` | `LimitsProofs` |

`MC<Module>` gives instances to the modules that are run: `ShardEngine`, `Chain`, `Routing`, `Lifecycle`,
`ConfigStore`, `Forwarding`, `Limits` and `Connection`; `MCProbes` is the breaker alone, with a history of the probes that
are executing. `Routing`, `Lifecycle` and `Limits` join parts that share no state: a behaviour follows one of them. What remains:

1. two reloads that overlap in `HealthSync`, as `ConfigStore` has them;
2. the log stream, request mirroring and service discovery, once the program uses them.

## 3. What is modelled, checked and shown

There is one run per composition, one more for the liveness of the engine, and one for each way in which the code breaks a promise of the documents. Where the code breaks off a promise in a
known situation, the property says so in its premise, and a history variable (`raced`,
`disturbed`, `crossed`, `torn`, `solo`, `overwritten`, `alone`, `pure`, `expired`) or a state predicate
(`DialsTheDead`, `AtTheirMercy`, `AllWell`, `Reused`, `ReplyBlocked`) tells that situation apart: the run then
shows that nothing else breaks it, and says nothing of the situation itself. The hazards in `PROJECT.json` carry a note where a part of them lies in such a premise. Each section names these situations under *Limits*. A property that needs several
sentences is a conjunction of named parts, each with its comment in the module: `BookkeepingExact`,
`LateRepliesOnly`, `Recovers`, `TreeFollowsTable`, `MatchesScan`, `FlagsFollow`, `SyncedAtRest`,
`TasksStop`, `RestartsWork`, `ShutdownCompletes`, `RingConsistent`, `FairShares`, `HonoursKey`, `AnswerIntact`. The runs
marked *violated* are disagreements between the code and lines of the repository's
documents, quoted in `PROJECT.json` under `findings`.

Documents the code disagrees with:

| Document | It says | The code | Shown by |
|---|---|---|---|
| `articles/nexusgate-03-gateway-engine.md:274` | a late result is consumed by nobody | it may reach the next owner of the Request | `engine_foreign_reply` |
| `articles/nexusgate-07-config-lifecycle.md:233` | the listener is stopped first, requests in flight finish | the queues are closed first | `engine_close_order` |
| `articles/nexusgate-06-middleware-chain.md:344`, `internal/middleware/middleware_test.go:239` | half-open, at most `successThreshold` probes at once | a late success gives back a probe's slot | `chain_probes` |
| `articles/nexusgate-03-gateway-engine.md:205` | no re-entry check, several `slowRecover` | a compare-and-swap admits one | `engine`, `BookkeepingExact` |
| `articles/nexusgate-04-routing-strategies.md:66`, `:97`, `:103` | the first rule that matches wins | the most specific one wins | `routing`, `MatchesScan` |
| `articles/nexusgate-04-routing-strategies.md:296` | a counter records active connections | it counts requests charged to the backend that was selected first, until the answer's header is there | `forward`, `CountsExact` |
| `ROADMAP.md:165`, `internal/router/canary_test.go:7` | canary by header | the rule's value is compared with the Cookie or the address | `routing`, `HonoursKey` |

### 3.1 Shard engine

`Clients` are connections (`handleConnection`), `Workers` run `Shard.run`, `Recoverers` run `slowRecover`. Every channel operation, atomic counter, WaitGroup call and pool access is an action of its own, so `Dispatch` is the chain StartDispatch, TryRecover, CountWg, CountPending, Enqueue and, on a full queue, UndoPending and Reject; `DispatchSync` adds Deliver and SyncTimeout. `obj` is the pooled Request a goroutine holds, `chan` the response channel. The pool hands out any free object, which is what `sync.Pool` allows. A panic of the process is the variable `crashed`. The pointer aliasing that a released Request makes possible is modelled: a server holds the object, not the request it was taken for.

| Run | Checks | Shows |
|---|---|---|
| `engine` | `BookkeepingExact`, `DrainedOnceWaited`, `ExclusiveOwner`, `LateRepliesOnly` | Three connections, one worker, two possible helpers, a one-slot queue and three pooled objects, with sync timeouts, rejections, slow recovery, failing and hanging handlers and a shutdown at any point: two connections contend for the recovering flag while the third keeps the shard overloaded; the counters stay exact, there is one helper at a time, a drained shard stays drained, an object has one owner, and answers get mixed up and replies block only after a timeout. |
| `engine_liveness` | `EveryClientReturns`, `CloseDrains` | Two connections, one worker and two possible helpers under the fairness of Go's scheduler: every connection returns whatever times out, is rejected or hangs, and a shutdown drains every shard if no reply blocked and no handler hangs. |
| `engine_foreign_reply` (*violated*) | `AnswersOwnRequest` | The result of a timed-out request is delivered to the connection that got its Request object from the pool. |
| `engine_close_order` (*violated*) | `InFlightSurvive` | Without any timeout, a shutdown closes a queue before the listener; a request accepted in between panics the process and the other requests in flight die with it. |

*Limits.* After a sync timeout the released Request is still in the hands of a server, whose late answer goes to the connection that acquired the object next (`engine_foreign_reply`), or blocks on a channel that is already full (`LateRepliesOnly` says: only then), and with it the shard. The shutdown hooks run last registered first, so the queues are closed before the listener: a dispatcher that reaches its send after that panics the process (`crashed`, `engine_close_order`), and the liveness properties allow for it.

*Bounds.* A connection carries one request, so three of them with a queue of one: one keeps the shard overloaded while the other two meet at the compare-and-swap that starts a helper (with a test and a store in its place the run finds two helpers), and one can be served, one queued and one rejected. Two helpers let a second one start. Connections, helpers and pooled objects are interchangeable (symmetry), which liveness does not admit: `engine_liveness` has two connections and no symmetry. Handlers return a response or a plain error, or hang. Shards share nothing but the pool: one is checked, the theorems hold for any number.

### 3.2 Circuit breaker and tenant isolation

`CircuitBreaker`: each method holds the mutex and is one action; `inflight` are the requests between `Allow` and `Record`. `age` and `openFor` are times in ticks, capped just above every timeout; `streak`, `admitted` and `openFor` are history. `TenantLimiter`: the check of a request is one step, a refill is computed from the time since the bucket was last asked, a token is spent before the path rules are looked at. `Chain` puts the second inside the first, in the order main calls `Use`: a request enters the breaker, is checked by the tenant middleware, and comes back as a failure if that refused it. `OwnBuckets` is a refinement: each limited tenant has a bucket of its own of `IdealLimiter`, whose configuration never changes. `Recovers` has two parts: under traffic the breaker leaves the open and the half-open state, and once no request fails any more it closes and stays closed.

| Run | Checks | Shows |
|---|---|---|
| `chain` | `HalfOpenNotStuck`, `ProbesBounded`, `TripsOnStreak`, `QuietPeriod`, `OwnBuckets`, `Recovers` | Requests of two tenants, of an unknown one and of none pass the breaker and the tenants' buckets, across two configurations of the breaker, with resets, reloads and time: each tenant, both of them limited, gets what a bucket of its own would give it, whatever is asked under the other id or an unknown one; the breaker leaks no slot, admits at most 2 * successThreshold - 1 requests in a half-open period, trips on a streak only, holds for its timeout, and closes for good once nothing fails, a tenant's refusals included. |
| `chain_probes` (*violated*) | `ProbesLimited` | The breaker alone: a request admitted before the breaker opened succeeds while it is half-open and gives back the slot of a probe that is still executing, so a further probe is admitted beyond successThreshold. |

*Limits.* `success_threshold` is not validated: a threshold of 0 admits nothing when half-open, so the properties about leaving that state speak of positive thresholds. A period may admit up to `2 * successThreshold - 1` requests, since late results free slots they never held: more probes execute at once than `successThreshold`, which the documents exclude (`chain_probes`, in `MCProbes` with the history variable `probes`). Refusals of one tenant are failures to the breaker and may hold it open for the others (`AllWell` includes them). An unknown tenant id is under the default tenant's rules and under nobody's limit. Edits of the tenants reach the store and never the running middleware.

*Bounds.* Three requests against thresholds of up to two, so that late results of an earlier period can fill and empty the slots of the next; two tenants with buckets, one of them with path rules, unknown and missing ids: one tenant's requests, and those of an id that is only under its rules, fall between the other's. The theorems remove the bounds.

### 3.3 Router: route table and radix tree

`RouteTable`: `Route` takes the read lock, tests `dirty`, replaces `r.tree`, inserts the routes one by one and clears `dirty`, all as separate steps of concurrent readers; `SwapRoutes` waits for the write lock. Appending to a shared slice is read, then write. A torn slice header (Go gives no guarantee for one) is not modelled, only the outcomes of lost and partial appends. `RadixTree`: `nodes` is the list of the nodes in the order they were allocated, the children of a node are numbers in it; the loop of `findOrCreateNode` (`Descend`) and the recursion of `collectMatches` (`Lookup`) are recursive functions over the places on the way down a path. A split keeps the number of the old child for the node the code allocates anew with its routes and children. `match` is the scan from the last candidate. The reference is `matchRule`, `matchMethod` and `matchHeaders` applied to every inserted route. Insertion orders are behaviours. `Routing` joins the two with the selectors of section 3.4: the first takes a tree for the routes inserted into it, the second shows that a tree is that, the selectors begin where a route is found.

| Run | Checks | Shows |
|---|---|---|
| `routing` | `TreeFollowsTable`, `MatchesScan`, `RingConsistent`, `FairShares`, `HonoursKey`, `FindsConfigured`, `NeverStarved` | Table: two requests rebuild the lookup tree, concurrently or one after the other, around two swaps of the routes; none is routed by a replaced table, and as long as requests do not meet in a rebuild every configured path is found. Tree: every order of inserting three routes of every shape, with and without methods or headers, every request path of up to four characters; it finds exactly the routes that fit, and the most specific one wins. Selectors: two routes share each selector and backends go down and come back. Ring: every placement of three backends, a request that is alone with its list gets a backend of it and keys move only to or from a backend that changed. Weights: all weights 0 to 2, exact shares while one route uses the selector, and no starvation once it does. Keys: a client that sends a Cookie keeps its side of a canary through health changes and raised weights, the weight gives its share of the hashes, and a version asked for is honoured. |

*Limits.* `rebuildTree` writes under the read lock. Requests that meet in a rebuild (`raced`) may see a partial tree and answer 404 for a configured path, and may leave a tree that lacks a route until the next reload: `FindsConfigured` is about the others. That the most specific route wins contradicts the documents (first match wins).

*Bounds.* Two readers are enough for every pairwise race; the tables have up to two routes, so that one can be missing, and share paths; two swaps, so that a reader may fall behind one. Paths over two letters and the slash, up to three routes, request paths up to four characters: every way one path can be a prefix of, equal to, or diverge from another, at a segment boundary or inside one. A split needs two routes, a split of a split three.

### 3.4 Selectors

`RouterBackends` has the routes, their backends and health flags; a behaviour follows the routes of one strategy, since selectors of different strategies share nothing. `HashRing`: CRC32 is an arbitrary function of virtual nodes and keys, chosen in the initial state, so that every placement, collisions included, is checked; check, rebuild and search are the critical sections of `Select`. `WeightedRR`: `Select` resizes, raises, picks and lowers under one mutex and is one action. `KeyedSelectors`: canary, header and IP hash keep no state; what is checked is how their answers for one client relate across health changes and reloads of the canary rule. A client is known to canary by the Cookie it sends (`cookie`); one that sends none is known by ip:port, and as a connection carries one request that is another key each time (`KeysOf`).

Checked by the run `routing` of section 3.3.

*Limits.* The ring is shared by the routes: a request of another route may rebuild it between this one's rebuild and its search, which then returns a backend of the other route (`alone` excludes it). The current weights are shared too: shares are exact only while one route uses them (`pure`), and switching between lists of different lengths lets them drift. `KeepsSide` holds for clients that send the same Cookie with every request: nothing holds the others to a side. A canary header rule compares the Cookie header or the address, not the header it names; an address that a route lists twice is not refused by the code and is excluded by `RoutesAssumption`; a canary weight above its total wraps at 32 bits.

*Bounds.* Three backends on three hash values: wrap-around, collisions and every relative order occur. Weights 0 to 2. Two health changes remove a backend and return it. `MaxSwitches` is needed because the weights of two routes drift without bound. Canary rules of every precedence, with weights below, at and above the total.

### 3.5 Background work: health checker, supervised tasks and shutdown

`HealthSync`: `healthy` and `fails` belong to the checker's objects, `routed` to the router's backends. A round copies the objects, probes them one by one and reports changes; `StopAll`, `Register`, `SwapRoutes` and a dashboard edit fall in between. `Supervisor`: an instance is one goroutine started under a name; its deferred function, the back-off, the restart and the deletion of its registration are separate steps. `Wait` runs the hooks in order against a timer. `Lifecycle` follows one of the two, which share no state.

| Run | Checks | Shows |
|---|---|---|
| `lifecycle` | `TasksStop`, `OutAfterStreak`, `FlagsFollow`, `RestartsWork`, `ShutdownCompletes` | Health: rounds of checks of two backends that fail and recover overlap a reload and a dashboard edit: a backend goes out of rotation only after Threshold failures in a row; between rounds the router agrees with the checker, and in the end the live backends are routed to and the dead ones are not, except after a reload that met a round or an edit over a backend that was down or being checked. Tasks: one started twice under one name returns, fails or panics while the program shuts down with failing and hanging handlers: it can be stopped unless its name was reused, restarts are limited and happen, StopAll stops what has not panicked, every handler is called and Wait returns. |

*Limits.* The two copies of a flag part for good when a reload meets a round, or an edit installs its healthy backends over one that is down or being checked (`disturbed`): the checker reports changes only, and has none to report. Reloads do not overlap here. `StopAll` misses a task whose back-off has ended and that is not registered yet. `Go` called twice with one name, which the code permits and no caller does today, lets the first instance delete the second's registration (`Reused`); `TasksStop` excludes both. A task that returns an error is not restarted. The restart budget belongs to the name and is never given back, so a task that panics now and then is given up in the end. `Recoverable.Stop` (one name) is called by tests only and has no action.

*Bounds.* Two addresses (one that changes and one that does not), a threshold of two so that a streak can be interrupted, one reload and one edit; one name used twice, two restarts, three hooks of which any may fail or hang.

### 3.6 Configuration store and its writers

`dirty` and `clean` are the buffers, `table` what the router serves. Handlers, reload goroutines and the etcd watch step through their critical sections. Every dashboard edit is an operator of the name of its handler. The history field `from` is the set of writes a configuration is made of: an edit adds itself to what it finds in the buffer, a whole document (file, etcd, PUT config) begins with nothing. `overwritten` collects what whole documents and Rollbacks threw away, `committed` what was ever committed: an acknowledged edit must be in `clean` or overwritten, so that no edit undoes another. A partly written file is not modelled (the watcher debounces), and the polling fallback performs the same reload.

| Run | Checks | Shows |
|---|---|---|
| `store` | `AckedEditsKept`, `SyncedAtRest`, `CleanIsValid`, `RouterServesCommitted` | Two dashboard requests of every kind, a reload of the file, which may be invalid or missing, and an etcd document, valid or not, overlap: an acknowledged edit is undone by no other edit, only by a whole document (file, etcd, PUT config) or a Rollback, nothing uncommitted is served, file and etcd alone publish only valid configurations, the buffers agree when all are done, and so does the router if the writers did not overlap. |

*Limits.* A Load, an etcd document or a PUT config between a handler's Update and its Commit replaces the buffer that holds the edit, and so does the `Rollback` of an invalid etcd document: the edit is never published, and the handler commits what it finds and answers success all the same. `AckedEditsKept` counts these as overwritten. Writers that overlap may swap the router in another order than they committed (`solo` excludes it), etcd never swaps it, a Load without a file writes both buffers unlocked (`torn`), and edits are not validated: `CleanIsValid` is about file and etcd without any dashboard request, whose Commit may also publish an etcd document that is about to be rolled back.

*Bounds.* Two concurrent requests, one reload and one etcd document, at most two edits: an overlap concerns two writers, and all kinds of writers are present. The theorems remove the bounds. Handlers are interchangeable (symmetry; no liveness is checked here).

### 3.7 Routing, retries and release

A request takes a route, scans the counters of least_conn one by one, adds one, tries backends with `nextBackend` and `tried`, and releases with load and compare-and-swap. `gen` is the current table; a swap makes new selectors and backends, and a request keeps the route object of its own. What a backend answers is abstracted to up or not up; back-off times are left out (any time may pass between steps); the tracker the proxy keeps is never read and is left out. An upgrade dials, and has its tunnel until either side ends it.

| Run | Checks | Shows |
|---|---|---|
| `forward` | `NoLeak`, `CountsExact`, `OneGoodBackendIsEnough`, `RequestsEnd` | Two requests of any kind, backends that fail, health checks and a reload: no counter leaks, each counter is the number of requests it was charged for and that have not released it unless a reload met requests in flight, one good backend is enough, and every request ends or has its tunnel, but for an upgrade that dials dead backends flagged healthy; no fairness of the health checker is assumed, which does not correct flags that a reload reset. |

*Limits.* A request that began before a reload is released into the new selector, where it may take another's count (`crossed`). A counter is of the requests charged to a backend (`Charged`), not of those now at it: a retried request stays charged to the backend it was first sent to, which the handler releases, and a streamed answer is released when its header is there, while its body is still being copied. A total timeout is cancelled as soon as the request is built, so every attempt fails (`total`). An upgrade whose route object flags two dead backends healthy dials them in turn (`DialsTheDead`), without end if the flags stay wrong: those of a replaced table do, and those that a reload or an edit set over backends already reported down, as the checker reports changes only; a failed handshake is not retried; neither handshake nor tunnel has a deadline.

*Bounds.* Two requests of any kind, two backends with a retry for the second, one swap and two changes of backends: requests before, across and after the swap, and a moment when both backends are dead. The theorem removes the bounds.

### 3.8 Rate limiter and dashboard login

`TokenBucket`: tokens are integers, a request costs `Cost` of them, so fractions are kept. `IdealLimiter` is the specification of a limiter: one full bucket per key from the start, refilled at every instant, nothing ever dropped, its rate and burst changed by reloads. `RefinesIdeal` is the refinement, with lazily refilled, dropped and recreated buckets mapped to what the ideal bucket would hold. `DashboardAuth`: a login is two steps, the critical sections of `handleAuth`, with the reading of the body in between; times are relative to now. `watched` starts to count at any moment, so that `GuessesBounded` speaks of every stretch of time as long as the window. A login from a blocked address leaves no trace. `Limits` follows one of the two, which share only the clock.

| Run | Checks | Shows |
|---|---|---|
| `limits` | `GuessesBounded`, `RefinesIdeal`, `BlockEnds` | Rate limiter: two keys, a map limit of one, both kinds of cleanup, and reloads of rate and burst at any time; every verdict between reloads is the ideal token bucket's. Login limiter: two logins of two addresses overlap their blocks and windows; the wrong tokens compared in a window are bounded, and a block ends. |

*Limits.* The map may exceed `maxBuckets`: cleanup only drops idle buckets. A reload applies its rate to the whole time since a bucket's last use; `IdealLimiter.Reload` allows the levels to change with it, upwards only if the rate rises or a full bucket meets a higher burst, downwards only if the rate falls or the burst cuts them; a reload that changes neither changes nothing. A bucket that expires before it would be full gives tokens away: that is the premise `FillsInTime` of the theorem, and the run's numbers satisfy it. The login limiter's bound is `2 * (MaxAttempts - 1)` and one for each login in progress, not `MaxAttempts`: logins in progress pass the check together, and a window is measured from when logins are admitted. It holds if a block outlasts the window, as the defaults have it. A login that fails during a block renews it, but only those admitted before it can, so `BlockEnds`. The address is X-Real-IP or X-Forwarded-For if the request has one, so the bound is for each value of these. Bearer tokens are compared by `authMiddleware` and counted nowhere.

*Bounds.* Two keys against a map limit of one, so that cleanup and expiry both happen; time runs past two expiries; the theorem removes the bounds. Two logins of two addresses, two attempts, a window of two ticks and a block of three: the bound is reached.

### 3.9 Connection, parser, response writer and WebSocket tunnel

A client's bytes are tokens: a line, a body byte, the CRLF after a chunk. Bytes that are read as a body are byte tokens: for a script with a line where a body byte is due the model's parser waits where the code would take the line for body, so such scripts say nothing of the code. The reader's phases are the values of `pc`; `Reject` is an error the client is told, `Abort` one that closes the connection silently, which in this code includes every wrapped error. `doForward` and `doForwardStream` give the response's body and headers; `wire` is what the client sees, and `Complete` is the client's own reading of HTTP framing. `room` is how far the client has taken the answer, send buffers included. int64 arithmetic is `Wrap`, with `MaxInt` the largest value. HEAD is read like GET, and its answer is not distinguished; a close-delimited backend that breaks off cannot be told from one that ends and is not modelled. A response rewrite makes a byte body longer or shorter after its headers were read. `Connection` adds the upgrade: what the parser has read ahead is lost, the one read of the backend's answer is passed on, then two copies run until the first of them ends. `TunnelFaithful` says what each side has of the other's bytes, and why a tunnel may end.

| Run | Checks | Shows |
|---|---|---|
| `connection` | `TunnelFaithful`, `RequestIntact`, `BodyBounded`, `AnswerIntact`, `ConnectionEnds` | Twenty-nine requests at and around every limit, with repeated Transfer-Encoding headers among them, and two upgrades, cut off, stalled or closed at every point, with plain, streamed, failed, broken and rewritten answers and a backend that sends, stalls and closes in a tunnel: the engine sees only whole bodies within the limit, a complete answer carries the whole body but for the two kinds the proxy shortens (a plain one at the response limit, a streamed 5xx) and its end is clear, a tunnel passes every byte in order, and the connection ends unless client or backend hold it. |

*Limits.* A chunk size near the largest int64 wraps the running total past the limit and the allocation panics (`pc = "panic"`). A plain answer longer than `max_response_body_bytes` is cut there and sent as complete (`Cut`). Of several Transfer-Encoding headers only the first is looked at, so a later chunked one does not frame the body (`coded`). A streamed 5xx loses its body and keeps its Content-Length (`Dropped`). No write deadline is set: a client that stays and never reads keeps its connection (`Unread`). The read deadline set for parsing is never cleared: it ends a tunnel, unless the copy from the client waits in a write to a backend that does not read; the handshake has no deadline at all (`AtTheirMercy`). Bytes a client sends before the handshake is answered may be lost with the parser's buffer (`first`).

*Bounds.* Limits of four header lines, four header bytes and three body bytes, with requests below, at and above each, alone and in the order that makes each check the first to fail; bodies of up to four bytes are cut at every point and written in every division into pieces. Two bytes in each direction of a tunnel: one passed on and one in hand.

## 4. Fairness

Liveness is checked under weak fairness of what the Go runtime or the system's own
timers guarantee, and never of what a peer does:

- `ShardEngine.FairSpec`: a connection's goroutine with an enabled step is scheduled, its sync
  timer fires, and a shutdown that began goes on. Nothing is asked of servers, whose handlers may hang;
  `CloseDrains` has their fairness (`ServersRun`) as its premise. Starting a shutdown is not fair.
- `Chain.FairChain`: requests keep coming, each admitted one is checked and recorded, time
  passes. Without traffic the breaker has nothing to leave its state with, so this is the premise of the claim.
- `Lifecycle.LifecycleSpec`, health (as in `HealthSync.FairHealth`): the ticker fires, and a reload or an edit that began goes on; backends are not
  fair, the properties speak of those that stay up or down. Tasks (as in `Supervisor.FairSpec`): deferred functions, hooks that return, and the shutdown timer. Whether a task ends and a signal comes is open.
- `Forwarding.FairSpec`: the steps of every request (a dial or a round trip ends, by its timeout at the latest),
  and nothing else: the health checker reports changes only, so a flag that a reload or an edit has reset need not be corrected. A tunnel's end is not fair.
- `Routing.FairRouting` (as in `Selectors.FairSelectors`): requests of some route keep coming; which route is open.
- `Limits.LimitsSpec`: time passes. Nothing is asked of clients, and a login may stay between its two sections for ever.
- `Connection.FairConn`: the connection's goroutine, each of the two copies, and the read deadline. Nothing is assumed of the client and of the backend.

## 5. What is proved

| Module | Theorems | Assumptions beyond the constants' types |
|---|---|---|
| `ShardEngineProofs` | `EngineTypeOK`, `CountersAreExact` and `OneHelper` (together `ExactBookkeeping`), `CloseIsFinal`, `OneOwner`, `RepliesReachTheirOwners` | none |
| `ChainProofs` | breaker: `BreakerTypes`, `NeverStuck`, `ProbesAreBounded`, `CountsTheStreak`, `TripsOnlyOnStreak`, `StaysQuiet`; chain: `ChainIsBreaker`, `BreakerInChain`, `TenantsHaveOwnBuckets` | `TenantAssumption`: a bucket idle for `MaxIdle` is full |
| `ConfigStoreProofs` | `NoAckedEditLost`, `OnlyCommittedServed`, `BuffersAndRouterAgree`, `FileAndEtcdStayValid` | none |
| `ForwardingProofs` | `NoCounterLeaks`, `CountsAreExact`, `OneGoodBackend` | none |
| `LimitsProofs` | `LimiterIsIdeal`, `GatewayIsIdeal`; `GuessesAreBounded`, `LoginsAreBounded` | `FillsInTime` for the limiter: `Expiry * r >= b` for every rate and burst that may be configured |
| `LifecycleProofs` | `TasksCanBeStopped`, `RestartsStayBounded`, `WaitRunsAllHooks`; `FlagsAgreeBetweenRounds`, `OutOnlyAfterStreak` | none |
| `RouterProofs` | `TreeKeepsUp`, `FindsItsRoute`; `TreeIsSound`, `TreeFindsAll`; `KeysStayPut`, `SharesAreExact`, `KeysAreHonoured` | tables are not empty; `PathsAssumption`: a request's path begins with a slash, a configured one is not empty; `RoutesAssumption`: no address twice in a route, which the code does not validate |
| `ConnectionProofs` | `RequestsArriveWhole`, `BodyStaysBounded`, `AnswersArriveWhole`, `TunnelIsFaithful` | none |

`FillsInTime` is sharp: a bucket that expires before it would be full gives tokens away. The
other theorems have no premise; what they exclude (`overwritten` edits, the panic of a wrapped total, requests that timed out or met in a rebuild) is in the
property itself. A proof about a composition (`ChainSpec`, `LimitsSpec`, `ConnSpec`) is about the specification its run checks. Theorems about parts of `Routing` and `Lifecycle` are about the part's own specification (`Spec`, `SelectorsSpec`, `HealthSpec`), which a behaviour of the run that follows the part satisfies.

**Engine.** Neither counter property is inductive by itself: it does not say which goroutines hold a Request, on
which a step's effect depends. `TypeInv` joins `TypeOK` with `Holding` (whoever is inside `Dispatch`, `run` or `slowRecover` holds a Request), and
`Account` restates `CountersExact` (`PendingExact` and `WgExact`) shard by shard: `pending` and `wg` equal the queue's length plus
the goroutines at each place between an increment and its decrement. Together they are inductive. The proof goes by goroutine moves: lemmas
say how the number of goroutines at a place changes when one moves, and each action is one move.
`OneHelper` needs that the flag is held from its compare-and-swap to its store; `CloseIsFinal` follows
from `wg` being exact and from dispatchers being unable to add once the shard is closed. `OneOwner` covers the pool's side only: an
object has one owner, although a server may still read it, which is what `engine_foreign_reply` shows.
`RepliesReachTheirOwners` is that boundary made exact. `LateRepliesOnly` speaks of clients that got an answer; whether it is theirs depends on
the object on its way: in one queue or at one server, its channel empty until it is answered. `ReplyInv` follows each object on that way,
and is true only as long as nobody has timed out, so the inductive invariant is `SomeTimedOut \/ ReplyInv`, with `AnsweredAtEnd` beside it.

**Breaker.** `IInv` joins types, the closed state's count, `OpenInv` (the period is measured from its start
or later) and `HalfOpenInv`. The last is the point: `halfOpenActive` may be decremented by results that
never held a slot, so it is not the number of probes; that `admitted <= halfOpenActive + successCount` survives every late result is what bounds a
period by `2 * successThreshold - 1`.

**Chain.** Every step of the chain is a step of the breaker or leaves it alone, so `ChainSpec` implies the breaker's `Spec` and its theorems carry over. For the tenants, whose verdicts carry the id that asked, the refinement maps
each bucket to what it would hold if it were refilled now; `TenantInv` gives the types and keeps tokens within the burst. The cap `MaxIdle` on the time a bucket is idle is harmless because a bucket idle so long is full (`TenantAssumption`).

**Store.** `AckedEditsKept` says nothing of `dirty`. `Lineage` adds that the writes `clean` is made of
are in `dirty` or overwritten there, because Update starts from `dirty`, that so is what a handler stamped until it commits, and that `clean` and every snapshot taken for the router are made of
committed writes; `Shapes` gives the records their fields, which the provers need to see through `EXCEPT`.
For `SyncedAtRest`, `Agree` says that the buffers agree unless a write is open or a Load was overtaken (`torn`); and, as long as writers have come one at a time (`solo`),
`OneAtATime` says that one goroutine at most is at work and which gap between `dirty`, `clean` and the router's table it has yet to close. `ValidInv` for `CleanIsValid` follows a document from the file or etcd through `dirty` to `clean`: the only way past `validateConfig` is a dashboard edit.

**Forwarding.** `NoLeak` alone does not survive `SwapRoutes`: the selectors of tables to come must be known to be
empty (`FutureZero`). `Tables` says that the table of a request's route object is one that was installed, and the current one as long as `Route` holds the lock,
and that the selector a `Release` works on is not older than the request's own table, so that a compare-and-swap never lowers the counter below what the holders account for.
`CountsAreExact` adds the converse for tables installed with nothing in flight (`crossed`): every request that is charged to a backend is charged in the counter that its release will find.
`OneGoodBackend` counts: as long as there is a good backend each attempt is made with another one (`Attempts`: the addresses tried are one more than the retries, and none that failed is good),
so a request with a retry for every backend that gives up has tried them all; `GoodIsUp` says that a good one is up and flagged so, and `SelectFinds` that the scan for the least count ends with a backend when there is one.

**Limiter and logins.** The refinement maps each key to what its bucket would hold if it were refilled now, and an absent bucket to a full one.
The invariant keeps rate and burst among the configured ones; `IdleIsFull` shows that a bucket that may be dropped is full, which is where `FillsInTime` is used. Reloads map to `IdealLimiter.Reload`; `ReloadMoves` shows that a level moves with the rate and the burst only, which needs that the tokens earned are monotone in the rate.
`GuessesBounded` counts wrong tokens of an address within any window, although the check and the recording of an attempt are two critical sections: with `M` attempts and `N` logins at once it is `2 * (M - 1) + N`. `BlockInv` says that an address whose attempts are used up
stays blocked until the window has passed since it was last admitted; `WatchInv` that the wrong tokens are those counted now, besides those of one earlier count that ended within the window, and that once the attempts are used up only the logins in progress can add to them.

**Lifecycle.** Supervisor: `Budget` says that every restart, done or decided, was paid for by a panic, so that two instances of a name that panic together do not exceed it; `Solo` that a name the program used once has one instance that has not ended, and that this one is registered or told to stop; `Down`
that the hooks that ran are the last ones in order. Two instances of a name (a second `Go`) are where `TasksStop` ends.
Health: `InSync` says that the router has the checker's flags but for addresses a notification is under way about, `Round` that a round has one notification for an address at most and is about the objects of one registration,
`Unseen` that objects no round has reached count nothing, and `Streaks` that what an object has counted are failures in a row of its address, which is what `OutOnlyAfterStreak` needs.

**Route table.** `Fresh` says that whoever inserts works on a slice of routes of the installed table, and that the tree is of the installed table as soon as one reader has replaced it: since
`SwapRoutes` waits for all readers, no old slice survives it. `Alone` is what holds as long as nobody met: the reader that rebuilds is the only one inside, the tree holds what its range over the routes has passed, and a clean tree holds them all.

**Radix tree.** `MatchesScan` is about what a recursive descent finds, so the invariant says where everything lies. `TreeInv`: there is a labelling `loc` of the nodes with the characters on the way to them such that (`Shape`) every node but the root is the child of exactly one node,
`loc` of a child is `loc` of its parent followed by the child's path, and no two children of a node begin alike; and (`Held`) every route of the configuration is in exactly one node, the one its path leads to, up to a final slash. An insertion appends a route to a node, hangs a new child into the tree (`NewChild`) or puts a
node between a child and its parent (`NewBetween`), after which a child may be hung in; each keeps `loc` on the old nodes. `Descend` and `Lookup` are recursive functions, of which TLA+ says nothing until a function that satisfies the recursion is known to exist. It exists because the length of the path covered grows with every turn: `Walk` is a step with a rank that falls,
and the fixed point is built rank by rank. Since children begin differently, at most one fits, so the way down passes all nodes whose `loc` is a prefix of the path, the shorter ones first: every route that fits is met once, and the last one has the longest path.
The bound "up to a trailing slash" in `LongestWins` is needed: `Lies` allows "/a/" in the node of "/a".

**Selectors.** All three rest on the list of healthy backends that `Route` builds in a loop. The library's induction theorems cannot be used (they take an operator), so induction goes through sets: a set of positions that
is not everything has a least one missing (`LeastElement`, `Induction`). That gives `HealthyPart` (the list is part of the route, in its order) and the facts about sums.
Ring: `Searching` says that a request that has met no other list shares its list with everybody in `Select` and searches a ring built from it; the answers then are a function of list and key, and `Remap` compares two lists: the point a key falls on in the larger ring
belongs to a backend of the smaller one, so it is the same point there, and the same backend is the last to claim it, because both lists have the order of the route. Hashes may collide.
Weights: `Level` says that a current weight is what the backend was due less what it got, `turn * weight - cycle * picks`, that they sum up to zero, and that each exceeds `-cycle`: the chosen one has the largest, which is positive as the raised weights sum up to the cycle.
At the end of a cycle every current weight is a multiple of the cycle above `-cycle`, hence not negative, hence zero.
The upper bound is that of the sum: the attempt to prove `currentWeights[i] < cycle`, which holds for two and three backends with small weights, failed for a good reason. Weights 2, 2, 8, 34, 34, 34 exceed it, so `Balanced` does not claim it.
Keys: `KeyedInv` says that a selection with both sides to choose from, of a client with a Cookie, went where its rule sends that Cookie; the rest is arithmetic: the threshold of a weight within the total is not truncated, grows with the weight (`DivMonotone`), and is the number of hashes below it.

**Connection.** Request: `RequestIntact` speaks of a parser that is done. `Framing` says what it knows on the way: after the headers, what they say of chunks and length (`HeadersRead`); in a body, where in the script it stands, after whole chunks or inside one, and that the bytes stored are those of the script so far (`BodyRead`).
Chunks are described position by position, each ending where the next begins, so that reading one more token extends the description by one. Body: `BodyBounded` is not inductive: that a chunk fits follows from the running total, so `Exact` says that the total is the
length read plus the length awaited whenever another size may be read; `FitsOrNegative` that a size the check lets pass either fits or has wrapped the total below zero, which ends in the panic.
Answer: `AnswerInv` says when the response is made (`Resolved`: it is the one the backend's answer calls for), that while its body is written the client has the part copied so far and no last chunk (`Writing`), and that at the end
a last chunk stands for a whole source, and a client that stayed got all there was (`Settled`). Tunnel: for each direction, what the receiver has, followed by what the copy holds, is what was read, without a gap (`DownFlow`, `UpFlow`, the latter from where the parser left off),
and `Reason` says why the tunnel ended. `MadeFacts` needs the guards of the framing rules to be disjoint, and they are written so.

Only model-checked: the liveness properties, since fairness is beyond the proof system's backends. Every invariant and every action property of a passing run is a theorem.

## 6. What is not modelled

`PROJECT.json` lists every component with the reason. In short: stateless per-request transformations (CORS, authentication,
compression, request IDs, access log), monotonic metrics and traces, TLS set-up, static files and
read-only dashboard handlers have no state a model could get wrong; `RequestMirror`, `ServiceDiscovery`,
`PluginManager` and the log stream's `Publish` are never called by the program, so nothing in it says when their steps may happen; the distributed limiter is not part of the chain `main` builds, and falls
back to the local one. Of the middleware chain the stateless members are left out: they refuse a request before the breaker hears of it, or change headers.

Memory-model effects beyond a step's atomicity (torn reads) are not modelled; a data race appears as an interleaving
of the atomic accesses.
