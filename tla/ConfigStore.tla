---------------------------- MODULE ConfigStore ----------------------------
(***************************************************************************)
(* The double-buffered configuration store (internal/config/store.go) and  *)
(* the goroutines that write it: dashboard handlers                        *)
(* (internal/dashboard/api.go), reloads of the configuration file          *)
(* (internal/config/watcher.go with the callback of cmd/nexusgate/main.go) *)
(* and the etcd watch (internal/config/etcd.go).  Each of Update, Commit,  *)
(* Rollback and the end of Load is one critical section of Store.mu; what  *)
(* lies between two of them may interleave with anybody.                   *)
(*                                                                         *)
(* A configuration is a record: its routes, its tenants, a rate limit, and *)
(* whether the fields outside these are accepted by both validators        *)
(* ("good"), by the dashboard's only ("weak") or by neither ("bad").  Its  *)
(* field from is history: the writes it is made of.  An edit adds itself   *)
(* to those of the configuration it changes; a whole document (a file, an  *)
(* etcd value, the body of PUT /api/v1/config) stands alone.               *)
(***************************************************************************)
EXTENDS Integers, Sequences, SequencesExt

CONSTANTS
    Handlers,       \* concurrent dashboard requests
    Edits,          \* the edits they may carry
    Reloads,        \* goroutines of the watcher's debounce timer
    FileDocs,       \* what the configuration file may hold
    EtcdDocs,       \* what etcd may hold; empty when etcd is not configured
    NoFile,         \* the file does not exist
    EnvLimit,       \* NEXUSGATE_RATELIMIT_RPS; 0 when it is not set
    MaxEdits,       \* bound: dashboard requests
    MaxWrites,      \* bound: writes of the file
    MaxKeys         \* bound: writes of the etcd key

ASSUME StoreAssumption ==
    /\ MaxEdits \in Nat /\ MaxWrites \in Nat /\ MaxKeys \in Nat /\ EnvLimit \in Nat
    /\ Handlers \cap Reloads = {}
    /\ \A d \in FileDocs \ {NoFile} : DOMAIN d = {"routes", "tenants", "limit", "level"}

VARIABLES
    dirty, clean,   \* Store.dirty, Store.clean
    table,          \* the configuration the router's routes were built from
    limiter,        \* the limit the rate limiter applies
    pc,             \* next step of a handler or of a reload
    stamp,          \* the write a handler made, or a reload makes (history)
    snap,           \* the configuration a handler or reload has in hand
    file, event,    \* the file; an fsnotify event is waiting
    timer,          \* the debounce timer runs
    etcd, notice,   \* the etcd key; a watch response is waiting
    epc, edoc,      \* next step of the etcd watch; the document it fetched
    requests, writes, keys,     \* counters for the bounds
    acked,          \* history: writes whose author has committed
    committed,      \* history: writes that were part of clean at some time
    overwritten,    \* history: writes a whole document or a Rollback replaced
    torn,           \* history: dirty was written between Load's unlocked writes
    solo            \* history: the writers came one at a time, none was etcd

storeVars == <<dirty, clean>>
gateVars == <<table, limiter>>
fileVars == <<file, event, timer, writes>>
etcdVars == <<etcd, notice, epc, edoc, keys>>
procVars == <<pc, stamp, snap, requests>>
histVars == <<acked, committed, overwritten, torn, solo>>
vars == <<storeVars, gateVars, fileVars, etcdVars, procVars, histVars>>

Default == [routes |-> <<>>, tenants |-> <<>>, limit |-> 0, level |-> "good"]
Config(doc, from) ==
    [routes |-> doc.routes, tenants |-> doc.tenants, limit |-> doc.limit, level |-> doc.level,
     from |-> from]

Content(cfg) == [cfg EXCEPT !.from = {}]

\* Variables of the environment replace what the file says, before validation.
applyEnvOverrides(doc) == IF EnvLimit = 0 THEN doc ELSE [doc EXCEPT !.limit = EnvLimit]

HasBackends(cfg) == \A i \in 1..Len(cfg.routes) : cfg.routes[i].backends # <<>>
validateConfig(cfg) == cfg.level = "good" /\ HasBackends(cfg)
validateConfigFromDashboard(cfg) == cfg.level # "bad" /\ HasBackends(cfg)

\* A stamp nobody has used: requests are 1, 2, ..., file writes and etcd
\* documents count from there on.
RequestStamp == requests + 1
FileStamp == MaxEdits + writes
EtcdStamp == MaxEdits + MaxWrites + keys

Init ==
    /\ file \in {d \in FileDocs \ {NoFile} : validateConfig(d)}
    /\ dirty = Config(applyEnvOverrides(file), {}) /\ clean = dirty
    /\ table = clean /\ limiter = clean.limit
    /\ pc = [p \in Handlers \cup Reloads |-> "idle"]
    /\ stamp = [p \in Handlers \cup Reloads |-> 0]
    /\ snap = [p \in Handlers \cup Reloads |-> Default]
    /\ event = FALSE /\ timer = FALSE
    /\ etcd = Default /\ notice = FALSE /\ epc = "idle" /\ edoc = Default
    /\ requests = 0 /\ writes = 0 /\ keys = 0
    /\ acked = {} /\ committed = {} /\ overwritten = {} /\ torn = FALSE /\ solo = TRUE

-----------------------------------------------------------------------------
(* The store                                                               *)

InRange(e, cfg) == e.idx \in 1..Len(cfg.routes)

(* What fn of Update does to the copy, by handler.                         *)

createRoute(e, cfg) == [cfg EXCEPT !.routes = Append(@, e.route)]

updateRoute(e, cfg) == IF InRange(e, cfg) THEN [cfg EXCEPT !.routes[e.idx] = e.route] ELSE cfg

deleteRoute(e, cfg) == IF InRange(e, cfg) THEN [cfg EXCEPT !.routes = RemoveAt(@, e.idx)] ELSE cfg

addBackend(e, cfg) ==
    IF InRange(e, cfg) THEN [cfg EXCEPT !.routes[e.idx].backends = Append(@, e.addr)] ELSE cfg

removeBackend(e, cfg) ==
    IF InRange(e, cfg) THEN [cfg EXCEPT !.routes[e.idx].backends = RemoveFirst(@, e.addr)] ELSE cfg

handleRateLimit(e, cfg) == [cfg EXCEPT !.limit = e.limit]

\* A new tenant is appended even if there is one with its id; its rate is
\* filled in when missing.
createTenant(e, cfg) ==
    [cfg EXCEPT !.tenants = Append(@, [id |-> e.id, rps |-> IF e.rps > 0 THEN e.rps ELSE 100])]

\* The first tenant with the id, if any, is replaced as the body says ...
updateTenant(e, cfg) ==
    [cfg EXCEPT !.tenants =
        LET i == SelectInSeq(@, LAMBDA t : t.id = e.id)
        IN  IF i = 0 THEN @ ELSE [@ EXCEPT ![i] = [id |-> e.id, rps |-> e.rps]]]

\* ... or removed.
deleteTenant(e, cfg) ==
    [cfg EXCEPT !.tenants =
        LET i == SelectInSeq(@, LAMBDA t : t.id = e.id) IN IF i = 0 THEN @ ELSE RemoveAt(@, i)]

Apply(e, cfg) ==
    CASE e.kind = "config" -> Config(e.doc, {})
      [] e.kind = "createRoute" -> createRoute(e, cfg)
      [] e.kind = "updateRoute" -> updateRoute(e, cfg)
      [] e.kind = "deleteRoute" -> deleteRoute(e, cfg)
      [] e.kind = "addBackend" -> addBackend(e, cfg)
      [] e.kind = "removeBackend" -> removeBackend(e, cfg)
      [] e.kind = "rateLimit" -> handleRateLimit(e, cfg)
      [] e.kind = "createTenant" -> createTenant(e, cfg)
      [] e.kind = "updateTenant" -> updateTenant(e, cfg)
      [] OTHER -> deleteTenant(e, cfg)

Stamped(cfg, s) == [cfg EXCEPT !.from = @ \cup {s}]

\* History of a document taking the place of the configurations in S.
Replaces(S) == overwritten' = overwritten \cup UNION {cfg.from : cfg \in S}

\* History of what clean becomes.
Publishes(cfg) == committed' = committed \cup cfg.from

\* Mutant: Update copies the committed buffer.
Update_FromClean(e, s) ==
    /\ dirty' = Stamped(Apply(e, clean), s)
    /\ Replaces(IF e.kind = "config" THEN {dirty} ELSE {})
    /\ UNCHANGED <<clean, committed>>

Update(e, s) ==
    /\ dirty' = Stamped(Apply(e, dirty), s)
    /\ Replaces(IF e.kind = "config" THEN {dirty} ELSE {})
    /\ UNCHANGED <<clean, committed>>

Commit ==
    /\ clean' = dirty
    /\ Publishes(dirty)
    /\ UNCHANGED <<dirty, overwritten>>

\* Mutant: the etcd watch returns on an invalid document without Rollback.
Rollback_Skipped ==
    UNCHANGED <<storeVars, committed, overwritten>>

Rollback ==
    /\ dirty' = clean
    /\ overwritten' = overwritten \cup (dirty.from \ clean.from)
    /\ UNCHANGED <<clean, committed>>

\* The end of Load: both buffers, in one critical section.
Install(doc, s) ==
    /\ dirty' = Stamped(Config(doc, {}), s)
    /\ clean' = dirty'
    /\ Replaces({dirty, clean}) /\ Publishes(dirty')

\* Some goroutine, or the etcd watch, is between two of its steps.
Busy == epc # "idle" \/ \E p \in Handlers \cup Reloads : pc[p] # "idle"

-----------------------------------------------------------------------------
(* Dashboard handlers                                                      *)

\* The checks a handler makes of its body; the others take any.
Accepted(e) ==
    /\ e.kind = "createRoute" => e.route.backends # <<>>
    /\ e.kind = "config" => validateConfigFromDashboard(e.doc)

NoReload == {"rateLimit", "createTenant", "updateTenant", "deleteTenant"}

\* handleRateLimit and the tenant handlers never call reloadRouter; updateRoute and deleteRoute do
\* not when the index is out of range.
CallsReload(e, cfg) ==
    /\ e.kind \notin NoReload
    /\ e.kind \in {"updateRoute", "deleteRoute"} => InRange(e, cfg)

HandlerUpdate(h) ==
    /\ pc[h] = "idle" /\ requests < MaxEdits
    /\ \E e \in Edits :
        /\ Accepted(e)
        /\ Update(e, RequestStamp)
        /\ pc' = [pc EXCEPT ![h] = IF CallsReload(e, dirty) THEN "commit" ELSE "commitOnly"]
    /\ stamp' = [stamp EXCEPT ![h] = RequestStamp]
    /\ requests' = requests + 1
    /\ solo' = (solo /\ ~Busy)
    /\ UNCHANGED <<gateVars, fileVars, etcdVars, snap, acked, torn>>

HandlerCommit(h) ==
    /\ pc[h] \in {"commit", "commitOnly"}
    /\ Commit
    /\ pc' = [pc EXCEPT ![h] = IF @ = "commit" THEN "get" ELSE "idle"]
    /\ acked' = acked \cup {stamp[h]}
    /\ stamp' = [stamp EXCEPT ![h] = 0]
    /\ UNCHANGED <<gateVars, fileVars, etcdVars, snap, requests, torn, solo>>

\* Mutant: reloadRouter builds the table from the uncommitted buffer.
ReloadRouterGet_Dirty(h) ==
    /\ pc[h] = "get"
    /\ snap' = [snap EXCEPT ![h] = dirty]
    /\ pc' = [pc EXCEPT ![h] = "swap"]
    /\ UNCHANGED <<storeVars, gateVars, fileVars, etcdVars, stamp, requests, histVars>>

\* reloadRouter: s.store.Get() and the building of the new router ...
ReloadRouterGet(h) ==
    /\ pc[h] = "get"
    /\ snap' = [snap EXCEPT ![h] = clean]
    /\ pc' = [pc EXCEPT ![h] = "swap"]
    /\ UNCHANGED <<storeVars, gateVars, fileVars, etcdVars, stamp, requests, histVars>>

\* ... and SwapRoutes.
ReloadRouterSwap(h) ==
    /\ h \in Handlers /\ pc[h] = "swap"
    /\ table' = snap[h]
    /\ pc' = [pc EXCEPT ![h] = "idle"]
    /\ snap' = [snap EXCEPT ![h] = Default]
    /\ UNCHANGED <<storeVars, limiter, fileVars, etcdVars, stamp, requests, histVars>>

-----------------------------------------------------------------------------
(* The configuration file                                                  *)

\* Somebody writes, replaces or renames the file.
WriteFile ==
    /\ writes < MaxWrites
    /\ file' \in FileDocs \ {file}
    /\ event' = TRUE
    /\ writes' = writes + 1
    /\ UNCHANGED <<storeVars, gateVars, etcdVars, procVars, timer, histVars>>

\* watchLoop: an event stops the timer, if it has not fired, and starts it again.
WatchEvent ==
    /\ event
    /\ event' = FALSE /\ timer' = TRUE
    /\ UNCHANGED <<storeVars, gateVars, etcdVars, procVars, file, writes, histVars>>

\* The timer fires and reloadConfig runs in a goroutine of its own.
ReloadStart(r) ==
    /\ timer /\ pc[r] = "idle"
    /\ timer' = FALSE
    /\ pc' = [pc EXCEPT ![r] = "load"]
    /\ solo' = (solo /\ ~Busy)
    /\ UNCHANGED <<storeVars, gateVars, etcdVars, file, event, writes, stamp, snap, requests,
                   acked, committed, overwritten, torn>>

\* Load reads and validates the file; an invalid one is reported and dropped.
ReloadRead(r) ==
    /\ pc[r] = "load"
    /\ \/ /\ file = NoFile
          /\ pc' = [pc EXCEPT ![r] = "defaultDirty"]
          /\ UNCHANGED <<snap, stamp>>
       \/ /\ file # NoFile
          /\ \/ /\ ~validateConfig(file)
                /\ pc' = [pc EXCEPT ![r] = "idle"]
                /\ UNCHANGED <<snap, stamp>>
             \/ /\ validateConfig(file)
                /\ snap' = [snap EXCEPT ![r] = applyEnvOverrides(file)]
                /\ stamp' = [stamp EXCEPT ![r] = FileStamp]
                /\ pc' = [pc EXCEPT ![r] = "install"]
    /\ UNCHANGED <<storeVars, gateVars, fileVars, etcdVars, requests, histVars>>

ReloadInstall(r) ==
    /\ pc[r] = "install"
    /\ Install(snap[r], stamp[r])
    /\ pc' = [pc EXCEPT ![r] = "getNew"]
    /\ stamp' = [stamp EXCEPT ![r] = 0]
    /\ snap' = [snap EXCEPT ![r] = Default]
    /\ UNCHANGED <<gateVars, fileVars, etcdVars, requests, acked, torn, solo>>

\* No file: the defaults are stored in dirty, then in clean, without the lock.
ReloadDefaultDirty(r) ==
    /\ pc[r] = "defaultDirty"
    /\ dirty' = Config(Default, {})
    /\ Replaces({dirty})
    /\ pc' = [pc EXCEPT ![r] = "defaultClean"]
    /\ UNCHANGED <<clean, gateVars, fileVars, etcdVars, stamp, snap, requests,
                   acked, committed, torn, solo>>

ReloadDefaultClean(r) ==
    /\ pc[r] = "defaultClean"
    /\ clean' = Config(Default, {})
    /\ Replaces({clean})
    /\ pc' = [pc EXCEPT ![r] = "getNew"]
    /\ torn' = (torn \/ Content(dirty) # Content(Config(Default, {})))
    /\ UNCHANGED <<dirty, gateVars, fileVars, etcdVars, stamp, snap, requests,
                   acked, committed, solo>>

\* newCfg := fw.store.Get(), then the callback: the table, then the limiter.
ReloadGet(r) ==
    /\ pc[r] = "getNew"
    /\ snap' = [snap EXCEPT ![r] = clean]
    /\ pc' = [pc EXCEPT ![r] = "callback"]
    /\ UNCHANGED <<storeVars, gateVars, fileVars, etcdVars, stamp, requests, histVars>>

ReloadSwap(r) ==
    /\ pc[r] = "callback"
    /\ table' = snap[r]
    /\ pc' = [pc EXCEPT ![r] = "limits"]
    /\ UNCHANGED <<storeVars, limiter, fileVars, etcdVars, stamp, snap, requests, histVars>>

ReloadLimits(r) ==
    /\ pc[r] = "limits"
    /\ limiter' = snap[r].limit
    /\ pc' = [pc EXCEPT ![r] = "idle"]
    /\ snap' = [snap EXCEPT ![r] = Default]
    /\ UNCHANGED <<storeVars, table, fileVars, etcdVars, stamp, requests, histVars>>

-----------------------------------------------------------------------------
(* The etcd watch                                                          *)

PutKey ==
    /\ keys < MaxKeys
    /\ etcd' \in EtcdDocs \ {etcd}
    /\ notice' = TRUE
    /\ keys' = keys + 1
    /\ UNCHANGED <<storeVars, gateVars, fileVars, procVars, epc, edoc, histVars>>

\* A watch response: Load fetches the key.
EtcdFetch ==
    /\ epc = "idle" /\ notice
    /\ notice' = FALSE
    /\ edoc' = etcd
    /\ epc' = "update"
    /\ solo' = FALSE
    /\ UNCHANGED <<storeVars, gateVars, fileVars, procVars, etcd, keys, acked,
                   committed, overwritten, torn>>

EtcdUpdate ==
    /\ epc = "update"
    /\ Update([kind |-> "config", doc |-> edoc], EtcdStamp)
    /\ epc' = "validate"
    /\ UNCHANGED <<gateVars, fileVars, procVars, etcd, notice, edoc, keys,
                   acked, torn, solo>>

\* Mutant: the watch commits without looking at validateConfig's answer.
EtcdFinish_Unchecked ==
    /\ epc = "validate"
    /\ Commit
    /\ epc' = "idle" /\ edoc' = Default
    /\ UNCHANGED <<gateVars, fileVars, procVars, etcd, notice, keys, acked, torn, solo>>

\* The document is validated only now, when it is already in dirty.
EtcdFinish ==
    /\ epc = "validate"
    /\ IF validateConfig(edoc) THEN Commit ELSE Rollback
    /\ epc' = "idle" /\ edoc' = Default
    /\ UNCHANGED <<gateVars, fileVars, procVars, etcd, notice, keys, acked, torn, solo>>

-----------------------------------------------------------------------------
HandlerStep(h) == HandlerUpdate(h) \/ HandlerCommit(h) \/ ReloadRouterGet(h) \/ ReloadRouterSwap(h)
ReloadStep(r) ==
    \/ ReloadStart(r) \/ ReloadRead(r) \/ ReloadInstall(r)
    \/ ReloadDefaultDirty(r) \/ ReloadDefaultClean(r)
    \/ ReloadGet(r) \/ ReloadSwap(r) \/ ReloadLimits(r)
EtcdStep == EtcdFetch \/ EtcdUpdate \/ EtcdFinish

Next ==
    \/ \E h \in Handlers : HandlerStep(h)
    \/ WriteFile \/ WatchEvent
    \/ \E r \in Reloads : ReloadStep(r)
    \/ PutKey \/ EtcdStep

Spec == Init /\ [][Next]_vars

-----------------------------------------------------------------------------
(* Properties                                                              *)

AtRest ==
    /\ \A p \in Handlers \cup Reloads : pc[p] = "idle"
    /\ ~event /\ ~timer /\ ~notice /\ epc = "idle"

\* A dashboard edit that was answered with success is part of the committed
\* configuration unless a whole document or a Rollback took its place: of the
\* handlers that edit routes, backends, tenants or the limit, none undoes
\* another, however their Updates and Commits interleave.  Load, the etcd
\* watch and PUT /api/v1/config do replace an edit, also one that waits for
\* its Commit: such an edit is never published, and its handler answers
\* success all the same.
AckedEditsKept == acked \subseteq clean.from \cup overwritten

\* When no writer is at work, nothing is left in the dirty buffer that the
\* committed one does not have, and that the next edit would publish unasked
\* (unless Load found no file and was overtaken between its unlocked writes).
InSyncAtRest == AtRest /\ ~torn => Content(dirty) = Content(clean)

\* File and etcd alone never make Get return what validateConfig refuses.
CleanIsValid == requests = 0 => validateConfig(clean)

\* When no writer is at work the router serves the committed routes, if the
\* writers did not overlap (reloadRouter and the watcher's callback read the
\* store some time before they swap) and etcd, which has no callback, did not
\* write.
RouterInSyncAtRest == AtRest /\ solo => table.routes = clean.routes

\* The router never serves a write before it is committed: what Update leaves
\* in the dirty buffer is not visible through a concurrent reloadRouter.
RouterServesCommitted == table.from \subseteq committed

\* When no writer is at work the three copies of the configuration agree: dirty
\* and clean buffer, and the router's table (Commit, Load, reloadRouter).
SyncedAtRest == InSyncAtRest /\ RouterInSyncAtRest
=============================================================================
