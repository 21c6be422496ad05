------------------------- MODULE ConfigStoreProofs -------------------------
(***************************************************************************)
(* No edit undoes an acknowledged one, and nothing uncommitted is served,  *)
(* for any number of requests, reloads and documents.                      *)
(***************************************************************************)
EXTENDS ConfigStore, TLAPS

Fields == {"routes", "tenants", "limit", "level", "from"}
Shape(c) == DOMAIN c = Fields

\* The buffers and the router's source are configurations; the programs'
\* counters are functions on their goroutines.
Shapes ==
    /\ Shape(dirty) /\ Shape(clean)
    /\ DOMAIN pc = Handlers \cup Reloads
    /\ DOMAIN stamp = Handlers \cup Reloads
    /\ DOMAIN snap = Handlers \cup Reloads

\* A handler between Update and Commit.
Uncommitted(h) == pc[h] \in {"commit", "commitOnly"}

\* A handler or reload that has read the store and not yet swapped.
HasSnapshot(p) == pc[p] \in {"swap", "callback"}

\* What clean is made of is in dirty too, because Update starts from dirty,
\* or was overwritten there; so is an edit between Update and Commit; what
\* clean is made of, and what was read from it, is committed.
Lineage ==
    /\ clean.from \subseteq dirty.from \cup overwritten
    /\ \A h \in Handlers : Uncommitted(h) => stamp[h] \in dirty.from \cup overwritten
    /\ clean.from \subseteq committed
    /\ \A p \in Handlers \cup Reloads : HasSnapshot(p) => snap[p].from \subseteq committed

IInv == Shapes /\ Lineage /\ AckedEditsKept /\ RouterServesCommitted

\* An edit keeps the history of the configuration it changes; a whole document
\* has none.
LEMMA ApplyFrom ==
    ASSUME NEW e, NEW cfg, Shape(cfg)
    PROVE  /\ Shape(Apply(e, cfg))
           /\ Apply(e, cfg).from = IF e.kind = "config" THEN {} ELSE cfg.from
BY DEF Apply, Shape, Fields, Config, createRoute, updateRoute, deleteRoute, addBackend, removeBackend,
       handleRateLimit, createTenant, updateTenant, deleteTenant

LEMMA StampedFrom ==
    ASSUME NEW cfg, NEW s, Shape(cfg)
    PROVE  Shape(Stamped(cfg, s)) /\ Stamped(cfg, s).from = cfg.from \cup {s}
BY DEF Stamped, Shape, Fields

LEMMA ConfigFrom ==
    ASSUME NEW doc, NEW from
    PROVE  Shape(Config(doc, from)) /\ Config(doc, from).from = from
BY DEF Config, Shape, Fields

LEMMA InitIInv == Init => IInv
BY ConfigFrom DEF Init, IInv, Shapes, Lineage, Uncommitted, HasSnapshot, AckedEditsKept, RouterServesCommitted

LEMMA NextIInv ==
    ASSUME IInv, [Next]_vars
    PROVE  IInv'
<1> USE DEF IInv, Shapes, Lineage, Uncommitted, HasSnapshot, AckedEditsKept, RouterServesCommitted
<1> USE DEF storeVars, gateVars, fileVars, etcdVars, procVars, histVars
<1>1. ASSUME NEW h \in Handlers, HandlerUpdate(h) PROVE IInv'
  <2>1. PICK e \in Edits :
            /\ dirty' = Stamped(Apply(e, dirty), RequestStamp)
            /\ Replaces(IF e.kind = "config" THEN {dirty} ELSE {})
            /\ pc' = [pc EXCEPT ![h] = IF CallsReload(e, dirty) THEN "commit" ELSE "commitOnly"]
    BY <1>1 DEF HandlerUpdate, Update
  <2>2. /\ Shape(dirty') /\ RequestStamp \in dirty'.from
        /\ dirty.from \subseteq dirty'.from \cup overwritten'
        /\ overwritten \subseteq overwritten'
    BY <2>1, ApplyFrom, StampedFrom DEF Replaces
  <2>3. /\ UNCHANGED <<clean, table, limiter, snap, acked, committed>>
        /\ stamp' = [stamp EXCEPT ![h] = RequestStamp]
    BY <1>1 DEF HandlerUpdate, Update
  <2> QED
    BY <2>1, <2>2, <2>3 DEF Shape
<1>2. ASSUME NEW h \in Handlers, HandlerCommit(h) PROVE IInv'
  BY <1>2 DEF HandlerCommit, Commit, Publishes, Shape
<1>3. ASSUME NEW h \in Handlers, ReloadRouterGet(h) PROVE IInv'
  BY <1>3 DEF ReloadRouterGet, Shape
<1>4. ASSUME NEW h \in Handlers, ReloadRouterSwap(h) PROVE IInv'
  BY <1>4 DEF ReloadRouterSwap, Shape
<1>5. CASE WriteFile
  BY <1>5 DEF WriteFile, Shape
<1>6. CASE WatchEvent
  BY <1>6 DEF WatchEvent, Shape
<1>7. ASSUME NEW r \in Reloads, ReloadStart(r) PROVE IInv'
  BY <1>7 DEF ReloadStart, Shape
<1>8. ASSUME NEW r \in Reloads, ReloadRead(r) PROVE IInv'
  BY <1>8, StoreAssumption DEF ReloadRead, Shape
<1>9. ASSUME NEW r \in Reloads, ReloadInstall(r) PROVE IInv'
  <2>1. /\ dirty' = Stamped(Config(snap[r], {}), stamp[r])
        /\ clean' = dirty'
    BY <1>9 DEF ReloadInstall, Install
  <2>2. Shape(dirty') /\ Shape(clean')
    BY <2>1, ConfigFrom, StampedFrom
  <2>3. /\ overwritten' = overwritten \cup dirty.from \cup clean.from
        /\ committed' = committed \cup dirty'.from
    BY <1>9 DEF ReloadInstall, Install, Replaces, Publishes
  <2> QED
    BY <1>9, <2>1, <2>2, <2>3 DEF ReloadInstall, Shape
<1>10. ASSUME NEW r \in Reloads, ReloadDefaultDirty(r) PROVE IInv'
  <2>1. Shape(dirty') /\ overwritten' = overwritten \cup dirty.from
    BY <1>10, ConfigFrom DEF ReloadDefaultDirty, Replaces
  <2> QED
    BY <1>10, <2>1 DEF ReloadDefaultDirty, Shape
<1>11. ASSUME NEW r \in Reloads, ReloadDefaultClean(r) PROVE IInv'
  <2>1. Shape(clean') /\ clean'.from = {} /\ overwritten' = overwritten \cup clean.from
    BY <1>11, ConfigFrom DEF ReloadDefaultClean, Replaces
  <2> QED
    BY <1>11, <2>1 DEF ReloadDefaultClean, Shape
<1>12. ASSUME NEW r \in Reloads, ReloadGet(r) PROVE IInv'
  BY <1>12 DEF ReloadGet, Shape
<1>13. ASSUME NEW r \in Reloads, ReloadSwap(r) PROVE IInv'
  BY <1>13 DEF ReloadSwap, Shape
<1>14. ASSUME NEW r \in Reloads, ReloadLimits(r) PROVE IInv'
  BY <1>14 DEF ReloadLimits, Shape
<1>15. CASE PutKey
  BY <1>15 DEF PutKey, Shape
<1>16. CASE EtcdFetch
  BY <1>16 DEF EtcdFetch, Shape
<1>17. CASE EtcdUpdate
  <2>1. dirty' = Stamped(Apply([kind |-> "config", doc |-> edoc], dirty), EtcdStamp)
    BY <1>17 DEF EtcdUpdate, Update
  <2>2. Shape(dirty') /\ overwritten' = overwritten \cup dirty.from
    BY <1>17, <2>1, ApplyFrom, StampedFrom DEF EtcdUpdate, Update, Replaces
  <2> QED
    BY <1>17, <2>2 DEF EtcdUpdate, Update, Shape
<1>18. CASE EtcdFinish
  <2>1. CASE validateConfig(edoc)
    BY <1>18, <2>1 DEF EtcdFinish, Commit, Publishes, Shape
  <2>2. CASE ~validateConfig(edoc)
    BY <1>18, <2>2 DEF EtcdFinish, Rollback, Shape
  <2> QED
    BY <2>1, <2>2
<1>19. CASE UNCHANGED vars
  BY <1>19 DEF vars, Shape
<1> QED
  BY <1>1, <1>2, <1>3, <1>4, <1>5, <1>6, <1>7, <1>8, <1>9, <1>10, <1>11, <1>12,
     <1>13, <1>14, <1>15, <1>16, <1>17, <1>18, <1>19
  DEF Next, HandlerStep, ReloadStep, EtcdStep

\* An edit the dashboard acknowledged is part of the committed configuration
\* unless a whole document or a Rollback took its place, for every number of
\* requests and reloads: the Updates and Commits of other edits never undo it.
THEOREM NoAckedEditLost ==
    Spec => []AckedEditsKept
<1>1. IInv /\ [Next]_vars => IInv'
  BY NextIInv
<1>2. IInv => AckedEditsKept
  BY DEF IInv
<1> QED
  BY InitIInv, <1>1, <1>2, PTL DEF Spec

\* reloadRouter and the hot-reload callback serve committed writes only.
THEOREM OnlyCommittedServed ==
    Spec => []RouterServesCommitted
<1>1. IInv /\ [Next]_vars => IInv'
  BY NextIInv
<1>2. IInv => RouterServesCommitted
  BY DEF IInv
<1> QED
  BY InitIInv, <1>1, <1>2, PTL DEF Spec

-----------------------------------------------------------------------------
(* The buffers and the router's table agree at rest                        *)

\* Somebody has written dirty and not finished: a handler before its Commit,
\* the etcd watch before its validation, Load between its unlocked writes.
Unfinished ==
    \/ epc = "validate"
    \/ \E h \in Handlers : Uncommitted(h)
    \/ \E r \in Reloads : pc[r] = "defaultClean"

\* Unless such a write is open, or Load was overtaken, the buffers agree.
Agree == torn \/ Unfinished \/ Content(dirty) = Content(clean)

\* Whoever has changed the committed routes and not yet swapped the table.
Behind(p) == pc[p] \in {"get", "swap", "getNew", "callback"}

\* While the writers come one at a time, at most one is at work, the table is
\* behind the committed routes only while that one has yet to swap it, and
\* dirty's routes are ahead only until its Commit or its second write; the
\* edits that do not call reloadRouter leave the routes alone.
OneAtATime ==
    /\ epc = "idle"
    /\ \A p, q \in Handlers \cup Reloads : pc[p] # "idle" /\ pc[q] # "idle" => p = q
    /\ (\A p \in Handlers \cup Reloads : ~Behind(p)) => table.routes = clean.routes
    /\ (\A p \in Handlers \cup Reloads : pc[p] \notin {"commit", "defaultClean"})
            => dirty.routes = clean.routes
    /\ \A p \in Handlers \cup Reloads :
        /\ HasSnapshot(p) => snap[p].routes = clean.routes
        /\ pc[p] = "defaultClean" => dirty.routes = <<>>

RestInv == Agree /\ (solo => OneAtATime)

\* An edit that does not call reloadRouter does not change the routes.
LEMMA QuietEdit ==
    ASSUME NEW e, NEW cfg, Shape(cfg), ~CallsReload(e, cfg)
    PROVE  Apply(e, cfg).routes = cfg.routes
BY DEF CallsReload, NoReload, Apply, Shape, Fields, InRange, updateRoute, deleteRoute,
       handleRateLimit, createTenant, updateTenant, deleteTenant

LEMMA StampedRoutes ==
    ASSUME NEW cfg, NEW s, Shape(cfg)
    PROVE  Stamped(cfg, s).routes = cfg.routes
BY DEF Stamped, Shape, Fields

\* Content does not see the history.
LEMMA ContentConfig ==
    ASSUME NEW doc, NEW from
    PROVE  Content(Config(doc, from)) = Content(Config(doc, {}))
BY DEF Content, Config

LEMMA InitRestInv == Init => RestInv
BY InitIInv DEF Init, IInv, RestInv, Agree, OneAtATime, HasSnapshot

LEMMA NextAgree ==
    ASSUME IInv, Agree, [Next]_vars
    PROVE  Agree'
<1> USE DEF IInv, Shapes, Agree, Unfinished, Uncommitted
<1> USE DEF storeVars, gateVars, fileVars, etcdVars, procVars, histVars
<1>1. ASSUME NEW h \in Handlers, HandlerUpdate(h) PROVE Agree'
  <2>1. pc'[h] \in {"commit", "commitOnly"}
    BY <1>1 DEF HandlerUpdate
  <2> QED
    BY <2>1
<1>2. ASSUME NEW h \in Handlers, HandlerCommit(h) PROVE Agree'
  BY <1>2 DEF HandlerCommit, Commit
<1>3. ASSUME NEW h \in Handlers, ReloadRouterGet(h) PROVE Agree'
  BY <1>3 DEF ReloadRouterGet
<1>4. ASSUME NEW h \in Handlers, ReloadRouterSwap(h) PROVE Agree'
  BY <1>4 DEF ReloadRouterSwap
<1>5. CASE WriteFile \/ WatchEvent \/ PutKey
  BY <1>5 DEF WriteFile, WatchEvent, PutKey
<1>6. ASSUME NEW r \in Reloads, ReloadStart(r) PROVE Agree'
  BY <1>6 DEF ReloadStart
<1>7. ASSUME NEW r \in Reloads, ReloadRead(r) PROVE Agree'
  BY <1>7 DEF ReloadRead
<1>8. ASSUME NEW r \in Reloads, ReloadInstall(r) PROVE Agree'
  BY <1>8 DEF ReloadInstall, Install
<1>9. ASSUME NEW r \in Reloads, ReloadDefaultDirty(r) PROVE Agree'
  BY <1>9 DEF ReloadDefaultDirty
<1>10. ASSUME NEW r \in Reloads, ReloadDefaultClean(r) PROVE Agree'
  <2>1. Content(clean') = Content(Config(Default, {}))
    BY <1>10, ContentConfig DEF ReloadDefaultClean
  <2>2. torn' \/ Content(dirty') = Content(Config(Default, {}))
    BY <1>10 DEF ReloadDefaultClean
  <2> QED
    BY <2>1, <2>2
<1>11. ASSUME NEW r \in Reloads, ReloadGet(r) PROVE Agree'
  BY <1>11 DEF ReloadGet
<1>12. ASSUME NEW r \in Reloads, ReloadSwap(r) PROVE Agree'
  BY <1>12 DEF ReloadSwap
<1>13. ASSUME NEW r \in Reloads, ReloadLimits(r) PROVE Agree'
  BY <1>13 DEF ReloadLimits
<1>14. CASE EtcdFetch
  BY <1>14 DEF EtcdFetch
<1>15. CASE EtcdUpdate
  BY <1>15 DEF EtcdUpdate
<1>16. CASE EtcdFinish
  <2>1. CASE validateConfig(edoc)
    BY <1>16, <2>1 DEF EtcdFinish, Commit
  <2>2. CASE ~validateConfig(edoc)
    BY <1>16, <2>2 DEF EtcdFinish, Rollback
  <2> QED
    BY <2>1, <2>2
<1>17. CASE UNCHANGED vars
  BY <1>17 DEF vars
<1> QED
  BY <1>1, <1>2, <1>3, <1>4, <1>5, <1>6, <1>7, <1>8, <1>9, <1>10, <1>11, <1>12,
     <1>13, <1>14, <1>15, <1>16, <1>17
  DEF Next, HandlerStep, ReloadStep, EtcdStep

LEMMA NextOneAtATime ==
    ASSUME IInv, Agree, solo => OneAtATime, [Next]_vars
    PROVE  (solo => OneAtATime)'
<1> SUFFICES ASSUME solo' PROVE OneAtATime'
  OBVIOUS
<1> USE DEF Behind, HasSnapshot
<1> USE DEF storeVars, gateVars, fileVars, etcdVars, procVars, histVars
<1> DEFINE Procs == Handlers \cup Reloads
<1>s. Shapes
  BY DEF IInv
<1>1. ASSUME NEW h \in Handlers, HandlerUpdate(h) PROVE OneAtATime'
  <2>1. solo /\ OneAtATime /\ \A p \in Procs : pc[p] = "idle"
    BY <1>1 DEF HandlerUpdate, Busy
  <2>2. table.routes = clean.routes /\ dirty.routes = clean.routes
    BY <2>1 DEF OneAtATime
  <2>3. PICK e \in Edits :
            /\ dirty' = Stamped(Apply(e, dirty), RequestStamp)
            /\ pc' = [pc EXCEPT ![h] = IF CallsReload(e, dirty) THEN "commit" ELSE "commitOnly"]
    BY <1>1 DEF HandlerUpdate, Update
  <2>4. dirty'.routes = Apply(e, dirty).routes
    BY <1>s, <2>3, ApplyFrom, StampedRoutes DEF Shapes
  <2>5. pc'[h] = "commit" \/ (pc'[h] = "commitOnly" /\ dirty'.routes = dirty.routes)
    BY <1>s, <2>3, <2>4, QuietEdit DEF Shapes
  <2>6. \A p \in Procs : p # h => pc'[p] = "idle"
    BY <1>s, <2>1, <2>3 DEF Shapes
  <2>7. UNCHANGED <<clean, table, snap, epc>>
    BY <1>1 DEF HandlerUpdate, Update
  <2> QED
    BY <2>1, <2>2, <2>5, <2>6, <2>7 DEF OneAtATime
<1>2. ASSUME NEW h \in Handlers, HandlerCommit(h) PROVE OneAtATime'
  <2>1. /\ OneAtATime /\ clean' = dirty /\ dirty' = dirty /\ UNCHANGED <<table, snap, epc>>
        /\ pc[h] \in {"commit", "commitOnly"}
        /\ pc' = [pc EXCEPT ![h] = IF @ = "commit" THEN "get" ELSE "idle"]
    BY <1>2 DEF HandlerCommit, Commit
  <2>2. \A p \in Procs : p # h => pc[p] = "idle" /\ pc'[p] = "idle"
    BY <1>s, <2>1 DEF OneAtATime, Shapes
  <2>3. pc'[h] = IF pc[h] = "commit" THEN "get" ELSE "idle"
    BY <1>s, <2>1 DEF Shapes
  <2>4. pc[h] = "commitOnly" => dirty.routes = clean.routes /\ table.routes = clean.routes
    BY <2>1, <2>2 DEF OneAtATime
  <2> QED
    BY <2>1, <2>2, <2>3, <2>4 DEF OneAtATime
<1>3. ASSUME NEW h \in Handlers, ReloadRouterGet(h) PROVE OneAtATime'
  BY <1>s, <1>3 DEF ReloadRouterGet, OneAtATime, Shapes
<1>4. ASSUME NEW h \in Handlers, ReloadRouterSwap(h) PROVE OneAtATime'
  BY <1>s, <1>4 DEF ReloadRouterSwap, OneAtATime, Shapes
<1>5. CASE WriteFile \/ WatchEvent \/ PutKey
  BY <1>5 DEF WriteFile, WatchEvent, PutKey, OneAtATime
<1>6. ASSUME NEW r \in Reloads, ReloadStart(r) PROVE OneAtATime'
  BY <1>s, <1>6 DEF ReloadStart, Busy, OneAtATime, Shapes
<1>7. ASSUME NEW r \in Reloads, ReloadRead(r) PROVE OneAtATime'
  BY <1>s, <1>7 DEF ReloadRead, OneAtATime, Shapes
<1>8. ASSUME NEW r \in Reloads, ReloadInstall(r) PROVE OneAtATime'
  BY <1>s, <1>8 DEF ReloadInstall, Install, OneAtATime, Shapes
<1>9. ASSUME NEW r \in Reloads, ReloadDefaultDirty(r) PROVE OneAtATime'
  <2>1. dirty'.routes = <<>>
    BY <1>9 DEF ReloadDefaultDirty, Config, Default
  <2> QED
    BY <1>s, <1>9, <2>1 DEF ReloadDefaultDirty, OneAtATime, Shapes
<1>10. ASSUME NEW r \in Reloads, ReloadDefaultClean(r) PROVE OneAtATime'
  <2>1. clean'.routes = <<>>
    BY <1>10 DEF ReloadDefaultClean, Config, Default
  <2> QED
    BY <1>s, <1>10, <2>1 DEF ReloadDefaultClean, OneAtATime, Shapes
<1>11. ASSUME NEW r \in Reloads, ReloadGet(r) PROVE OneAtATime'
  BY <1>s, <1>11 DEF ReloadGet, OneAtATime, Shapes
<1>12. ASSUME NEW r \in Reloads, ReloadSwap(r) PROVE OneAtATime'
  BY <1>s, <1>12 DEF ReloadSwap, OneAtATime, Shapes
<1>13. ASSUME NEW r \in Reloads, ReloadLimits(r) PROVE OneAtATime'
  BY <1>s, <1>13 DEF ReloadLimits, OneAtATime, Shapes
<1>14. CASE EtcdFetch
  BY <1>14 DEF EtcdFetch
<1>15. CASE EtcdUpdate
  BY <1>15 DEF EtcdUpdate, OneAtATime
<1>16. CASE EtcdFinish
  BY <1>16 DEF EtcdFinish, OneAtATime
<1>17. CASE UNCHANGED vars
  BY <1>17 DEF vars, OneAtATime
<1> QED
  BY <1>1, <1>2, <1>3, <1>4, <1>5, <1>6, <1>7, <1>8, <1>9, <1>10, <1>11, <1>12,
     <1>13, <1>14, <1>15, <1>16, <1>17
  DEF Next, HandlerStep, ReloadStep, EtcdStep

\* Once every handler, reload and the etcd watch has finished, the dirty
\* buffer holds nothing the committed one does not, and the router serves the
\* committed routes, for every number of writers, however they interleaved:
\* the exceptions are the ones SyncedAtRest names.
THEOREM BuffersAndRouterAgree ==
    Spec => []SyncedAtRest
<1>1. IInv /\ RestInv /\ [Next]_vars => (IInv /\ RestInv)'
  BY NextIInv, NextAgree, NextOneAtATime DEF RestInv
<1>2. RestInv => SyncedAtRest
  BY DEF RestInv, Agree, Unfinished, Uncommitted, OneAtATime, Behind, AtRest, SyncedAtRest, InSyncAtRest, RouterInSyncAtRest
<1> QED
  BY InitIInv, InitRestInv, <1>1, <1>2, PTL DEF Spec

-----------------------------------------------------------------------------
(* What file and etcd install is valid                                     *)

\* Before the first dashboard request no handler is at work, a document that
\* waits to be installed has been validated, and dirty is invalid only while
\* it holds an etcd document that is about to be rolled back.
FileAndEtcdOnly ==
    /\ \A h \in Handlers : pc[h] = "idle"
    /\ \A r \in Reloads : pc[r] = "install" => validateConfig(snap[r])
    /\ validateConfig(clean)
    /\ validateConfig(dirty) \/ (epc = "validate" /\ ~validateConfig(edoc))

ValidInv == requests \in Nat /\ file \in FileDocs /\ (requests = 0 => FileAndEtcdOnly)

\* A configuration is as valid as the document it was made from, whatever
\* its history.
LEMMA ConfigValid ==
    ASSUME NEW doc, NEW from, NEW s
    PROVE  /\ validateConfig(Config(doc, from)) <=> validateConfig(doc)
           /\ validateConfig(Stamped(Config(doc, from), s)) <=> validateConfig(doc)
<1>1. /\ Config(doc, from).level = doc.level
      /\ Config(doc, from).routes = doc.routes
  BY DEF Config
<1>2. /\ Stamped(Config(doc, from), s).level = doc.level
      /\ Stamped(Config(doc, from), s).routes = doc.routes
  BY DEF Config, Stamped
<1> QED
  BY <1>1, <1>2 DEF validateConfig, HasBackends

\* The environment variables do not touch what validation looks at.
LEMMA OverridesValid ==
    ASSUME NEW d \in FileDocs \ {NoFile}
    PROVE  validateConfig(applyEnvOverrides(d)) <=> validateConfig(d)
<1>1. DOMAIN d = {"routes", "tenants", "limit", "level"}
  BY StoreAssumption
<1>2. applyEnvOverrides(d).level = d.level /\ applyEnvOverrides(d).routes = d.routes
  BY <1>1 DEF applyEnvOverrides
<1> QED
  BY <1>2 DEF validateConfig, HasBackends

LEMMA DefaultValid == validateConfig(Default)
BY DEF validateConfig, HasBackends, Default

LEMMA InitValidInv == Init => ValidInv
<1> SUFFICES ASSUME Init PROVE ValidInv
  OBVIOUS
<1>1. file \in FileDocs \ {NoFile} /\ validateConfig(file)
  BY DEF Init
<1>2. validateConfig(dirty) /\ clean = dirty
  BY <1>1, OverridesValid, ConfigValid DEF Init
<1>3. pc = [p \in Handlers \cup Reloads |-> "idle"] /\ requests = 0
  BY DEF Init
<1> QED
  BY <1>1, <1>2, <1>3 DEF ValidInv, FileAndEtcdOnly

LEMMA NextValidInv ==
    ASSUME IInv, ValidInv, [Next]_vars
    PROVE  ValidInv'
<1> USE DEF ValidInv, FileAndEtcdOnly
<1> USE DEF storeVars, gateVars, fileVars, etcdVars, procVars, histVars
<1>s. Shapes
  BY DEF IInv
<1>1. ASSUME NEW h \in Handlers, HandlerUpdate(h) PROVE ValidInv'
  BY <1>1 DEF HandlerUpdate
<1>2. ASSUME NEW h \in Handlers, HandlerCommit(h) PROVE ValidInv'
  BY <1>2 DEF HandlerCommit
<1>3. ASSUME NEW h \in Handlers, ReloadRouterGet(h) PROVE ValidInv'
  BY <1>3 DEF ReloadRouterGet
<1>4. ASSUME NEW h \in Handlers, ReloadRouterSwap(h) PROVE ValidInv'
  BY <1>4 DEF ReloadRouterSwap
<1>5. CASE WriteFile \/ WatchEvent \/ PutKey
  BY <1>5 DEF WriteFile, WatchEvent, PutKey
<1>6. ASSUME NEW r \in Reloads, ReloadStart(r) PROVE ValidInv'
  BY <1>s, <1>6, StoreAssumption DEF ReloadStart, Shapes
<1>7. ASSUME NEW r \in Reloads, ReloadRead(r) PROVE ValidInv'
  <2>1. CASE file = NoFile \/ ~validateConfig(file)
    BY <1>s, <1>7, <2>1, StoreAssumption DEF ReloadRead, Shapes
  <2>2. CASE file # NoFile /\ validateConfig(file)
    <3>1. validateConfig(applyEnvOverrides(file))
      BY <2>2, OverridesValid
    <3> QED
      BY <1>s, <1>7, <2>2, <3>1, StoreAssumption DEF ReloadRead, Shapes
  <2> QED
    BY <2>1, <2>2
<1>8. ASSUME NEW r \in Reloads, ReloadInstall(r) PROVE ValidInv'
  <2>1. requests = 0 => validateConfig(dirty') /\ validateConfig(clean')
    BY <1>8, ConfigValid DEF ReloadInstall, Install
  <2> QED
    BY <1>s, <1>8, <2>1, StoreAssumption DEF ReloadInstall, Shapes
<1>9. ASSUME NEW r \in Reloads, ReloadDefaultDirty(r) PROVE ValidInv'
  <2>1. validateConfig(dirty')
    BY <1>9, ConfigValid, DefaultValid DEF ReloadDefaultDirty
  <2> QED
    BY <1>s, <1>9, <2>1, StoreAssumption DEF ReloadDefaultDirty, Shapes
<1>10. ASSUME NEW r \in Reloads, ReloadDefaultClean(r) PROVE ValidInv'
  <2>1. validateConfig(clean')
    BY <1>10, ConfigValid, DefaultValid DEF ReloadDefaultClean
  <2> QED
    BY <1>s, <1>10, <2>1, StoreAssumption DEF ReloadDefaultClean, Shapes
<1>11. ASSUME NEW r \in Reloads, ReloadGet(r) PROVE ValidInv'
  BY <1>s, <1>11, StoreAssumption DEF ReloadGet, Shapes
<1>12. ASSUME NEW r \in Reloads, ReloadSwap(r) PROVE ValidInv'
  BY <1>s, <1>12, StoreAssumption DEF ReloadSwap, Shapes
<1>13. ASSUME NEW r \in Reloads, ReloadLimits(r) PROVE ValidInv'
  BY <1>s, <1>13, StoreAssumption DEF ReloadLimits, Shapes
<1>14. CASE EtcdFetch
  BY <1>14 DEF EtcdFetch
<1>15. CASE EtcdUpdate
  <2>1. dirty' = Stamped(Config(edoc, {}), EtcdStamp)
    BY <1>15 DEF EtcdUpdate, Update, Apply
  <2>2. validateConfig(dirty') <=> validateConfig(edoc)
    BY <2>1, ConfigValid
  <2> QED
    BY <1>15, <2>2 DEF EtcdUpdate, Update
<1>16. CASE EtcdFinish
  <2>1. CASE validateConfig(edoc)
    BY <1>16, <2>1 DEF EtcdFinish, Commit
  <2>2. CASE ~validateConfig(edoc)
    BY <1>16, <2>2 DEF EtcdFinish, Rollback
  <2> QED
    BY <2>1, <2>2
<1>17. CASE UNCHANGED vars
  BY <1>17 DEF vars
<1> QED
  BY <1>1, <1>2, <1>3, <1>4, <1>5, <1>6, <1>7, <1>8, <1>9, <1>10, <1>11, <1>12,
     <1>13, <1>14, <1>15, <1>16, <1>17
  DEF Next, HandlerStep, ReloadStep, EtcdStep

\* Whatever the file and etcd hold, and however reloads and the etcd watch
\* interleave, Get returns a configuration validateConfig accepts, as long as
\* the dashboard made no edit: the watch's write before its validation never
\* reaches the committed buffer.
THEOREM FileAndEtcdStayValid ==
    Spec => []CleanIsValid
<1>1. IInv /\ ValidInv /\ [Next]_vars => (IInv /\ ValidInv)'
  BY NextIInv, NextValidInv
<1>2. ValidInv => CleanIsValid
  BY DEF ValidInv, FileAndEtcdOnly, CleanIsValid
<1> QED
  BY InitIInv, InitValidInv, <1>1, <1>2, PTL DEF Spec
=============================================================================
