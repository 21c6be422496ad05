--------------------------- MODULE TenantLimiter ---------------------------
(***************************************************************************)
(* The tenant isolation middleware (internal/middleware/tenant.go): one    *)
(* token bucket for each configured tenant, made with the chain, refilled  *)
(* lazily and never dropped, and path rules.  The tenants are the ones of  *)
(* the configuration the chain was built from: no edit reaches them.       *)
(* allow holds the limiter's mutex, the rest reads what never changes, so  *)
(* the check of a request is one step.  A request costs Cost tokens.       *)
(***************************************************************************)
EXTENDS Integers, SequencesExt

CONSTANTS
    Tenants,            \* the configured tenants
    NoTenant,           \* no tenant header, or no default tenant
    OtherIds,           \* ids of no configured tenant
    Defaults,           \* what DefaultTenant may be
    RPS, TenantBurst,   \* a tenant's limits, in tokens per tick and tokens
    TenantCost,         \* tokens of one request
    Blocked, Allowed,   \* a tenant's path rules: sets of sequences
    MaxIdle             \* bound: ticks since a bucket was last asked

Ids == Tenants \cup OtherIds \cup {NoTenant}

ASSUME TenantAssumption ==
    /\ NoTenant \notin Tenants \cup OtherIds
    /\ Tenants \cap OtherIds = {}
    /\ Defaults \subseteq Ids
    /\ RPS \in [Tenants -> Nat] /\ TenantBurst \in [Tenants -> Nat]
    /\ TenantCost \in Nat \ {0} /\ MaxIdle \in Nat
    \* a bucket idle for MaxIdle ticks is full, whatever it held
    /\ \A t \in Tenants : RPS[t] > 0 => MaxIdle * RPS[t] >= TenantBurst[t]

VARIABLES
    default,    \* cfg.DefaultTenant
    tokens,     \* tenantBucket.tokens
    idle,       \* time since tenantBucket.lastTime
    verdict     \* the last answer to an id that is limited, <<id, allowed>>, or <<>>

tenantVars == <<default, tokens, idle, verdict>>

TenantInit ==
    /\ default \in Defaults
    /\ tokens = TenantBurst
    /\ idle = [t \in Tenants |-> 0]
    /\ verdict = <<>>

AtMost(n, cap) == IF n > cap THEN cap ELSE n

Refill(t) == AtMost(tokens[t] + idle[t] * RPS[t], TenantBurst[t])

Limited == {t \in Tenants : RPS[t] > 0}

Enough(t) == Refill(t) >= TenantCost

\* allow, for an id with a bucket and a rate.
Ask(t) ==
    /\ tokens' = [tokens EXCEPT ![t] = IF Enough(t) THEN Refill(t) - TenantCost ELSE Refill(t)]
    /\ idle' = [idle EXCEPT ![t] = 0]

\* The tenant a request is counted for, and the one whose rules it is under:
\* they differ for an unknown id, which has no bucket.
Who(id) == IF id = NoTenant THEN default ELSE id
Ruler(id) == IF Who(id) \in Tenants THEN Who(id) ELSE default

\* req.Path == rule || hasPrefix(req.Path, rule)
Covers(rules, path) == \E rule \in rules : IsPrefix(rule, path)

Permits(t, path) ==
    /\ ~Covers(Blocked[t], path)
    /\ Allowed[t] = {} \/ Covers(Allowed[t], path)

\* Does the middleware look at the request at all?
Governed(id) == Who(id) # NoTenant /\ Ruler(id) \in Tenants

\* Mutant: an unknown id pays from the bucket of the tenant whose rules it is under.
CheckTenant_Ruler(id) ==
    /\ UNCHANGED default
    /\ IF Governed(id) /\ Ruler(id) \in Limited
         THEN Ask(Ruler(id)) /\ verdict' = <<Who(id), Enough(Ruler(id))>>
         ELSE UNCHANGED <<tokens, idle, verdict>>

\* The middleware on a request that carries id and asks for path, and whether
\* it calls the next handler.  A token is spent before the rules are looked at.
CheckTenant(id) ==
    /\ UNCHANGED default
    /\ IF Governed(id) /\ Who(id) \in Limited
         THEN Ask(Who(id)) /\ verdict' = <<Who(id), Enough(Who(id))>>
         ELSE UNCHANGED <<tokens, idle, verdict>>

Passes(id, path) ==
    Governed(id) =>
        /\ Who(id) \in Limited => Enough(Who(id))
        /\ Permits(Ruler(id), path)

\* Time passes.
TenantTick ==
    /\ idle' = [t \in Tenants |-> AtMost(idle[t] + 1, MaxIdle)]
    /\ verdict' = <<>>
    /\ UNCHANGED <<default, tokens>>

TenantNext ==
    \/ TenantTick
    \/ \E id \in Ids : CheckTenant(id)

TenantSpec == TenantInit /\ [][TenantNext]_tenantVars

-----------------------------------------------------------------------------
(* Properties                                                              *)

\* The promise: buckets that no other tenant's request draws from.
OfLimited(f) == [t \in Limited |-> f[t]]

Ideal == INSTANCE IdealLimiter WITH
    Keys <- Limited, Cost <- TenantCost,
    Rate <- OfLimited(RPS), Burst <- OfLimited(TenantBurst),
    rate <- OfLimited(RPS), burst <- OfLimited(TenantBurst),
    level <- [t \in Limited |-> Refill(t)], out <- verdict

\* Whoever asks under a tenant's id, or by default, is answered by a bucket of
\* that tenant's own that is refilled on every tick, at the tenant's rate and
\* burst, whatever is asked under other tenants' ids and unknown ones (allow).
OwnBuckets == Ideal!SteadySpec
=============================================================================
