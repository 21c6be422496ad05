------------------------------- MODULE Chain -------------------------------
(***************************************************************************)
(* The inner part of the middleware chain that main builds: the circuit    *)
(* breaker around the tenant isolation around the handler.  (What is       *)
(* outside the breaker, authentication and the rate limiter among it,      *)
(* refuses a request before the breaker hears of it.)  Chain.Then makes    *)
(* the middleware used first the outermost one, so a request a tenant's    *)
(* limit or rules refuse comes back to the breaker as an error.            *)
(***************************************************************************)
EXTENDS CircuitBreaker, TenantLimiter

CONSTANT Asks   \* what requests carry: a tenant's id, or none, and a path

VARIABLES
    behind,     \* requests the tenant middleware has let through
    refused     \* requests it has refused

passage == <<behind, refused>>
chainVars == <<vars, tenantVars, passage>>

ChainInit == Init /\ TenantInit /\ behind = {} /\ refused = {}

\* The breaker admits a request.
Enter(r) == Allow(r) /\ UNCHANGED <<tenantVars, passage>>

\* The tenant middleware.
Check(r) ==
    /\ r \in inflight \ (behind \cup refused)
    /\ \E ask \in Asks :
          /\ CheckTenant(ask.id)
          /\ IF Passes(ask.id, ask.path)
               THEN behind' = behind \cup {r} /\ UNCHANGED refused
               ELSE refused' = refused \cup {r} /\ UNCHANGED behind
    /\ UNCHANGED vars

\* The breaker gets the result back: an error or a 5xx of the handler, or the
\* tenant middleware's refusal, is a failure.
Back(r) ==
    /\ behind' = behind \ {r} /\ refused' = refused \ {r}
    /\ UNCHANGED tenantVars

Fail(r) ==
    /\ r \in behind \cup refused
    /\ FailHalfOpen(r) \/ FailElse(r)
    /\ Back(r)

Succeed(r) ==
    /\ r \in behind
    /\ SucceedHalfOpen(r) \/ SucceedElse(r)
    /\ Back(r)

Manage == (Reset \/ UpdateConfig) /\ UNCHANGED <<tenantVars, passage>>

Clock == Tick /\ TenantTick /\ UNCHANGED passage

ChainNext ==
    \/ \E r \in Requests : Enter(r) \/ Check(r) \/ Fail(r) \/ Succeed(r)
    \/ Manage \/ Clock

ChainSpec == ChainInit /\ [][ChainNext]_chainVars

\* Traffic goes on, every middleware and handler returns, time passes.
ChainFairness ==
    /\ WF_chainVars(\E r \in Requests : Enter(r))
    /\ \A r \in Requests : WF_chainVars(Check(r) \/ Fail(r) \/ Succeed(r))
    /\ WF_chainVars(Clock)

FairChain == ChainSpec /\ ChainFairness

-----------------------------------------------------------------------------
(* Properties                                                              *)

\* From some time on the handler answers well and no tenant is refused.
AllWell == <>[][\A r \in Requests : ~Fail(r)]_chainVars

\* The breaker recovers: it never stays open or half-open under traffic, and
\* once the backends answer again it closes for good.  That takes the tenants
\* too: as long as one of them goes on asking beyond its limit or its rules,
\* its refusals count as failures and may keep the breaker open for all.
Recovers ==
    /\ KeepsMoving
    /\ AllWell /\ <>[](config.succ > 0) => <>[](state = "Closed")
=============================================================================
