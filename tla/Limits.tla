------------------------------- MODULE Limits -------------------------------
(***************************************************************************)
(* The two limiters that guard the program's doors: the rate limiter of    *)
(* the gateway and the login limiter of the dashboard.  They share nothing *)
(* but the clock, so a behaviour follows one of them.                      *)
(***************************************************************************)
EXTENDS TokenBucket, DashboardAuth

VARIABLE door

limitVars == <<door, vars, authVars>>

LimitsInit == door \in {"gateway", "dashboard"} /\ Init /\ AuthInit

Gateway == door = "gateway" /\ Next /\ UNCHANGED <<door, authVars>>

Dashboard(A) == door = "dashboard" /\ A /\ UNCHANGED <<door, vars>>

LimitsNext == Gateway \/ Dashboard(AuthNext)

LimitsSpec ==
    LimitsInit /\ [][LimitsNext]_limitVars /\ WF_limitVars(Dashboard(AuthTick))
=============================================================================
