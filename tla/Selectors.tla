----------------------------- MODULE Selectors -----------------------------
(***************************************************************************)
(* Router.Route with the selectors that have a key or a share to honour:   *)
(* the consistent-hash ring, the weighted round-robin, and those without   *)
(* state.  (least_conn is part of Forwarding, with its Release.)           *)
(***************************************************************************)
EXTENDS HashRing, WeightedRR, KeyedSelectors

selectorVars == <<routerVars, ringVars, shareVars, keyedVars>>

\* The selector that is not used stays in one of its initial states.
SelectorsInit ==
    /\ RouterInit /\ RingInit /\ ShareInit /\ KeyedInit
    /\ strategy = "consistent_hash" \/ \A x \in DOMAIN at : at[x] = 0
    /\ strategy = "weighted_round_robin" \/ \A e \in Entries : weight[e] = 1
    /\ strategy = "canary" \/ rule = CHOOSE r \in CanaryRules : TRUE
    /\ strategy = "canary" \/ \A c \in Clients : cookie[c] = {}
    /\ strategy \in Keyed \ {"ip_hash"} \/ \A a \in Addrs : meta[a] = "plain"

UseRing ==
    /\ strategy = "consistent_hash"
    /\ \E r \in Requests : RingStep(r)
    /\ UNCHANGED <<routerVars, shareVars, keyedVars>>

\* Select holds the selector's mutex throughout: one step.
UseWeights ==
    /\ strategy = "weighted_round_robin"
    /\ \E n \in Names : Select(n) \/ SelectFirst(n)
    /\ UNCHANGED <<routerVars, ringVars, keyedVars>>

UseKey ==
    /\ \E n \in Names : SelectKeyed(n)
    /\ UNCHANGED <<routerVars, ringVars, shareVars>>

Reload ==
    /\ SwapRule
    /\ UNCHANGED <<ringVars, shareVars>>

\* The write lock of the router: Route holds its read lock until Select has
\* returned.
UpdateBackendHealth ==
    /\ \A r \in Requests : stage[r] = "idle"
    /\ \E a \in Addrs : SetHealth(a)
    /\ Mixed
    /\ UNCHANGED <<ringVars, weight, currentWeights, last, switches, keyedVars>>

SelectorsNext == UseRing \/ UseWeights \/ UseKey \/ UpdateBackendHealth \/ Reload

SelectorsSpec == SelectorsInit /\ [][SelectorsNext]_selectorVars

\* Requests, for one route or another, keep coming.
FairSelectors == SelectorsSpec /\ WF_selectorVars(UseWeights)

-----------------------------------------------------------------------------
\* Whatever routes shared the weights and whatever happened to the backends
\* before: once one route uses the selector, each of its backends that stays
\* healthy and has a positive weight is selected again and again.
NeverStarved ==
    \A e \in Entries :
        []<>(last = e \/ weight[e] = 0 \/ ~healthy[e[2]] \/ last[1] # e[1])
=============================================================================
