----------------------------- MODULE WeightedRR -----------------------------
(***************************************************************************)
(* Smooth weighted round-robin (internal/router/weighted_rr.go) as         *)
(* Router.Route uses it: one WeightedRR, with one slice of current         *)
(* weights, serves every route of that strategy, and gets the backends     *)
(* that are healthy at the time.                                           *)
(*                                                                         *)
(* Select holds the selector's mutex throughout, and Route the router's    *)
(* read lock, so a selection is one step.                                  *)
(***************************************************************************)
EXTENDS RouterBackends

CONSTANTS
    WeightChoices,  \* the weights a backend may be configured with
    MaxSwitches     \* bound: selections for another route than the one before
                    \* (with lists of two lengths they let the weights drift)

ASSUME WeightsAssumption ==
    /\ WeightChoices \subseteq Nat /\ MaxSwitches \in Nat
    /\ Names \cap {"none", "mixed"} = {}     \* what pure says besides a route

\* A backend is an entry of a route: two routes may give an address two weights.
Entries == UNION {{<<n, a>> : a \in Range(Routes[n])} : n \in Names}

VARIABLES
    weight,         \* Backend.Weight: fixed by the configuration
    currentWeights, \* WeightedRR.currentWeights
    last,           \* history: the backend selected last
    pure,           \* history: the only route selected for while all backends
                    \* were healthy ("none" yet), or "mixed"
    picks, turn,    \* history: its selections per backend in the current cycle,
                    \* and their number
    switches        \* bound counter

histVars == <<last, pure, picks, turn, switches>>
shareVars == <<weight, currentWeights, histVars>>

NoPicks == [e \in Entries |-> 0]
NoEntry == <<"none", "none">>

ShareInit ==
    /\ weight \in [Entries -> WeightChoices]
    /\ currentWeights = <<>>
    /\ last = NoEntry /\ pure = "none" /\ picks = NoPicks
    /\ turn = 0 /\ switches = 0

\* The loop that adds up the elements of a slice.
SumOf(s) ==
    LET upTo[i \in 0..Len(s)] == IF i = 0 THEN 0 ELSE upTo[i - 1] + s[i]
    IN  upTo[Len(s)]

Total(n, list) == SumOf([i \in DOMAIN list |-> weight[<<n, list[i]>>]])

-----------------------------------------------------------------------------
\* Mutant: the slice is made anew on every call.
Resized_Fresh(list) == [i \in 1..Len(list) |-> 0]

\* The slice gets the length of the list; what there was is copied.
Resized(list) ==
    [i \in 1..Len(list) |-> IF i <= Len(currentWeights) THEN currentWeights[i] ELSE 0]

Raised(n, list) ==
    LET resized == Resized(list) IN [i \in DOMAIN list |-> resized[i] + weight[<<n, list[i]>>]]

\* The first of the largest, if it exceeds the initial bestWeight of -1; else
\* bestIdx is still that of the first backend.
Best(raised) ==
    LET above == {i \in DOMAIN raised : raised[i] > -1}
        top == {i \in above : \A j \in above : raised[j] <= raised[i]}
    IN  IF top = {} THEN 1 ELSE Min(top)

\* The chosen one is lowered by the total weight.
Lowered(n, list, raised, best) == [raised EXCEPT ![best] = @ - Total(n, list)]

\* A cycle of a route is as many selections as its weights sum up to.
Cycle(n) == Total(n, Routes[n])

\* Entry e is selected for route n.  A selection for another route than the
\* last is a switch.
Selected(n, e) ==
    /\ last' = e
    /\ switches' = IF last[1] \in {n, "none"} THEN switches ELSE switches + 1
    /\ switches' <= MaxSwitches

Mixed == pure' = "mixed" /\ picks' = NoPicks /\ turn' = 0

Counted(n, e) ==
    LET done == turn = Cycle(n) IN
    /\ pure' = n
    /\ picks' = [IF done THEN NoPicks ELSE picks EXCEPT ![e] = @ + 1]
    /\ turn' = IF done THEN 1 ELSE turn + 1

\* All weights zero: the first backend.
SelectFirst(n) ==
    \E list \in {Healthy(n)} :
    /\ list # <<>> /\ Total(n, list) = 0
    /\ currentWeights' = Resized(list)
    /\ Selected(n, <<n, list[1]>>) /\ Mixed
    /\ UNCHANGED weight

Select(n) ==
    \E list \in {Healthy(n)} :
    LET raised == Raised(n, list)
        best == Best(raised)
        e == <<n, list[best]>>
    IN  /\ list # <<>> /\ Total(n, list) > 0
        /\ currentWeights' = Lowered(n, list, raised, best)
        /\ Selected(n, e)
        /\ IF pure \in {n, "none"} THEN Counted(n, e) ELSE Mixed
        /\ UNCHANGED weight

-----------------------------------------------------------------------------
(* Properties                                                              *)

\* While one route uses the selector and the backends stay healthy, every
\* backend was selected exactly as often as its weight says at the end of a
\* cycle.
ExactShare ==
    \A n \in Names : (pure = n /\ turn = Cycle(n))
        => \A e \in Entries : e[1] = n => picks[e] = weight[e]

\* ... and nobody is ever a whole turn ahead of its share, so that nobody falls
\* behind by more than the others together are ahead.
Balanced ==
    \A n \in Names : pure = n =>
        \A i \in DOMAIN currentWeights :
            /\ currentWeights[i] > -Cycle(n)
            /\ currentWeights[i] < Len(Routes[n]) * Cycle(n)

\* Backends get their shares, and are never far from them (WeightedRR.Select).
FairShares == ExactShare /\ Balanced
=============================================================================
