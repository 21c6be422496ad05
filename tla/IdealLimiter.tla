---------------------------- MODULE IdealLimiter ----------------------------
(***************************************************************************)
(* What a token-bucket limiter promises: every key has its own bucket,     *)
(* full at first, that gains rate tokens per tick up to burst and pays one *)
(* request with Cost of them.  No key is ever forgotten.  A reload that    *)
(* leaves rate and burst as they were changes nothing; one that raises the *)
(* rate takes no tokens away, but for the new burst, and one that lowers   *)
(* it gives none, except that a full bucket may fill up to a new burst.    *)
(***************************************************************************)
EXTENDS Integers

CONSTANTS Keys, Rate, Burst, Cost

VARIABLES
    rate, burst,    \* of each key
    level,          \* tokens of each key
    out             \* the last verdict, <<key, allowed>>, or <<>>

vars == <<rate, burst, level, out>>

Capped(n, cap) == IF n > cap THEN cap ELSE n

Init ==
    /\ rate = Rate /\ burst = Burst
    /\ level = Burst /\ out = <<>>

Tick ==
    /\ level' = [k \in Keys |-> Capped(level[k] + rate[k], burst[k])]
    /\ out' = <<>>
    /\ UNCHANGED <<rate, burst>>

Ask(k) ==
    /\ out' = <<k, level[k] >= Cost>>
    /\ level' = [level EXCEPT ![k] = IF @ >= Cost THEN @ - Cost ELSE @]
    /\ UNCHANGED <<rate, burst>>

Reload ==
    /\ rate' \in [Keys -> Nat] /\ burst' \in [Keys -> Nat]
    /\ level' \in [Keys -> Nat]
    /\ \A k \in Keys :
        /\ level'[k] <= burst'[k]
        /\ rate'[k] >= rate[k] => level'[k] >= Capped(level[k], burst'[k])
        /\ rate'[k] <= rate[k] /\ level[k] < burst[k] => level'[k] <= level[k]
    /\ UNCHANGED out

Serve == Tick \/ \E k \in Keys : Ask(k)

Next == Serve \/ Reload

Spec == Init /\ [][Next]_vars

\* A limiter whose configuration never changes.
SteadySpec == Init /\ [][Serve]_vars
=============================================================================
