---------------------------- MODULE TokenBucket ----------------------------
(***************************************************************************)
(* The rate limiter (internal/middleware/ratelimit.go): a map of token     *)
(* buckets that are made on first use, refilled lazily when asked and      *)
(* dropped when idle, with a rate and a burst that a reload may change.    *)
(* Allow, UpdateRate and UpdateBurst each hold the mutex throughout, so    *)
(* each is one step.  A request costs Cost tokens, so that rates below one *)
(* request per tick are integers too.                                      *)
(***************************************************************************)
EXTENDS Integers, FiniteSets

CONSTANTS
    Keys,               \* tenant ids
    Rate, Burst,        \* the configured values, in tokens
    Cost,               \* tokens of one request
    NewRates, NewBursts,\* values a reload may set
    MaxBuckets, CleanupInterval, Expiry,
    MaxTime             \* bound: ticks

ASSUME BucketAssumption ==
    /\ Rate \in Nat /\ Burst \in Nat /\ Cost \in Nat \ {0}
    /\ NewRates \subseteq Nat /\ NewBursts \subseteq Nat
    /\ MaxBuckets \in Nat /\ CleanupInterval \in Nat /\ Expiry \in Nat /\ MaxTime \in Nat

VARIABLES
    now,
    rate, burst,        \* RateLimiter.rate, burst
    present,            \* the keys of RateLimiter.buckets
    tokens, last,       \* tokenBucket.tokens, lastTime
    lastCleanup,
    out                 \* the last verdict, <<key, allowed>>, or <<>>

bucketVars == <<present, tokens, last, lastCleanup>>
vars == <<now, rate, burst, bucketVars, out>>

Capped(n, cap) == IF n > cap THEN cap ELSE n

Init ==
    /\ now = 0 /\ lastCleanup = 0
    /\ rate = Rate /\ burst = Burst
    /\ present = {}
    /\ tokens = [k \in Keys |-> 0] /\ last = [k \in Keys |-> 0]
    /\ out = <<>>

Idle(k) == now - last[k] > Expiry

Refilled(k) == Capped(tokens[k] + (now - last[k]) * rate, burst)

\* Mutant: a refusal does not store the time of the refill.
Allow_StaleTime(k) ==
    LET level == IF k \in present THEN Refilled(k) ELSE burst
        ok == level >= Cost
    IN /\ present' = present \cup {k}
       /\ tokens' = [tokens EXCEPT ![k] = IF ok THEN level - Cost ELSE level]
       /\ last' = [last EXCEPT ![k] = IF ok THEN now ELSE @]
       /\ out' = <<k, ok>>
       /\ UNCHANGED <<now, rate, burst, lastCleanup>>

\* A cleanup that is due, one more if a new bucket meets the limit (which
\* need not make room), then refill and pay.
Allow(k) ==
    LET due == now - lastCleanup > CleanupInterval
        kept == IF due THEN {b \in present : ~Idle(b)} ELSE present
        full == k \notin kept /\ Cardinality(kept) >= MaxBuckets
        others == IF full THEN {b \in kept : ~Idle(b)} ELSE kept
        level == IF k \in kept THEN Refilled(k) ELSE burst
        ok == level >= Cost
    IN /\ lastCleanup' = IF due THEN now ELSE lastCleanup
       /\ present' = others \cup {k}
       /\ tokens' = [tokens EXCEPT ![k] = IF ok THEN level - Cost ELSE level]
       /\ last' = [last EXCEPT ![k] = now]
       /\ out' = <<k, ok>>
       /\ UNCHANGED <<now, rate, burst>>

UpdateRate(r) ==
    /\ rate' = r
    /\ UNCHANGED <<now, burst, bucketVars, out>>

UpdateBurst(b) ==
    /\ burst' = b
    /\ UNCHANGED <<now, rate, bucketVars, out>>

\* Time passes.
Tick ==
    /\ now < MaxTime
    /\ now' = now + 1
    /\ out' = <<>>
    /\ UNCHANGED <<rate, burst, bucketVars>>

Next ==
    \/ Tick
    \/ \E k \in Keys : Allow(k)
    \/ \E r \in NewRates : UpdateRate(r)
    \/ \E b \in NewBursts : UpdateBurst(b)

Spec == Init /\ [][Next]_vars

-----------------------------------------------------------------------------
(* Properties                                                              *)

\* One value for every key.
ForAll(n) == [k \in Keys |-> n]

\* The lazily refilled, garbage-collected map behaves like the ideal limiter:
\* between reloads every verdict is the one a bucket that is never forgotten
\* would give.  (An idle bucket must be full by the time it is dropped:
\* Expiry * rate >= burst for every rate and burst in use.)
Ideal == INSTANCE IdealLimiter WITH
    Rate <- ForAll(Rate), Burst <- ForAll(Burst),
    rate <- ForAll(rate), burst <- ForAll(burst),
    level <- [k \in Keys |-> IF k \in present THEN Refilled(k) ELSE burst]

RefinesIdeal == Ideal!Spec
=============================================================================
