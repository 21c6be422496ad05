---------------------------- MODULE LimitsProofs ----------------------------
(***************************************************************************)
(* The rate limiter implements the ideal one, for every rate, burst, limit *)
(* on buckets and cleanup interval and across reloads, as long as an idle  *)
(* bucket has time to fill before it expires; and the dashboard's login    *)
(* limiter bounds wrong tokens for every number of concurrent logins.      *)
(***************************************************************************)
EXTENDS Limits, FiniteSetTheorems, TLAPS

\* The values in use, before and after a reload.
Rates == {Rate} \cup NewRates
Bursts == {Burst} \cup NewBursts

\* A bucket idle for Expiry has filled, whatever is configured.
FillsInTime == \A r \in Rates, b \in Bursts : Expiry * r >= b

\* The configuration is one of those, and times and tokens make sense.
IInv ==
    /\ now \in Nat
    /\ rate \in Rates /\ burst \in Bursts
    /\ present \subseteq Keys
    /\ tokens \in [Keys -> Nat]
    /\ last \in [Keys -> Nat] /\ \A k \in Keys : last[k] <= now

Level == [k \in Keys |-> IF k \in present THEN Refilled(k) ELSE burst]

LEMMA InitIInv == Init => IInv
BY BucketAssumption DEF Init, IInv, Rates, Bursts

LEMMA ConfigTypes ==
    ASSUME IInv
    PROVE  rate \in Nat /\ burst \in Nat
BY BucketAssumption DEF IInv, Rates, Bursts

LEMMA MulType ==
    ASSUME NEW m \in Nat, NEW n \in Nat
    PROVE  m * n \in Nat
OBVIOUS

LEMMA MulNext ==
    ASSUME NEW m \in Nat, NEW n \in Nat
    PROVE  (m + 1) * n = m * n + n
OBVIOUS

LEMMA MulMonotone ==
    ASSUME NEW m \in Nat, NEW p \in Nat, NEW n \in Nat, m <= p
    PROVE  m * n <= p * n
OBVIOUS

LEMMA RefilledType ==
    ASSUME IInv, NEW k \in Keys
    PROVE  Refilled(k) \in Nat /\ Refilled(k) <= burst
<1>1. now - last[k] \in Nat /\ tokens[k] \in Nat
  BY DEF IInv
<1>2. (now - last[k]) * rate \in Nat
  BY <1>1, MulType, ConfigTypes
<1> QED
  BY <1>1, <1>2, ConfigTypes DEF Refilled, Capped

\* A bucket that may be dropped is full.
LEMMA IdleIsFull ==
    ASSUME IInv, FillsInTime, NEW k \in Keys, Idle(k)
    PROVE  Refilled(k) = burst
<1>1. now - last[k] \in Nat /\ Expiry <= now - last[k] /\ tokens[k] \in Nat
  BY BucketAssumption DEF IInv, Idle
<1>2. Expiry * rate <= (now - last[k]) * rate
  BY <1>1, MulMonotone, ConfigTypes, BucketAssumption
<1>3. Expiry * rate \in Nat /\ (now - last[k]) * rate \in Nat
  BY <1>1, MulType, ConfigTypes, BucketAssumption
<1>4. Expiry * rate >= burst
  BY DEF FillsInTime, IInv
<1> DEFINE gained == (now - last[k]) * rate
<1>5. gained \in Nat /\ gained >= burst
  BY <1>2, <1>3, <1>4, ConfigTypes
<1>6. Refilled(k) = Capped(tokens[k] + gained, burst)
  BY DEF Refilled
<1> HIDE DEF gained
<1> QED
  BY <1>1, <1>5, <1>6, ConfigTypes DEF Capped

\* What Allow finds is what the ideal bucket holds.
LEMMA AllowLevel ==
    ASSUME IInv, FillsInTime, NEW k \in Keys, Allow(k)
    PROVE  /\ out' = <<k, Level[k] >= Cost>>
           /\ tokens' = [tokens EXCEPT ![k] = IF Level[k] >= Cost THEN Level[k] - Cost ELSE Level[k]]
           /\ last' = [last EXCEPT ![k] = now]
           /\ UNCHANGED <<now, rate, burst>>
           /\ \E S \in SUBSET present :
                /\ present' = S \cup {k}
                /\ \A b \in present \ S : Idle(b)
<1> DEFINE due == now - lastCleanup > CleanupInterval
           kept == IF due THEN {b \in present : ~Idle(b)} ELSE present
           full == k \notin kept /\ Cardinality(kept) >= MaxBuckets
           others == IF full THEN {b \in kept : ~Idle(b)} ELSE kept
           level == IF k \in kept THEN Refilled(k) ELSE burst
<1>1. level = Level[k]
  <2>1. CASE k \in kept
    BY <2>1 DEF Level
  <2>2. CASE k \notin kept /\ k \in present
    <3>1. Idle(k)
      BY <2>2
    <3> QED
      BY <2>2, <3>1, IdleIsFull DEF Level
  <2>3. CASE k \notin kept /\ k \notin present
    BY <2>3 DEF Level
  <2> QED
    BY <2>1, <2>2, <2>3
<1>2. /\ out' = <<k, level >= Cost>>
      /\ tokens' = [tokens EXCEPT ![k] = IF level >= Cost THEN level - Cost ELSE level]
      /\ last' = [last EXCEPT ![k] = now]
      /\ present' = others \cup {k}
      /\ UNCHANGED <<now, rate, burst>>
  BY DEF Allow
<1>3. others \in SUBSET present /\ \A b \in present \ others : Idle(b)
  OBVIOUS
<1> HIDE DEF level, others
<1> QED
  BY <1>1, <1>2, <1>3

LEMMA NextIInv ==
    ASSUME FillsInTime, IInv, [Next]_vars
    PROVE  IInv'
<1>1. CASE Tick
  BY <1>1 DEF Tick, bucketVars, IInv
<1>2. ASSUME NEW k \in Keys, Allow(k) PROVE IInv'
  <2>1. Level[k] \in Nat
    BY RefilledType, ConfigTypes DEF Level
  <2>2. tokens' \in [Keys -> Nat]
    BY <1>2, <2>1, AllowLevel, BucketAssumption DEF IInv
  <2>3. last' \in [Keys -> Nat] /\ (\A j \in Keys : last'[j] <= now')
    BY <1>2, AllowLevel DEF IInv
  <2>4. present' \subseteq Keys
    BY <1>2, AllowLevel DEF IInv
  <2> QED
    BY <1>2, <2>2, <2>3, <2>4, AllowLevel DEF IInv
<1>3. ASSUME NEW r \in NewRates, UpdateRate(r) PROVE IInv'
  BY <1>3 DEF UpdateRate, bucketVars, IInv, Rates
<1>4. ASSUME NEW b \in NewBursts, UpdateBurst(b) PROVE IInv'
  BY <1>4 DEF UpdateBurst, bucketVars, IInv, Bursts
<1>5. CASE UNCHANGED vars
  BY <1>5 DEF vars, bucketVars, IInv
<1> QED
  BY <1>1, <1>2, <1>3, <1>4, <1>5 DEF Next

LEMMA TickStep ==
    ASSUME IInv, Tick
    PROVE  Level' = [k \in Keys |-> Ideal!Capped(Level[k] + rate, burst)]
<1> SUFFICES ASSUME NEW k \in Keys PROVE Level'[k] = Ideal!Capped(Level[k] + rate, burst)
  BY DEF Level
<1>1. now' = now + 1 /\ UNCHANGED <<rate, burst, present, tokens, last>>
  BY DEF Tick, bucketVars
<1>2. CASE k \notin present
  BY <1>1, <1>2, ConfigTypes DEF Level, Ideal!Capped
<1>3. CASE k \in present
  <2>1. now - last[k] \in Nat /\ tokens[k] \in Nat
    BY DEF IInv
  <2> DEFINE x == (now - last[k]) * rate
  <2>2. x \in Nat /\ (now + 1 - last[k]) * rate = x + rate
    <3>1. now + 1 - last[k] = (now - last[k]) + 1
      BY DEF IInv
    <3> QED
      BY <2>1, <3>1, MulType, MulNext, ConfigTypes
  <2>3. Level[k] = Capped(tokens[k] + x, burst)
    BY <1>3 DEF Level, Refilled
  <2>4. Level'[k] = Capped(tokens[k] + (x + rate), burst)
    <3>1. Level'[k] = Refilled(k)'
      BY <1>1, <1>3 DEF Level
    <3>2. now \in Nat /\ last[k] \in Nat /\ tokens[k] \in Nat /\ rate \in Nat /\ burst \in Nat
      BY ConfigTypes DEF IInv
    <3>3. Refilled(k)' = Capped(tokens'[k] + (now' - last'[k]) * rate', burst')
      BY DEF Refilled, Capped
    <3>4. Capped(tokens'[k] + (now' - last'[k]) * rate', burst')
            = Capped(tokens[k] + (now + 1 - last[k]) * rate, burst)
      BY <1>1, <3>2
    <3> QED
      BY <2>2, <3>1, <3>3, <3>4
  <2> HIDE DEF x
  <2> QED
    BY <2>1, <2>2, <2>3, <2>4, ConfigTypes DEF Capped, Ideal!Capped
<1> QED
  BY <1>2, <1>3

LEMMA AllowStep ==
    ASSUME IInv, FillsInTime, NEW k \in Keys, Allow(k)
    PROVE  Level' = [Level EXCEPT ![k] = IF Level[k] >= Cost THEN Level[k] - Cost ELSE Level[k]]
<1> DEFINE paid == IF Level[k] >= Cost THEN Level[k] - Cost ELSE Level[k]
<1>1. PICK S \in SUBSET present :
        /\ present' = S \cup {k}
        /\ \A b \in present \ S : Idle(b)
  BY AllowLevel
<1>2. tokens' = [tokens EXCEPT ![k] = paid] /\ last' = [last EXCEPT ![k] = now]
      /\ UNCHANGED <<now, rate, burst>>
  BY AllowLevel
<1>3. Level[k] \in Nat /\ Level[k] <= burst
  BY RefilledType, ConfigTypes DEF Level
<1>4. paid \in Nat /\ paid <= burst
  BY <1>3, ConfigTypes, BucketAssumption
<1> HIDE DEF paid
<1>5. Level'[k] = paid
  <2>1. Level'[k] = Capped(paid + (now - now) * rate, burst)
    BY <1>1, <1>2 DEF Level, Refilled, IInv
  <2>2. (now - now) * rate = 0
    BY ConfigTypes DEF IInv
  <2> QED
    BY <1>4, <2>1, <2>2, ConfigTypes DEF Capped
<1>6. ASSUME NEW b \in Keys, b # k PROVE Level'[b] = Level[b]
  <2>1. tokens'[b] = tokens[b] /\ last'[b] = last[b]
    BY <1>2, <1>6 DEF IInv
  <2>2. Refilled(b)' = Refilled(b)
    BY <1>2, <2>1 DEF Refilled
  <2>3. CASE b \in S
    BY <1>1, <2>2, <2>3 DEF Level
  <2>4. CASE b \in present \ S
    <3>1. Refilled(b) = burst
      BY <1>1, <2>4, IdleIsFull
    <3> QED
      BY <1>1, <1>2, <1>6, <2>4, <3>1 DEF Level, IInv
  <2>5. CASE b \notin present
    BY <1>1, <1>2, <1>6, <2>5 DEF Level
  <2> QED
    BY <2>3, <2>4, <2>5
<1>7. Level' = [Level EXCEPT ![k] = paid]
  BY <1>5, <1>6 DEF Level
<1> QED
  BY <1>7 DEF paid

\* What a reload may do to the level of a bucket (Ideal!Reload).
Moves(k) ==
    /\ rate' >= rate => Level'[k] >= Capped(Level[k], burst')
    /\ rate' <= rate /\ Level[k] < burst => Level'[k] <= Level[k]

\* More elapsed time at a higher rate is more tokens.
LEMMA MulMonotoneRight ==
    ASSUME NEW e \in Nat, NEW m \in Nat, NEW n \in Nat, m <= n
    PROVE  e * m <= e * n
OBVIOUS

\* UpdateRate and UpdateBurst change the levels as the ideal limiter allows.
LEMMA ReloadMoves ==
    ASSUME IInv, IInv', NEW k \in Keys,
           \/ \E r \in NewRates : UpdateRate(r)
           \/ \E b \in NewBursts : UpdateBurst(b)
    PROVE  Moves(k)
<1>1. /\ rate \in Nat /\ burst \in Nat /\ rate' \in Nat /\ burst' \in Nat
      /\ now - last[k] \in Nat /\ tokens[k] \in Nat
  BY BucketAssumption DEF IInv, Rates, Bursts
<1>2. UNCHANGED <<now, present, tokens, last>>
  BY DEF UpdateRate, UpdateBurst, bucketVars
<1>3. rate' = rate \/ burst' = burst
  BY DEF UpdateRate, UpdateBurst
<1>4. CASE k \notin present
  <2>1. Level[k] = burst /\ Level'[k] = burst'
    BY <1>2, <1>4 DEF Level
  <2> QED
    BY <1>1, <2>1 DEF Moves, Capped
<1>5. CASE k \in present
  <2>1. PICK T \in Nat, e \in Nat : T = tokens[k] /\ e = now - last[k]
    BY <1>1
  <2>2. PICK g \in Nat, h \in Nat : g = e * rate /\ h = e * rate'
    BY <1>1, MulType
  <2>3. Level[k] = Capped(T + g, burst)
    BY <1>5, <2>1, <2>2 DEF Level, Refilled
  <2>4. Level'[k] = Capped(T + h, burst')
    BY <1>2, <1>5, <2>1, <2>2 DEF Level, Refilled
  <2>5. (rate <= rate' => g <= h) /\ (rate' <= rate => h <= g)
    BY <1>1, <2>2, MulMonotoneRight
  <2>6. rate' = rate => h = g
    BY <2>2
  <2> QED
    BY <1>1, <1>3, <2>3, <2>4, <2>5, <2>6 DEF Moves, Capped
<1> QED
  BY <1>4, <1>5

LEMMA ReloadStep ==
    ASSUME FillsInTime, IInv, Next, UNCHANGED out,
           \/ \E r \in NewRates : UpdateRate(r)
           \/ \E b \in NewBursts : UpdateBurst(b)
    PROVE  /\ rate' \in Nat /\ burst' \in Nat /\ Level' \in [Keys -> 0..burst']
           /\ \A k \in Keys : Moves(k)
<1>1. IInv'
  BY NextIInv
<1>2. rate' \in Nat /\ burst' \in Nat
  BY <1>1, BucketAssumption DEF IInv, Rates, Bursts
<1>3. ASSUME NEW k \in Keys PROVE Level'[k] \in 0..burst'
  <2>1. now' - last'[k] \in Nat /\ tokens'[k] \in Nat
    BY <1>1 DEF IInv
  <2>2. (now' - last'[k]) * rate' \in Nat
    BY <1>2, <2>1, MulType
  <2>3. Refilled(k)' \in 0..burst'
    BY <1>2, <2>1, <2>2 DEF Refilled, Capped
  <2> QED
    BY <1>2, <2>3 DEF Level
<1>4. \A k \in Keys : Moves(k)
  BY <1>1, ReloadMoves
<1> QED
  BY <1>2, <1>3, <1>4 DEF Level

\* Every verdict of the rate limiter is the ideal token bucket's, for any
\* keys, rates, bursts, cost, bucket limit and cleanup interval and across
\* reloads, if Expiry * rate >= burst for all of them.
THEOREM LimiterIsIdeal ==
    ASSUME FillsInTime
    PROVE  Spec => RefinesIdeal
<1>1. Init => Ideal!Init
  BY BucketAssumption DEF Init, Ideal!Init, ForAll
<1>2. IInv /\ [Next]_vars => IInv'
  BY NextIInv
<1>3. IInv /\ [Next]_vars => [Ideal!Next]_(Ideal!vars)
  <2> SUFFICES ASSUME IInv, [Next]_vars PROVE [Ideal!Next]_(Ideal!vars)
    OBVIOUS
  <2>1. CASE Tick
    <3>1. out' = <<>> /\ UNCHANGED <<rate, burst>>
      BY <2>1 DEF Tick
    <3> QED
      BY <2>1, <3>1, TickStep DEF Ideal!Next, Ideal!Serve, Ideal!Tick, Level, ForAll
  <2>2. ASSUME NEW k \in Keys, Allow(k) PROVE Ideal!Next
    <3>1. /\ Level' = [Level EXCEPT ![k] = IF Level[k] >= Cost THEN Level[k] - Cost ELSE Level[k]]
          /\ out' = <<k, Level[k] >= Cost>>
          /\ UNCHANGED <<rate, burst>>
      BY <2>2, AllowStep, AllowLevel
    <3>2. Ideal!Ask(k)
      BY <3>1 DEF Ideal!Ask, Level, ForAll
    <3> QED
      BY <3>2 DEF Ideal!Next, Ideal!Serve
  <2>3. CASE (\E r \in NewRates : UpdateRate(r)) \/ (\E b \in NewBursts : UpdateBurst(b))
    <3>1. Next /\ UNCHANGED out
      BY <2>3 DEF Next, UpdateRate, UpdateBurst
    <3>2. rate' \in Nat /\ burst' \in Nat /\ Level' \in [Keys -> 0..burst']
      BY <2>3, <3>1, ReloadStep
    <3>3. ASSUME NEW k \in Keys
          PROVE  /\ rate' >= rate => Level'[k] >= Ideal!Capped(Level[k], burst')
                 /\ rate' <= rate /\ Level[k] < burst => Level'[k] <= Level[k]
      BY <2>3, <3>1, ReloadStep DEF Moves, Capped, Ideal!Capped
    <3>4. /\ ForAll(rate) \in [Keys -> Nat] /\ ForAll(burst)' \in [Keys -> Nat]
          /\ ForAll(rate)' \in [Keys -> Nat]
          /\ Level' \in [Keys -> Nat]
          /\ \A k \in Keys : /\ ForAll(rate)[k] = rate /\ ForAll(burst)[k] = burst
                              /\ ForAll(rate)'[k] = rate' /\ ForAll(burst)'[k] = burst'
                              /\ Level'[k] <= burst'
      BY <3>2, ConfigTypes DEF ForAll
    <3>5. Ideal!Reload
      BY <3>1, <3>3, <3>4 DEF Ideal!Reload, Level
    <3> QED
      BY <3>5 DEF Ideal!Next
  <2>4. CASE UNCHANGED vars
    BY <2>4 DEF vars, bucketVars, Ideal!vars, Refilled, ForAll
  <2> QED
    BY <2>1, <2>2, <2>3, <2>4 DEF Next
<1> QED
  BY InitIInv, <1>1, <1>2, <1>3, PTL DEF Spec, RefinesIdeal, Ideal!Spec

\* The same next to the dashboard's limiter, with which it shares the clock.
THEOREM GatewayIsIdeal ==
    ASSUME FillsInTime
    PROVE  LimitsSpec => RefinesIdeal
<1>1. LimitsInit => Init
  BY DEF LimitsInit
<1>2. [LimitsNext]_limitVars => [Next]_vars
  BY DEF LimitsNext, Gateway, Dashboard, limitVars
<1> QED
  BY <1>1, <1>2, LimiterIsIdeal, PTL DEF LimitsSpec, Spec

-----------------------------------------------------------------------------
(* Logging in to the dashboard                                             *)

\* Logins of an address between their two sections.
Pending(a) == {l \in Logins : from[l] = a}

N == Cardinality(Logins)
M == MaxAttempts

AuthTypes ==
    /\ from \in [Logins -> Addresses \cup {Nobody}]
    /\ count \in [Addresses -> Nat]
    /\ sinceTry \in [Addresses -> 0..(Window + 1)]
    /\ blockLeft \in [Addresses -> Nat]
    /\ wrong \in [Addresses -> Nat]
    /\ watched \in {NotYet} \cup 0..(Window + 1)

\* A running block means that the attempts are used up; once they are, the
\* address is blocked until the window has passed since it was last admitted.
BlockInv(a) ==
    /\ blockLeft[a] > 0 => count[a] >= M
    /\ count[a] >= M => sinceTry[a] > Window \/ sinceTry[a] + blockLeft[a] >= Block

\* A wrong token beyond the attempts blocks for the rest of the watch, and
\* then only the logins in progress are left; before, the wrong tokens are
\* those counted, or those of one earlier count, which ended within the watch,
\* besides.
WatchInv(a) ==
    Watching =>
        /\ count[a] >= M =>
              /\ wrong[a] > 0 => blockLeft[a] > Window - watched
              /\ wrong[a] + Cardinality(Pending(a)) <= 2 * (M - 1) + N
        /\ count[a] < M =>
              \/ wrong[a] <= count[a]
              \/ wrong[a] <= (M - 1) + count[a] /\ sinceTry[a] <= watched

GuessInv(a) ==
    /\ BlockInv(a)
    /\ watched = NotYet => wrong[a] = 0
    /\ WatchInv(a)
    /\ wrong[a] <= 2 * (M - 1) + N

AuthInv == AuthTypes /\ \A a \in Addresses : GuessInv(a)

\* The logins in progress are at most all; one that leaves makes one fewer.
LEMMA PendingCount ==
    /\ N \in Nat
    /\ \A a : Cardinality(Pending(a)) \in Nat /\ Cardinality(Pending(a)) <= N
<1>1. \A a : Pending(a) \subseteq Logins
  BY DEF Pending
<1> QED
  BY <1>1, LoginAssumption, FS_Subset, FS_CardinalityType DEF N

LEMMA LeaveCount ==
    ASSUME AuthTypes, NEW l \in Logins, Leave(l), NEW a, a = from[l]
    PROVE  /\ a \in Addresses
           /\ from' \in [Logins -> Addresses \cup {Nobody}]
           /\ Cardinality(Pending(a)') = Cardinality(Pending(a)) - 1
           /\ \A b \in Addresses : b # a => Pending(b)' = Pending(b)
<1>1. a \in Addresses /\ from' = [from EXCEPT ![l] = Nobody]
  BY DEF AuthTypes, Leave
<1>2. from' \in [Logins -> Addresses \cup {Nobody}]
  BY <1>1 DEF AuthTypes
<1>3. Pending(a)' = Pending(a) \ {l}
  BY <1>1, LoginAssumption DEF AuthTypes, Pending
<1>4. IsFiniteSet(Pending(a)) /\ l \in Pending(a)
  BY LoginAssumption, FS_Subset DEF Pending
<1>5. Cardinality(Pending(a) \ {l}) = Cardinality(Pending(a)) - 1
  BY <1>4, FS_RemoveElement
<1>6. \A b \in Addresses : b # a => Pending(b)' = Pending(b)
  BY <1>1, LoginAssumption DEF Pending, AuthTypes
<1> QED
  BY <1>1, <1>2, <1>3, <1>5, <1>6

LEMMA InitAuthInv == AuthInit => AuthInv
<1> SUFFICES ASSUME AuthInit PROVE AuthInv
  OBVIOUS
<1>1. AuthTypes
  BY LoginAssumption DEF AuthInit, AuthTypes
<1>2. ASSUME NEW a \in Addresses PROVE GuessInv(a)
  <2>1. count[a] = 0 /\ blockLeft[a] = 0 /\ wrong[a] = 0 /\ watched = NotYet
    BY DEF AuthInit
  <2> QED
    BY <2>1, PendingCount, LoginAssumption DEF GuessInv, BlockInv, WatchInv, Watching, NotYet, M
<1> QED
  BY <1>1, <1>2 DEF AuthInv

LEMMA NextAuthTypes ==
    ASSUME AuthTypes, [AuthNext]_authVars
    PROVE  AuthTypes'
<1> USE LoginAssumption DEF AuthTypes
<1>1. ASSUME NEW l \in Logins, NEW a \in Addresses, Admit(l, a) PROVE AuthTypes'
  BY <1>1 DEF Admit
<1>2. ASSUME NEW l \in Logins, Malformed(l) PROVE AuthTypes'
  BY <1>2 DEF Malformed, Leave
<1>3. ASSUME NEW l \in Logins, WrongToken(l) PROVE AuthTypes'
  BY <1>3 DEF WrongToken, Leave
<1>4. ASSUME NEW l \in Logins, RightToken(l) PROVE AuthTypes'
  BY <1>4 DEF RightToken, Leave
<1>5. ASSUME NEW c \in Cookies, Visit(c) PROVE AuthTypes'
  BY <1>5 DEF Visit
<1>6. CASE Watch
  BY <1>6 DEF Watch
<1>7. CASE AuthTick
  BY <1>7 DEF AuthTick, Less, Watching
<1>8. CASE UNCHANGED authVars
  BY <1>8 DEF authVars
<1> QED
  BY <1>1, <1>2, <1>3, <1>4, <1>5, <1>6, <1>7, <1>8 DEF AuthNext, Attempt

LEMMA NextGuessInv ==
    ASSUME Block > Window, AuthInv, [AuthNext]_authVars, NEW a \in Addresses
    PROVE  GuessInv(a)'
<1> DEFINE p == Cardinality(Pending(a))
           q == Cardinality(Pending(a)')
<1>c. Window \in Nat /\ Block \in Nat /\ M \in Nat \ {0} /\ N \in Nat
  BY LoginAssumption, PendingCount DEF M
<1>p. /\ p \in Nat /\ p <= N
      /\ q \in Nat /\ q <= N
  <2>1. p \in Nat /\ p <= N
    BY PendingCount
  <2>2. Pending(a)' \subseteq Logins
    BY DEF Pending
  <2>3. q \in Nat /\ q <= N
    BY <2>2, LoginAssumption, FS_Subset, FS_CardinalityType DEF N
  <2> QED
    BY <2>1, <2>3
<1>t. /\ count[a] \in Nat /\ sinceTry[a] \in 0..(Window + 1) /\ blockLeft[a] \in Nat
      /\ wrong[a] \in Nat /\ watched \in {-1} \cup 0..(Window + 1)
  BY <1>c DEF AuthInv, AuthTypes, NotYet
<1>g. GuessInv(a) /\ AuthTypes
  BY DEF AuthInv
\* What the invariant says, and what it will say, in numbers.
<1>i. /\ blockLeft[a] > 0 => count[a] >= M
      /\ count[a] >= M => sinceTry[a] > Window \/ sinceTry[a] + blockLeft[a] >= Block
      /\ watched = -1 => wrong[a] = 0
      /\ watched \in 0..Window =>
            /\ count[a] >= M => /\ wrong[a] > 0 => blockLeft[a] > Window - watched
                                /\ wrong[a] + p <= 2 * (M - 1) + N
            /\ count[a] < M => \/ wrong[a] <= count[a]
                               \/ wrong[a] <= (M - 1) + count[a] /\ sinceTry[a] <= watched
      /\ wrong[a] <= 2 * (M - 1) + N
  BY <1>g DEF GuessInv, BlockInv, WatchInv, Watching, NotYet
<1> DEFINE Goal ==
      /\ blockLeft'[a] > 0 => count'[a] >= M
      /\ count'[a] >= M => sinceTry'[a] > Window \/ sinceTry'[a] + blockLeft'[a] >= Block
      /\ watched' = -1 => wrong'[a] = 0
      /\ watched' \in 0..Window =>
            /\ count'[a] >= M => /\ wrong'[a] > 0 => blockLeft'[a] > Window - watched'
                                 /\ wrong'[a] + q <= 2 * (M - 1) + N
            /\ count'[a] < M => \/ wrong'[a] <= count'[a]
                                \/ wrong'[a] <= (M - 1) + count'[a] /\ sinceTry'[a] <= watched'
      /\ wrong'[a] <= 2 * (M - 1) + N
<1>s. SUFFICES Goal
  BY <1>s DEF GuessInv, BlockInv, WatchInv, Watching, NotYet, M, N
<1> HIDE DEF p, q
\* Steps of other addresses, and of nobody.
<1>0. ASSUME q <= p, UNCHANGED <<watched>>,
             count'[a] = count[a], sinceTry'[a] = sinceTry[a], blockLeft'[a] = blockLeft[a],
             wrong'[a] = wrong[a]
      PROVE  Goal
  BY <1>0, <1>c, <1>p, <1>t, <1>i
<1>1. ASSUME NEW l \in Logins, NEW b \in Addresses, Admit(l, b) PROVE Goal
  <2>1. CASE b = a
    <3>1. /\ blockLeft[a] = 0 /\ blockLeft'[a] = 0 /\ sinceTry'[a] = 0
          /\ count'[a] = (IF sinceTry[a] > Window THEN 0 ELSE count[a])
          /\ watched' = watched /\ wrong'[a] = wrong[a]
      BY <1>1, <1>g, <2>1 DEF Admit, AuthTypes
    <3> QED
      BY <3>1, <1>c, <1>p, <1>t, <1>i
  <2>2. CASE b # a
    <3>1. q = p
      <4>1. Pending(a)' = Pending(a)
        BY <1>1, <1>g, <2>2, LoginAssumption DEF Admit, AuthTypes, Pending
      <4> QED
        BY <4>1 DEF p, q
    <3>2. /\ watched' = watched /\ wrong'[a] = wrong[a] /\ count'[a] = count[a]
          /\ sinceTry'[a] = sinceTry[a] /\ blockLeft'[a] = blockLeft[a]
      BY <1>1, <1>g, <2>2 DEF Admit, AuthTypes
    <3> QED
      BY <1>0, <1>p, <3>1, <3>2
  <2> QED
    BY <2>1, <2>2
<1>2. ASSUME NEW l \in Logins, Leave(l)
      PROVE  /\ from[l] \in Addresses
             /\ from[l] = a => q = p - 1
             /\ from[l] # a => q = p
  BY <1>2, <1>g, LeaveCount DEF p, q
<1>3. ASSUME NEW l \in Logins, Malformed(l) PROVE Goal
  <2>1. Leave(l) /\ q <= p
    BY <1>2, <1>3, <1>p DEF Malformed
  <2> QED
    BY <1>0, <1>3, <2>1 DEF Malformed
<1>4. ASSUME NEW l \in Logins, WrongToken(l) PROVE Goal
  <2>1. Leave(l)
    BY <1>4 DEF WrongToken
  <2>2. CASE from[l] = a
    <3>1. /\ q = p - 1 /\ watched' = watched /\ sinceTry'[a] = sinceTry[a]
          /\ count'[a] = count[a] + 1
          /\ blockLeft'[a] = (IF count[a] + 1 >= M THEN Block ELSE blockLeft[a])
          /\ wrong'[a] = (IF watched \in 0..Window THEN wrong[a] + 1 ELSE wrong[a])
      BY <1>2, <1>4, <1>g, <2>1, <2>2 DEF WrongToken, AuthTypes, M, Watching
    <3> QED
      BY <3>1, <1>c, <1>p, <1>t, <1>i
  <2>3. CASE from[l] # a
    <3>1. /\ q = p /\ watched' = watched /\ wrong'[a] = wrong[a] /\ count'[a] = count[a]
          /\ sinceTry'[a] = sinceTry[a] /\ blockLeft'[a] = blockLeft[a]
      BY <1>2, <1>4, <1>g, <2>1, <2>3 DEF WrongToken, AuthTypes
    <3> QED
      BY <1>0, <1>p, <3>1
  <2> QED
    BY <2>2, <2>3
<1>5. ASSUME NEW l \in Logins, RightToken(l) PROVE Goal
  <2>1. Leave(l)
    BY <1>5 DEF RightToken
  <2>2. CASE from[l] = a
    <3>1. /\ watched' = watched /\ wrong'[a] = 0 /\ count'[a] = 0 /\ blockLeft'[a] = 0
      BY <1>5, <1>g, <2>2 DEF RightToken, AuthTypes
    <3> QED
      BY <3>1, <1>c, <1>p, <1>t
  <2>3. CASE from[l] # a
    <3>1. /\ q = p /\ watched' = watched /\ wrong'[a] = wrong[a] /\ count'[a] = count[a]
          /\ sinceTry'[a] = sinceTry[a] /\ blockLeft'[a] = blockLeft[a]
      BY <1>2, <1>5, <1>g, <2>1, <2>3 DEF RightToken, AuthTypes
    <3> QED
      BY <1>0, <1>p, <3>1
  <2> QED
    BY <2>2, <2>3
<1>6. ASSUME UNCHANGED from PROVE q = p
  BY <1>6 DEF p, q, Pending
<1>7. ASSUME NEW c \in Cookies, Visit(c) PROVE Goal
  BY <1>0, <1>6, <1>7, <1>p DEF Visit
<1>8. CASE Watch
  <2>1. /\ watched = -1 /\ watched' = 0 /\ q = p
        /\ UNCHANGED <<count, sinceTry, blockLeft, wrong>>
    BY <1>6, <1>8 DEF Watch, NotYet
  <2> QED
    BY <2>1, <1>c, <1>p, <1>t, <1>i
<1>9. CASE AuthTick
  <2>1. /\ q = p /\ UNCHANGED <<count, wrong>>
        /\ sinceTry'[a] = (IF sinceTry[a] <= Window THEN sinceTry[a] + 1 ELSE sinceTry[a])
        /\ blockLeft'[a] = (IF blockLeft[a] > 0 THEN blockLeft[a] - 1 ELSE 0)
        /\ watched' = (IF watched \in 0..Window THEN watched + 1 ELSE watched)
    BY <1>6, <1>9 DEF AuthTick, Less, Watching
  <2> QED
    BY <2>1, <1>c, <1>p, <1>t, <1>i
<1>10. CASE UNCHANGED authVars
  BY <1>0, <1>6, <1>10, <1>p DEF authVars
<1> QED
  BY <1>1, <1>3, <1>4, <1>5, <1>7, <1>8, <1>9, <1>10 DEF AuthNext, Attempt

\* In any stretch as long as the window, an address has at most
\* 2 * (maxLoginAttempts - 1) wrong tokens compared and one for each login in
\* progress, for every number of attempts, concurrent logins and addresses and
\* every window shorter than the block: handleAuth's two critical sections
\* leave no other way around its count.
THEOREM GuessesAreBounded == AuthSpec => []GuessesBounded
<1>1. CASE Block > Window
  <2>1. AuthInv /\ [AuthNext]_authVars => AuthInv'
    BY <1>1, NextAuthTypes, NextGuessInv DEF AuthInv
  <2>2. AuthInv => GuessesBounded
    BY DEF AuthInv, GuessInv, GuessesBounded, M, N
  <2> QED
    BY InitAuthInv, <2>1, <2>2, PTL DEF AuthSpec
<1>2. CASE ~(Block > Window)
  <2>1. GuessesBounded
    BY <1>2 DEF GuessesBounded
  <2> QED
    BY <2>1, PTL
<1> QED
  BY <1>1, <1>2

\* The bound holds next to the gateway's limiter as well.
THEOREM LoginsAreBounded == LimitsSpec => []GuessesBounded
<1>1. LimitsInit => AuthInit
  BY DEF LimitsInit
<1>2. [LimitsNext]_limitVars => [AuthNext]_authVars
  BY DEF LimitsNext, Gateway, Dashboard, limitVars
<1> QED
  BY <1>1, <1>2, GuessesAreBounded, PTL DEF LimitsSpec, AuthSpec
============
