---------------------------- MODULE ChainProofs ----------------------------
(***************************************************************************)
(* The breaker's safety properties for every number of requests and every  *)
(* set of configurations that validateConfig accepts; and the chain, which *)
(* implements its parts: the breaker, so that what holds of it alone holds *)
(* of it in the chain, and a bucket of its own for every tenant, whatever  *)
(* the breaker and the other tenants do.                                   *)
(***************************************************************************)
EXTENDS Chain, FiniteSetTheorems, TLAPS

-----------------------------------------------------------------------------
(* The breaker by itself: its inductive invariant *)

\* What a half-open period owes: slots are held by requests in flight, and
\* whoever was admitted holds a slot or has been paid for by a success.
HalfOpenInv ==
    state = "HalfOpen" =>
        /\ halfOpenActive <= Cardinality(inflight)
        /\ halfOpenActive <= MaxSuccess
        /\ successCount <= MaxSuccess - 1
        /\ admitted <= halfOpenActive + successCount

\* The open period is measured from its start or from a later failure.
OpenInv == state = "Open" => age <= openFor

IInv == TypeOK /\ HalfOpenInv /\ OpenInv /\ ClosedCountsStreak

\* What TypeOK and the assumption say of the installed configuration.
LEMMA ConfigType ==
    ASSUME TypeOK
    PROVE  /\ config.fail \in 1..MaxFailure
           /\ config.succ \in 0..MaxSuccess
           /\ config.timeout \in 0..MaxTimeout
           /\ MaxFailure \in Nat /\ MaxSuccess \in Nat \ {0}
           /\ MaxTimeout \in Nat
BY BreakerAssumption DEF TypeOK

\* The set of requests in flight is finite; a request that comes back leaves
\* one fewer, a request that is admitted makes one more.
LEMMA InflightCount ==
    ASSUME TypeOK, NEW r \in Requests
    PROVE  /\ IsFiniteSet(inflight)
           /\ Cardinality(inflight) \in Nat
           /\ r \notin inflight =>
                Cardinality(inflight \cup {r}) = Cardinality(inflight) + 1
           /\ r \in inflight =>
                /\ Cardinality(inflight \ {r}) = Cardinality(inflight) - 1
                /\ Cardinality(inflight \ {r}) \in Nat
<1>1. IsFiniteSet(inflight)
  BY BreakerAssumption, FS_Subset DEF TypeOK
<1>2. QED
  BY <1>1, FS_CardinalityType, FS_AddElement, FS_RemoveElement

-----------------------------------------------------------------------------
\* Initially the breaker is closed with nothing counted.
LEMMA InitIInv == Init => IInv
BY BreakerAssumption
   DEF Init, IInv, TypeOK, HalfOpenInv, OpenInv, ClosedCountsStreak, Long

\* Every step keeps the types.
LEMMA NextTypeOK == TypeOK /\ [Next]_vars => TypeOK'
<1> SUFFICES ASSUME TypeOK, [Next]_vars PROVE TypeOK'
  OBVIOUS
<1> USE BreakerAssumption DEF TypeOK, Long
<1>1. ASSUME NEW r \in Requests, Allow(r) PROVE TypeOK'
  BY <1>1, ConfigType DEF Allow, AllowClosed, AllowOpen, AllowHalfOpen
<1>2. ASSUME NEW r \in Requests, Record(r) PROVE TypeOK'
  <2>1. CASE FailHalfOpen(r)
    BY <2>1 DEF FailHalfOpen, Leave
  <2>2. CASE FailElse(r)
    BY <2>2 DEF FailElse, Leave
  <2>3. CASE SucceedHalfOpen(r)
    BY <2>3 DEF SucceedHalfOpen, Leave
  <2>4. CASE SucceedElse(r)
    BY <2>4 DEF SucceedElse, Leave
  <2>5. QED
    BY <1>2, <2>1, <2>2, <2>3, <2>4 DEF Record
<1>3. CASE Reset
  BY <1>3 DEF Reset
<1>4. CASE UpdateConfig
  BY <1>4 DEF UpdateConfig
<1>5. CASE Tick
  BY <1>5 DEF Tick, Older
<1>6. CASE UNCHANGED vars
  BY <1>6 DEF vars
<1>7. QED
  BY <1>1, <1>2, <1>3, <1>4, <1>5, <1>6 DEF Next

\* Every step keeps the account of a half-open period.
LEMMA NextHalfOpenInv == IInv /\ [Next]_vars => HalfOpenInv'
<1> SUFFICES ASSUME IInv, [Next]_vars PROVE HalfOpenInv'
  OBVIOUS
<1> USE BreakerAssumption DEF IInv, HalfOpenInv
<1>0. TypeOK /\ TypeOK'
  BY NextTypeOK
<1>c. /\ config.succ \in 0..MaxSuccess /\ MaxSuccess \in Nat \ {0}
      /\ halfOpenActive \in Nat /\ successCount \in Nat /\ admitted \in Nat
  BY <1>0, ConfigType DEF TypeOK
<1>1. ASSUME NEW r \in Requests, Allow(r) PROVE HalfOpenInv'
  <2>0. /\ Cardinality(inflight) \in Nat
        /\ r \notin inflight =>
             Cardinality(inflight \cup {r}) = Cardinality(inflight) + 1
    BY <1>0, InflightCount
  <2>1. CASE AllowClosed(r)
    BY <2>1 DEF AllowClosed
  <2>2. CASE AllowOpen(r)
    BY <2>0, <2>2, <1>c DEF AllowOpen
  <2>3. CASE AllowHalfOpen(r)
    BY <2>0, <2>3, <1>c DEF AllowHalfOpen
  <2>4. QED
    BY <1>1, <2>1, <2>2, <2>3 DEF Allow
<1>2. ASSUME NEW r \in Requests, Record(r) PROVE HalfOpenInv'
  <2>0. /\ Cardinality(inflight) \in Nat
        /\ r \in inflight =>
             /\ Cardinality(inflight \ {r}) = Cardinality(inflight) - 1
             /\ Cardinality(inflight \ {r}) \in Nat
    BY <1>0, InflightCount
  <2>1. CASE FailHalfOpen(r) \/ FailElse(r) \/ SucceedElse(r)
    BY <2>1 DEF FailHalfOpen, FailElse, SucceedElse
  <2>2. CASE SucceedHalfOpen(r)
    BY <2>2, <2>0, <1>c DEF SucceedHalfOpen, Leave
  <2>3. QED
    BY <1>2, <2>1, <2>2 DEF Record
<1>3. CASE Reset \/ UpdateConfig \/ Tick \/ UNCHANGED vars
  BY <1>3 DEF Reset, UpdateConfig, Tick, vars
<1>4. QED
  BY <1>1, <1>2, <1>3 DEF Next

\* Every step keeps the open period anchored.
LEMMA NextOpenInv == IInv /\ [Next]_vars => OpenInv'
<1> SUFFICES ASSUME IInv, [Next]_vars PROVE OpenInv'
  OBVIOUS
<1> USE DEF OpenInv
<1>0. age \in 0..Long /\ openFor \in 0..Long /\ MaxTimeout \in Nat
  BY BreakerAssumption DEF IInv, TypeOK
<1>1. ASSUME NEW r \in Requests, Allow(r) PROVE OpenInv'
  BY <1>1 DEF IInv, Allow, AllowClosed, AllowOpen, AllowHalfOpen
<1>2. ASSUME NEW r \in Requests, Record(r) PROVE OpenInv'
  BY <1>0, <1>2 DEF IInv, Record, FailHalfOpen, FailElse, SucceedHalfOpen,
                    SucceedElse, Long
<1>3. CASE Reset \/ UpdateConfig \/ UNCHANGED vars
  BY <1>3 DEF IInv, Reset, UpdateConfig, vars
<1>4. CASE Tick
  BY <1>0, <1>4 DEF IInv, Tick, Older, Long
<1>5. QED
  BY <1>1, <1>2, <1>3, <1>4 DEF Next

\* Every step keeps failureCount equal to the streak while closed.
LEMMA NextClosedInv == IInv /\ [Next]_vars => ClosedCountsStreak'
<1> SUFFICES ASSUME IInv, [Next]_vars PROVE ClosedCountsStreak'
  OBVIOUS
<1> USE DEF ClosedCountsStreak
<1>0. /\ config.fail \in 1..MaxFailure /\ MaxFailure \in Nat
      /\ failureCount \in Nat /\ streak \in Nat
  BY ConfigType DEF IInv, TypeOK
<1>1. ASSUME NEW r \in Requests, Allow(r) PROVE ClosedCountsStreak'
  BY <1>1 DEF IInv, Allow, AllowClosed, AllowOpen, AllowHalfOpen
<1>2. ASSUME NEW r \in Requests, Record(r) PROVE ClosedCountsStreak'
  BY <1>0, <1>2 DEF IInv, Record, FailHalfOpen, FailElse, SucceedHalfOpen,
                    SucceedElse
<1>3. CASE Reset \/ UpdateConfig \/ Tick \/ UNCHANGED vars
  BY <1>0, <1>3 DEF IInv, Reset, UpdateConfig, Tick, vars
<1>4. QED
  BY <1>1, <1>2, <1>3 DEF Next

\* The invariant of the breaker (RecordFailure, RecordSuccess, Allow, Reset and
\* UpdateConfig under any interleaving).
THEOREM BreakerInvariant == Spec => []IInv
<1>1. IInv /\ [Next]_vars => IInv'
  BY NextTypeOK, NextHalfOpenInv, NextOpenInv, NextClosedInv DEF IInv
<1>2. QED
  BY InitIInv, <1>1, PTL DEF Spec

\* Type correctness of the breaker's fields.
THEOREM BreakerTypes == Spec => []TypeOK
BY BreakerInvariant, PTL DEF IInv

\* A half-open breaker never runs out of slots for good.
THEOREM NeverStuck == Spec => []HalfOpenNotStuck
<1>1. IInv => HalfOpenNotStuck
  <2> SUFFICES ASSUME IInv, state = "HalfOpen"
               PROVE  /\ halfOpenActive <= Cardinality(inflight)
                      /\ inflight = {} /\ config.succ > 0 =>
                            halfOpenActive < config.succ
    BY DEF HalfOpenNotStuck
  <2>1. halfOpenActive <= Cardinality(inflight)
    BY DEF IInv, HalfOpenInv
  <2>2. config.succ \in Nat /\ halfOpenActive \in Nat
    BY ConfigType DEF IInv, TypeOK
  <2>3. QED
    BY <2>1, <2>2, FS_EmptySet
<1>2. QED
  BY BreakerInvariant, <1>1, PTL

\* One half-open period admits at most 2 * successThreshold - 1 requests.
THEOREM ProbesAreBounded == Spec => []ProbesBounded
<1>1. IInv => ProbesBounded
  BY BreakerAssumption DEF IInv, TypeOK, HalfOpenInv, ProbesBounded
<1>2. QED
  BY BreakerInvariant, <1>1, PTL

\* While closed, failureCount is the streak of failures since closing.
THEOREM CountsTheStreak == Spec => []ClosedCountsStreak
BY BreakerInvariant, PTL DEF IInv

\* The breaker trips only on failureThreshold failures in a row.
THEOREM TripsOnlyOnStreak == Spec => TripsOnStreak
<1>1. IInv /\ [Next]_vars =>
        [state = "Closed" /\ state' = "Open" => streak' >= config.fail]_vars
  <2> SUFFICES ASSUME IInv, Next, state = "Closed", state' = "Open"
               PROVE  streak' >= config.fail
    OBVIOUS
  <2>0. /\ config.fail \in Nat /\ failureCount \in Nat /\ streak \in Nat
        /\ failureCount = streak
    BY ConfigType DEF IInv, TypeOK, ClosedCountsStreak
  <2>1. PICK r \in Requests : FailElse(r)
    BY DEF Next, Allow, AllowClosed, AllowOpen, AllowHalfOpen, Record,
           FailHalfOpen, SucceedHalfOpen, SucceedElse, Reset, UpdateConfig, Tick
  <2>2. QED
    BY <2>0, <2>1 DEF FailElse
<1>2. QED
  BY BreakerInvariant, <1>1, PTL DEF Spec, TripsOnStreak

\* The open period lasts longer than timeout.
THEOREM StaysQuiet == Spec => QuietPeriod
<1>1. IInv /\ [Next]_vars =>
        [state = "Open" /\ state' = "HalfOpen" => openFor > config.timeout]_vars
  <2> SUFFICES ASSUME IInv, Next, state = "Open", state' = "HalfOpen"
               PROVE  openFor > config.timeout
    OBVIOUS
  <2>0. /\ config.timeout \in Nat /\ age \in Int /\ openFor \in Int
        /\ age <= openFor
    BY ConfigType, BreakerAssumption DEF IInv, TypeOK, OpenInv, Long
  <2>1. PICK r \in Requests : AllowOpen(r)
    BY DEF Next, Allow, AllowClosed, AllowHalfOpen, Record, FailElse,
           FailHalfOpen, SucceedHalfOpen, SucceedElse, Reset, UpdateConfig, Tick
  <2>2. QED
    BY <2>0, <2>1 DEF AllowOpen
<1>2. QED
  BY BreakerInvariant, <1>1, PTL DEF Spec, QuietPeriod

-----------------------------------------------------------------------------
(* The breaker within the chain                                            *)

\* A step of the chain is a step of the breaker or leaves it alone.
LEMMA ChainStep ==
    ASSUME [ChainNext]_chainVars
    PROVE  [Next]_vars
<1>1. ASSUME NEW r \in Requests, Enter(r) PROVE Next
  BY <1>1 DEF Enter, Next
<1>2. ASSUME NEW r \in Requests, Check(r) PROVE UNCHANGED vars
  BY <1>2 DEF Check
<1>3. ASSUME NEW r \in Requests, Fail(r) \/ Succeed(r) PROVE Next
  BY <1>3 DEF Fail, Succeed, Next, Record
<1>4. CASE Manage \/ Clock
  BY <1>4 DEF Manage, Clock, Next
<1>5. CASE UNCHANGED chainVars
  BY <1>5 DEF chainVars
<1> QED
  BY <1>1, <1>2, <1>3, <1>4, <1>5 DEF ChainNext

\* The chain of main implements the circuit breaker, for any tenants: refusals
\* of the tenant middleware are failures like any other.
THEOREM ChainIsBreaker == ChainSpec => Spec
<1>1. ChainInit => Init
  BY DEF ChainInit
<1> QED
  BY <1>1, ChainStep, PTL DEF ChainSpec, Spec

\* In the chain, too, a half-open breaker is never stuck and bounds its probes,
\* trips on a streak only and stays open for its timeout.
THEOREM BreakerInChain ==
    ChainSpec => []HalfOpenNotStuck /\ []ProbesBounded /\ TripsOnStreak /\ QuietPeriod
BY ChainIsBreaker, NeverStuck, ProbesAreBounded, TripsOnlyOnStreak, StaysQuiet, PTL

-----------------------------------------------------------------------------
(* The tenants' buckets                                                    *)

TenantInv ==
    /\ tokens \in [Tenants -> Nat]
    /\ idle \in [Tenants -> 0..MaxIdle]
    /\ \A t \in Tenants : tokens[t] <= TenantBurst[t]

LEMMA Product ==
    ASSUME NEW m \in Nat, NEW n \in Nat
    PROVE  m * n \in Nat /\ (m + 1) * n = m * n + n
OBVIOUS

LEMMA RefillType ==
    ASSUME TenantInv, NEW t \in Tenants
    PROVE  Refill(t) \in Nat /\ Refill(t) <= TenantBurst[t]
<1>1. idle[t] * RPS[t] \in Nat
  BY Product, TenantAssumption DEF TenantInv
<1>2. tokens[t] \in Nat /\ TenantBurst[t] \in Nat
  BY TenantAssumption DEF TenantInv
<1> QED
  BY <1>1, <1>2 DEF Refill, AtMost

LEMMA TenantInitInv == ChainInit => TenantInv
BY TenantAssumption DEF ChainInit, TenantInit, TenantInv

\* The bucket of t is asked, and the answer is given for t.
Answers(t) == Ask(t) /\ verdict' = <<t, Enough(t)>>

\* A step of the chain is, for the tenants, a question, the clock or nothing.
LEMMA TenantCases ==
    ASSUME [ChainNext]_chainVars
    PROVE  \/ \E t \in Limited : Answers(t)
           \/ TenantTick
           \/ UNCHANGED <<tokens, idle, verdict>>
<1>1. ASSUME NEW r \in Requests, Enter(r) PROVE UNCHANGED <<tokens, idle, verdict>>
  BY <1>1 DEF Enter, tenantVars
<1>2. ASSUME NEW r \in Requests, Check(r)
      PROVE (\E t \in Limited : Answers(t)) \/ UNCHANGED <<tokens, idle, verdict>>
  BY <1>2 DEF Check, CheckTenant, Answers
<1>3. ASSUME NEW r \in Requests, Fail(r) \/ Succeed(r)
      PROVE UNCHANGED <<tokens, idle, verdict>>
  BY <1>3 DEF Fail, Succeed, Back, tenantVars
<1>4. CASE Manage
  BY <1>4 DEF Manage, tenantVars
<1>5. CASE Clock
  BY <1>5 DEF Clock
<1>6. CASE UNCHANGED chainVars
  BY <1>6 DEF chainVars, tenantVars
<1> QED
  BY <1>1, <1>2, <1>3, <1>4, <1>5, <1>6 DEF ChainNext

\* A question changes the bucket of its tenant alone.
LEMMA AskStep ==
    ASSUME TenantInv, NEW t \in Limited, Answers(t)
    PROVE  /\ TenantInv'
           /\ verdict' = <<t, Refill(t) >= TenantCost>>
           /\ Refill(t)' = IF Refill(t) >= TenantCost THEN Refill(t) - TenantCost ELSE Refill(t)
           /\ \A u \in Limited \ {t} : Refill(u)' = Refill(u)
<1> DEFINE paid == IF Refill(t) >= TenantCost THEN Refill(t) - TenantCost ELSE Refill(t)
<1>1. t \in Tenants
  BY DEF Limited
<1>2. paid \in Nat /\ paid <= TenantBurst[t] /\ TenantBurst[t] \in Nat
  BY <1>1, RefillType, TenantAssumption
<1>3. /\ tokens' = [tokens EXCEPT ![t] = paid]
      /\ idle' = [idle EXCEPT ![t] = 0]
      /\ verdict' = <<t, Refill(t) >= TenantCost>>
  BY DEF Answers, Ask, Enough
<1> HIDE DEF paid
<1>4. TenantInv'
  BY <1>1, <1>2, <1>3, TenantAssumption DEF TenantInv
<1>5. Refill(t)' = paid
  <2>1. tokens'[t] = paid /\ idle'[t] = 0
    BY <1>1, <1>3 DEF TenantInv
  <2>2. Refill(t)' = AtMost(paid + 0 * RPS[t], TenantBurst[t])
    BY <2>1 DEF Refill
  <2>3. 0 * RPS[t] = 0
    BY <1>1, TenantAssumption
  <2> QED
    BY <1>2, <2>2, <2>3 DEF AtMost
<1>6. ASSUME NEW u \in Limited \ {t} PROVE Refill(u)' = Refill(u)
  BY <1>3 DEF Refill, Limited, TenantInv
<1> QED
  BY <1>3, <1>4, <1>5, <1>6 DEF paid

\* A tick adds a tick's worth to every bucket, or finds it full.
LEMMA TickStep ==
    ASSUME TenantInv, TenantTick
    PROVE  /\ TenantInv'
           /\ \A t \in Limited : Refill(t)' = AtMost(Refill(t) + RPS[t], TenantBurst[t])
<1>1. TenantInv'
  BY TenantAssumption DEF TenantTick, TenantInv, AtMost
<1>2. ASSUME NEW t \in Limited
      PROVE  Refill(t)' = AtMost(Refill(t) + RPS[t], TenantBurst[t])
  <2> DEFINE gained == idle[t] * RPS[t]
  <2>1. /\ t \in Tenants /\ RPS[t] \in Nat /\ RPS[t] > 0 /\ TenantBurst[t] \in Nat
        /\ tokens[t] \in Nat /\ idle[t] \in 0..MaxIdle /\ MaxIdle \in Nat
        /\ MaxIdle * RPS[t] >= TenantBurst[t]
    BY <1>2, TenantAssumption DEF Limited, TenantInv
  <2>2. gained \in Nat /\ (idle[t] + 1) * RPS[t] = gained + RPS[t]
    BY <2>1, Product
  <2>3. tokens'[t] = tokens[t] /\ idle'[t] = AtMost(idle[t] + 1, MaxIdle)
    BY <2>1 DEF TenantTick
  <2>4. Refill(t)' = AtMost(tokens[t] + AtMost(idle[t] + 1, MaxIdle) * RPS[t], TenantBurst[t])
    BY <2>3 DEF Refill
  <2>5. Refill(t) = AtMost(tokens[t] + gained, TenantBurst[t])
    BY DEF Refill
  <2>6. CASE idle[t] < MaxIdle
    <3>1. AtMost(idle[t] + 1, MaxIdle) = idle[t] + 1
      BY <2>1, <2>6 DEF AtMost
    <3>2. Refill(t)' = AtMost(tokens[t] + (gained + RPS[t]), TenantBurst[t])
      BY <2>2, <2>4, <3>1
    <3> HIDE DEF gained
    <3> QED
      BY <2>1, <2>2, <2>5, <3>2 DEF AtMost
  <2>7. CASE idle[t] = MaxIdle
    <3>1. AtMost(idle[t] + 1, MaxIdle) = MaxIdle
      BY <2>1, <2>7 DEF AtMost
    <3>2. gained >= TenantBurst[t]
      BY <2>1, <2>7
    <3>3. Refill(t)' = AtMost(tokens[t] + gained, TenantBurst[t])
      BY <2>4, <2>7, <3>1
    <3> HIDE DEF gained
    <3>4. gained \in Nat /\ tokens[t] \in Nat /\ TenantBurst[t] \in Nat
      BY <2>1, <2>2
    <3>5. AtMost(tokens[t] + gained, TenantBurst[t]) = TenantBurst[t]
      BY <3>2, <3>4 DEF AtMost
    <3>6. AtMost(TenantBurst[t] + RPS[t], TenantBurst[t]) = TenantBurst[t]
      BY <2>1 DEF AtMost
    <3> QED
      BY <2>5, <3>3, <3>5, <3>6
  <2> QED
    BY <2>1, <2>6, <2>7
<1> QED
  BY <1>1, <1>2

\* For any tenants, rates, bursts, defaults and path rules, and whatever the
\* breaker does, each tenant's verdicts are those of a bucket of its own.
THEOREM TenantsHaveOwnBuckets == ChainSpec => OwnBuckets
<1> DEFINE Levels == [t \in Limited |-> Refill(t)]
<1>1. ChainInit => Ideal!Init
  <2> SUFFICES ASSUME ChainInit PROVE Ideal!Init
    OBVIOUS
  <2>1. ASSUME NEW t \in Limited PROVE Refill(t) = TenantBurst[t]
    <3>1. t \in Tenants /\ tokens[t] = TenantBurst[t] /\ idle[t] = 0
      BY DEF ChainInit, TenantInit, Limited
    <3>2. 0 * RPS[t] = 0 /\ TenantBurst[t] \in Nat
      BY <3>1, TenantAssumption
    <3> QED
      BY <3>1, <3>2 DEF Refill, AtMost
  <2> QED
    BY <2>1 DEF Ideal!Init, OfLimited, ChainInit, TenantInit
<1>2. ASSUME TenantInv, [ChainNext]_chainVars
      PROVE  TenantInv' /\ [Ideal!Serve]_(Ideal!vars)
  <2>1. ASSUME NEW t \in Limited, Answers(t) PROVE TenantInv' /\ Ideal!Serve
    <3>1. Levels' = [Levels EXCEPT ![t] = IF @ >= TenantCost THEN @ - TenantCost ELSE @]
      BY <1>2, <2>1, AskStep
    <3>2. verdict' = <<t, Levels[t] >= TenantCost>> /\ TenantInv'
      BY <1>2, <2>1, AskStep
    <3>3. Ideal!Ask(t)
      BY <3>1, <3>2 DEF Ideal!Ask
    <3> QED
      BY <3>2, <3>3 DEF Ideal!Serve
  <2>2. CASE TenantTick
    <3>1. TenantInv' /\ Levels' = [t \in Limited |-> Ideal!Capped(Levels[t] + RPS[t], TenantBurst[t])]
      BY <1>2, <2>2, TickStep DEF Ideal!Capped, AtMost
    <3>2. verdict' = <<>>
      BY <2>2 DEF TenantTick
    <3> QED
      BY <3>1, <3>2 DEF Ideal!Serve, Ideal!Tick, OfLimited
  <2>3. CASE UNCHANGED <<tokens, idle, verdict>>
    BY <1>2, <2>3 DEF TenantInv, Refill, Ideal!vars
  <2> QED
    BY <1>2, <2>1, <2>2, <2>3, TenantCases
<1> QED
  BY <1>1, <1>2, TenantInitInv, PTL DEF ChainSpec, OwnBuckets, Ideal!SteadySpec
=============================================================================
