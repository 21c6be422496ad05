--------------------------- MODULE CircuitBreaker ---------------------------
(***************************************************************************)
(* The three-state circuit breaker of internal/middleware/circuitbreaker.go *)
(* under concurrent requests.  Allow, RecordFailure, RecordSuccess, Reset  *)
(* and UpdateConfig each hold the breaker's mutex, so each is one step;    *)
(* between Allow and Record* a request is in flight and anything happens.  *)
(* A refused request leaves no trace and is no action.                     *)
(***************************************************************************)
EXTENDS Integers, FiniteSets

CONSTANTS
    Requests,    \* requests that can be in flight at once
    Configs,     \* configurations a reload may install
    MaxFailure,  \* bounds on what Configs holds
    MaxSuccess,
    MaxTimeout

ASSUME BreakerAssumption ==
    /\ IsFiniteSet(Requests)
    /\ Configs # {}
    /\ MaxFailure \in Nat /\ MaxSuccess \in Nat \ {0} /\ MaxTimeout \in Nat
    \* validateConfig requires failure_threshold > 0 and nothing of the others
    /\ Configs \subseteq [fail : 1..MaxFailure, succ : 0..MaxSuccess,
                          timeout : 0..MaxTimeout]

VARIABLES
    state, failureCount, successCount, halfOpenActive,
    age,        \* time.Since(lastFailure), MaxTimeout + 1 standing for "long"
    config,     \* failureThreshold, successThreshold, timeout
    inflight,   \* requests between Allow and Record*
    admitted,   \* history: how many requests this half-open period admitted
    streak,     \* history: failures in a row recorded since the breaker closed
    openFor     \* history: time since the breaker last opened

vars == <<state, failureCount, successCount, halfOpenActive, age, config,
          inflight, admitted, streak, openFor>>

Long == MaxTimeout + 1

Init ==
    /\ state = "Closed"
    /\ failureCount = 0 /\ successCount = 0 /\ halfOpenActive = 0
    /\ age = Long
    /\ config \in Configs
    /\ inflight = {} /\ admitted = 0
    /\ streak = 0 /\ openFor = Long

-----------------------------------------------------------------------------
(* Allow returning true, by state *)

AllowClosed(r) ==
    /\ state = "Closed"
    /\ r \notin inflight
    /\ inflight' = inflight \cup {r}
    /\ UNCHANGED <<state, failureCount, successCount, halfOpenActive, age,
                   config, admitted, streak, openFor>>

\* Mutant: the open period is measured with >= and so ends a tick early.
AllowOpen_Early(r) ==
    /\ state = "Open"
    /\ r \notin inflight
    /\ age >= config.timeout
    /\ state' = "HalfOpen"
    /\ successCount' = 0 /\ halfOpenActive' = 1
    /\ inflight' = inflight \cup {r}
    /\ admitted' = 1
    /\ UNCHANGED <<failureCount, age, config, streak, openFor>>

\* Mutant: successCount survives from the previous half-open period, and the
\* first probe is not counted.
AllowOpen_NoReset(r) ==
    /\ state = "Open"
    /\ r \notin inflight
    /\ age > config.timeout
    /\ state' = "HalfOpen"
    /\ halfOpenActive' = 0
    /\ inflight' = inflight \cup {r}
    /\ admitted' = 1
    /\ UNCHANGED <<failureCount, successCount, age, config, streak, openFor>>

AllowOpen(r) ==
    /\ state = "Open"
    /\ r \notin inflight
    /\ age > config.timeout
    /\ state' = "HalfOpen"
    /\ successCount' = 0 /\ halfOpenActive' = 1
    /\ inflight' = inflight \cup {r}
    /\ admitted' = 1
    /\ UNCHANGED <<failureCount, age, config, streak, openFor>>

\* Mutant: one probe per half-open period, whatever the threshold.
AllowHalfOpen_OneProbe(r) ==
    /\ state = "HalfOpen"
    /\ r \notin inflight
    /\ admitted = 0
    /\ halfOpenActive' = halfOpenActive + 1
    /\ inflight' = inflight \cup {r}
    /\ admitted' = admitted + 1
    /\ UNCHANGED <<state, failureCount, successCount, age, config, streak,
                   openFor>>

AllowHalfOpen(r) ==
    /\ state = "HalfOpen"
    /\ r \notin inflight
    /\ halfOpenActive < config.succ
    /\ halfOpenActive' = halfOpenActive + 1
    /\ inflight' = inflight \cup {r}
    /\ admitted' = admitted + 1
    /\ UNCHANGED <<state, failureCount, successCount, age, config, streak,
                   openFor>>

-----------------------------------------------------------------------------
(* The handler returned: an error or a 5xx is a failure, all else a success *)

Leave(r) ==
    /\ r \in inflight
    /\ inflight' = inflight \ {r}

\* RecordFailure in the half-open state reopens the breaker.
FailHalfOpen(r) ==
    /\ Leave(r)
    /\ state = "HalfOpen"
    /\ state' = "Open"
    /\ failureCount' = 0 /\ halfOpenActive' = 0 /\ age' = 0
    /\ admitted' = 0 /\ openFor' = 0
    /\ UNCHANGED <<successCount, config, streak>>

\* RecordFailure otherwise: also late failures that find the breaker open.
FailElse(r) ==
    /\ Leave(r)
    /\ state # "HalfOpen"
    /\ failureCount' = failureCount + 1 /\ age' = 0
    /\ streak' = IF state = "Closed" THEN streak + 1 ELSE streak
    /\ \/ /\ failureCount + 1 >= config.fail
          /\ state' = "Open"
          /\ openFor' = IF state = "Open" THEN openFor ELSE 0
       \/ /\ failureCount + 1 < config.fail
          /\ UNCHANGED <<state, openFor>>
    /\ UNCHANGED <<successCount, halfOpenActive, config, admitted>>

\* Mutant: a success does not give its probe slot back.
SucceedHalfOpen_KeepSlot(r) ==
    /\ Leave(r)
    /\ state = "HalfOpen"
    /\ \/ /\ successCount + 1 >= config.succ
          /\ state' = "Closed"
          /\ successCount' = 0 /\ halfOpenActive' = 0 /\ failureCount' = 0
          /\ admitted' = 0 /\ streak' = 0
       \/ /\ successCount + 1 < config.succ
          /\ successCount' = successCount + 1
          /\ UNCHANGED <<state, halfOpenActive, failureCount, admitted, streak>>
    /\ UNCHANGED <<age, config, openFor>>

\* RecordSuccess in the half-open state, whoever admitted the request.
SucceedHalfOpen(r) ==
    /\ Leave(r)
    /\ state = "HalfOpen"
    /\ \/ /\ successCount + 1 >= config.succ
          /\ state' = "Closed"
          /\ successCount' = 0 /\ halfOpenActive' = 0 /\ failureCount' = 0
          /\ admitted' = 0 /\ streak' = 0
       \/ /\ successCount + 1 < config.succ
          /\ successCount' = successCount + 1
          /\ halfOpenActive' = IF halfOpenActive > 0 THEN halfOpenActive - 1
                                                     ELSE 0
          /\ UNCHANGED <<state, failureCount, admitted, streak>>
    /\ UNCHANGED <<age, config, openFor>>

\* RecordSuccess otherwise
SucceedElse(r) ==
    /\ Leave(r)
    /\ state # "HalfOpen"
    /\ failureCount' = 0
    /\ streak' = IF state = "Closed" THEN 0 ELSE streak
    /\ UNCHANGED <<state, successCount, halfOpenActive, age, config,
                   admitted, openFor>>

-----------------------------------------------------------------------------
(* The dashboard's reset, a configuration reload, and time *)

\* Mutant: the operator's reset leaves the failure count.
Reset_KeepFailures ==
    /\ state' = "Closed"
    /\ successCount' = 0 /\ halfOpenActive' = 0
    /\ age' = Long
    /\ admitted' = 0 /\ streak' = 0
    /\ UNCHANGED <<failureCount, config, inflight, openFor>>

Reset ==
    /\ state' = "Closed"
    /\ failureCount' = 0 /\ successCount' = 0 /\ halfOpenActive' = 0
    /\ age' = Long
    /\ admitted' = 0 /\ streak' = 0
    /\ UNCHANGED <<config, inflight, openFor>>

UpdateConfig ==
    /\ \E c \in Configs : config' = c
    /\ UNCHANGED <<state, failureCount, successCount, halfOpenActive, age,
                   inflight, admitted, streak, openFor>>

Older(t) == IF t < Long THEN t + 1 ELSE Long

Tick ==
    /\ age' = Older(age) /\ openFor' = Older(openFor)
    /\ UNCHANGED <<state, failureCount, successCount, halfOpenActive, config,
                   inflight, admitted, streak>>

Allow(r) == AllowClosed(r) \/ AllowOpen(r) \/ AllowHalfOpen(r)
Record(r) ==
    FailHalfOpen(r) \/ FailElse(r) \/ SucceedHalfOpen(r) \/ SucceedElse(r)

Next ==
    \/ \E r \in Requests : Allow(r) \/ Record(r)
    \/ Reset \/ UpdateConfig \/ Tick

Spec == Init /\ [][Next]_vars

-----------------------------------------------------------------------------
(* Properties *)

\* Types of the breaker's fields.
TypeOK ==
    /\ state \in {"Closed", "Open", "HalfOpen"}
    /\ failureCount \in Nat /\ successCount \in Nat /\ halfOpenActive \in Nat
    /\ age \in 0..Long /\ openFor \in 0..Long
    /\ config \in Configs
    /\ inflight \in SUBSET Requests
    /\ admitted \in Nat /\ streak \in Nat

\* halfOpenActive never exceeds the requests in flight: a half-open breaker
\* whose requests have all come back admits again, and is not stuck refusing
\* everything (unless a reload set success_threshold to 0, which validateConfig
\* accepts).
HalfOpenNotStuck ==
    state = "HalfOpen" =>
        /\ halfOpenActive <= Cardinality(inflight)
        /\ inflight = {} /\ config.succ > 0 => halfOpenActive < config.succ

\* One half-open period sends at most 2 * successThreshold - 1 requests to the
\* backend, all told: successThreshold that hold a slot, and one for each
\* success, its own or a late one, that has given a slot back.
ProbesBounded ==
    state = "HalfOpen" => admitted <= 2 * MaxSuccess - 1

\* While the breaker is closed, failureCount is the number of failures in a row
\* since it closed, and below the threshold of some configuration: nothing
\* recorded before it closed counts against it, and it does not miss a trip.
ClosedCountsStreak ==
    state = "Closed" => failureCount = streak /\ streak < MaxFailure

\* A closed breaker opens only on failureThreshold failures in a row.
TripsOnStreak ==
    [][state = "Closed" /\ state' = "Open" => streak' >= config.fail]_vars

\* Once opened, the breaker admits nothing before timeout has passed, however
\* the failures of earlier requests come in.
QuietPeriod ==
    [][state = "Open" /\ state' = "HalfOpen" => openFor > config.timeout]_vars

\* Under traffic the breaker does not stay open.
LeavesOpen == state = "Open" ~> state # "Open"

\* Under traffic the breaker does not stay half-open either, once no reload
\* sets success_threshold to 0 any more.
LeavesHalfOpen ==
    <>[](config.succ > 0) => (state = "HalfOpen" ~> state # "HalfOpen")

\* Under traffic the breaker is never parked in a state that refuses (Allow,
\* RecordFailure, RecordSuccess).
KeepsMoving == LeavesOpen /\ LeavesHalfOpen
=============================================================================
