-------------------------- MODULE LifecycleProofs --------------------------
(***************************************************************************)
(* The components of internal/lifecycle, each with a specification of its  *)
(* own.  Supervisor, for any task names, any restart budget and any list   *)
(* of shutdown functions: registered tasks can be stopped and StopAll      *)
(* stops them, restarts stay within the budget, and a shutdown that is not *)
(* cut short has called every function.  HealthSync, for any tables and    *)
(* threshold: the router's flags are the checker's between rounds, and     *)
(* nothing goes out of rotation without its streak of failures.            *)
(***************************************************************************)
EXTENDS HealthSync, Supervisor, FiniteSetTheorems, TLAPS

-----------------------------------------------------------------------------
(* Recoverable goroutines and the shutdown.                                *)

Labels == {"none", "run", "exit", "panic", "backoff", "restart", "giveUp", "end"}

\* Instances of n whose restart is decided and has not happened.
Pending(n) == {i \in Insts : i[1] = n /\ pc[i] \in {"backoff", "restart"}}

Types ==
    /\ running \in [Names -> 0..MaxInst] /\ restarts \in [Names -> Nat]
    /\ started \in [Names -> Nat] /\ calls \in [Names -> 0..MaxCalls]
    /\ pc \in [Insts -> Labels] /\ cancelled \in SUBSET Insts
    /\ wait \in {"up", "stopping", "returned"} /\ hook \in 0..Len(Hooks)
    /\ hung \in BOOLEAN /\ ran \in SUBSET Nat
    /\ timedOut \in BOOLEAN /\ stopped \in BOOLEAN

\* Every restart, done or decided, was paid for by a panic, and the budget is
\* not exceeded even by two instances of a name that panic together.
Budget(n) ==
    /\ calls[n] <= started[n]
    /\ started[n] - calls[n] + Cardinality(Pending(n)) <= restarts[n]
    /\ started[n] - calls[n] + Cardinality(Pending(n)) <= MaxRetry

\* A name the program used once has one instance that has not ended, the last
\* one; while that one runs untold it is registered.
Solo(n) ==
    /\ calls[n] = 0 => started[n] = 0
    /\ \A k \in 1..MaxInst :
        /\ k < started[n] => pc[<<n, k>>] = "end"
        /\ k > started[n] => pc[<<n, k>>] = "none"
        /\ pc[<<n, k>>] = "run" => running[n] = k \/ <<n, k>> \in cancelled
        /\ stopped /\ pc[<<n, k>>] = "run" /\ <<n, k>> \notin cancelled => restarts[n] > 0

Down ==
    /\ stopped => wait # "up"
    /\ ran = (hook + 1)..Len(Hooks)
    /\ wait = "returned" /\ ~timedOut => hook = 0

IInv ==
    /\ Types
    /\ \A n \in Names : Budget(n)
    /\ \A n \in Names : calls[n] <= 1 => Solo(n)
    /\ Down

-----------------------------------------------------------------------------
LEMMA InstFacts ==
    /\ MaxRetry \in Nat /\ MaxCalls \in Nat
    /\ MaxInst \in Nat \ {0}
    /\ \A i \in Insts : i[1] \in Names /\ i[2] \in 1..MaxInst /\ i = <<i[1], i[2]>>
    /\ \A n \in Names, k \in 1..MaxInst : <<n, k>> \in Insts
BY SupervisorAssumption DEF MaxInst, Insts

LEMMA HookCount == Len(Hooks) \in Nat
BY SupervisorAssumption

LEMMA PendingFinite ==
    ASSUME NEW n \in Names, NEW T \in SUBSET {i \in Insts : i[1] = n}
    PROVE  IsFiniteSet(T) /\ Cardinality(T) \in Nat
<1>1. IsFiniteSet({n}) /\ IsFiniteSet(1..MaxInst)
  <2>1. 1 \in Int /\ MaxInst \in Int
    BY InstFacts
  <2> QED
    BY <2>1, FS_Interval, FS_Singleton
<1>2. IsFiniteSet({n} \X (1..MaxInst))
  BY <1>1, FS_Product
<1>3. T \in SUBSET ({n} \X (1..MaxInst))
  BY InstFacts DEF Insts
<1> QED
  BY <1>2, <1>3, FS_Subset, FS_CardinalityType

LEMMA PendingCount ==
    ASSUME NEW n \in Names
    PROVE  /\ IsFiniteSet(Pending(n)) /\ Cardinality(Pending(n)) \in Nat
           /\ IsFiniteSet(Pending(n)') /\ Cardinality(Pending(n)') \in Nat
<1>1. Pending(n) \in SUBSET {i \in Insts : i[1] = n} /\ Pending(n)' \in SUBSET {i \in Insts : i[1] = n}
  BY DEF Pending
<1> QED
  BY <1>1, PendingFinite

\* There is always an instance left to start.
LEMMA RoomToStart ==
    ASSUME Types, NEW n \in Names, Budget(n)
    PROVE  started[n] + 1 \in 1..MaxInst
BY PendingCount, InstFacts DEF Types, Budget, MaxInst

LEMMA InitIInv == Init => IInv
<1> SUFFICES ASSUME Init PROVE IInv
  OBVIOUS
<1>1. Types
  <2>1. Len(Hooks) \in Nat /\ 0 \in 0..MaxInst /\ 0 \in 0..MaxCalls
    BY InstFacts, HookCount
  <2>2. hook \in 0..Len(Hooks) /\ ran \in SUBSET Nat /\ cancelled \in SUBSET Insts
    BY <2>1 DEF Init
  <2>3. /\ running \in [Names -> 0..MaxInst] /\ restarts \in [Names -> Nat]
        /\ started \in [Names -> Nat] /\ calls \in [Names -> 0..MaxCalls]
    BY <2>1 DEF Init
  <2>4. pc \in [Insts -> Labels]
    BY DEF Init, Labels
  <2> QED
    BY <2>2, <2>3, <2>4 DEF Init, Types
<1>2. ASSUME NEW n \in Names PROVE Budget(n)
  <2>1. Pending(n) = {}
    BY DEF Init, Pending
  <2> QED
    BY <2>1, FS_EmptySet, InstFacts DEF Init, Budget
<1>3. ASSUME NEW n \in Names PROVE Solo(n)
  BY InstFacts DEF Init, Solo
<1>4. Down
  BY HookCount DEF Init, Down
<1> QED
  BY <1>1, <1>2, <1>3, <1>4 DEF IInv

-----------------------------------------------------------------------------
(* Types                                                                   *)

LEMMA GoTypes ==
    ASSUME Types, NEW n \in Names, Budget(n), NEW ender, Go(n, ender)
    PROVE  /\ running' \in [Names -> 0..MaxInst] /\ started' \in [Names -> Nat]
           /\ pc' \in [Insts -> Labels] /\ cancelled' \in SUBSET Insts
<1>1. started[n] + 1 \in 1..MaxInst /\ started[n] + 1 \in Nat
  BY RoomToStart, InstFacts
<1>2. running' \in [Names -> 0..MaxInst] /\ started' \in [Names -> Nat]
  BY <1>1, InstFacts DEF Go, Types
<1>3. pc' \in [Insts -> Labels]
  BY DEF Go, Types, Labels
<1>4. cancelled' \in SUBSET Insts
  BY InstFacts DEF Go, Types
<1> QED
  BY <1>2, <1>3, <1>4

LEMMA NextTypes == IInv /\ [Next]_vars => Types'
<1> SUFFICES ASSUME IInv, [Next]_vars PROVE Types'
  OBVIOUS
<1> USE InstFacts
<1>t. Types /\ \A n \in Names : Budget(n)
  BY DEF IInv
<1>1. ASSUME NEW n \in Names, Call(n) PROVE Types'
  <2>1. calls' \in [Names -> 0..MaxCalls]
    BY <1>t, <1>1 DEF Call, Types
  <2> QED
    BY <1>t, <1>1, <2>1, GoTypes DEF Call, Types, downVars
<1>2. ASSUME NEW i \in Insts, Return(i) \/ Panic(i) \/ BackoffElapses(i) \/ BackoffCancelled(i)
      PROVE  Types'
  BY <1>t, <1>2
     DEF Return, Panic, BackoffElapses, BackoffCancelled, Step, Types, Labels, downVars
<1>3. ASSUME NEW i \in Insts, Forget(i) PROVE Types'
  BY <1>t, <1>3 DEF Forget, Types, Labels, downVars
<1>4. ASSUME NEW i \in Insts, CountPanic(i) PROVE Types'
  BY <1>t, <1>4 DEF CountPanic, Step, Types, Labels, downVars
<1>5. ASSUME NEW i \in Insts, Restart(i) PROVE Types'
  BY <1>t, <1>5, GoTypes DEF Restart, Types, downVars
<1>6. CASE RunHook
  <2>1. hook' \in 0..Len(Hooks) /\ ran' \in SUBSET Nat
    BY <1>t, <1>6, HookCount DEF RunHook, Types
  <2>2. running' \in [Names -> 0..MaxInst]
    BY <1>t, <1>6 DEF RunHook, StopAll, Types
  <2>3. cancelled' \in SUBSET Insts
    BY <1>t, <1>6 DEF RunHook, StopAll, Types
  <2>4. stopped' \in BOOLEAN
    BY <1>t, <1>6 DEF RunHook, StopAll, Types
  <2> QED
    BY <1>t, <1>6, <2>1, <2>2, <2>3, <2>4 DEF RunHook, Types
<1>7. CASE HookFails
  BY <1>t, <1>7, HookCount DEF HookFails, Types, taskVars
<1>8. CASE Signal \/ HookHangs \/ HooksDone \/ TimerFires
  BY <1>t, <1>8 DEF Signal, HookHangs, HooksDone, TimerFires, Types, taskVars
<1>9. CASE UNCHANGED vars
  BY <1>t, <1>9 DEF vars, taskVars, downVars, Types
<1> QED
  BY <1>1, <1>2, <1>3, <1>4, <1>5, <1>6, <1>7, <1>8, <1>9 DEF Next, Deferred, Shutdown

-----------------------------------------------------------------------------
(* The budget of restarts                                                  *)

\* A step after which no more restarts are pending keeps the budget.
LEMMA NoNewPending ==
    ASSUME Types, Types', NEW n \in Names, Budget(n),
           Pending(n)' \subseteq Pending(n),
           started'[n] - calls'[n] = started[n] - calls[n],
           restarts'[n] >= restarts[n]
    PROVE  Budget(n)'
<1>1. Cardinality(Pending(n)') \in Nat /\ Cardinality(Pending(n)') <= Cardinality(Pending(n))
  BY PendingCount, FS_Subset
<1>2. Cardinality(Pending(n)) \in Nat
  BY PendingCount
<1>3. /\ started[n] \in Nat /\ calls[n] \in Nat /\ restarts[n] \in Nat
      /\ started'[n] \in Nat /\ calls'[n] \in Nat /\ restarts'[n] \in Nat
  BY InstFacts DEF Types
<1>4. /\ calls[n] <= started[n]
      /\ started[n] - calls[n] + Cardinality(Pending(n)) <= restarts[n]
      /\ started[n] - calls[n] + Cardinality(Pending(n)) <= MaxRetry
  BY DEF Budget
<1>5. /\ calls'[n] <= started'[n]
      /\ started'[n] - calls'[n] + Cardinality(Pending(n)') <= restarts'[n]
      /\ started'[n] - calls'[n] + Cardinality(Pending(n)') <= MaxRetry
  BY <1>1, <1>2, <1>3, <1>4, InstFacts
<1> QED
  BY <1>5 DEF Budget

LEMMA NextBudget == IInv /\ [Next]_vars => \A n \in Names : Budget(n)'
<1> SUFFICES ASSUME IInv, [Next]_vars, NEW n \in Names PROVE Budget(n)'
  OBVIOUS
<1> USE InstFacts
<1>t. Types /\ Types' /\ Budget(n)
  BY NextTypes DEF IInv
<1>0. Cardinality(Pending(n)) \in Nat /\ IsFiniteSet(Pending(n))
  BY PendingCount
<1>1. ASSUME NEW m \in Names, Call(m) PROVE Budget(n)'
  <2>1. Pending(n)' \subseteq Pending(n)
    BY <1>t, <1>1 DEF Call, Go, Pending, Types
  <2>2. started'[n] - calls'[n] = started[n] - calls[n]
    BY <1>t, <1>1, InstFacts DEF Call, Go, Types
  <2>3. restarts'[n] >= restarts[n]
    BY <1>t, <1>1 DEF Call, Types
  <2> QED
    BY <1>t, <2>1, <2>2, <2>3, NoNewPending
<1>2. ASSUME NEW i \in Insts,
             Return(i) \/ Panic(i) \/ BackoffElapses(i) \/ BackoffCancelled(i) \/ Forget(i)
      PROVE  Budget(n)'
  <2>1. Pending(n)' \subseteq Pending(n)
    BY <1>t, <1>2
       DEF Return, Panic, BackoffElapses, BackoffCancelled, Forget, Step, Pending, Types
  <2>2. UNCHANGED <<started, calls, restarts>>
    BY <1>2 DEF Return, Panic, BackoffElapses, BackoffCancelled, Forget
  <2>3. started'[n] - calls'[n] = started[n] - calls[n] /\ restarts'[n] >= restarts[n]
    BY <1>t, <2>2 DEF Types
  <2> QED
    BY <1>t, <2>1, <2>3, NoNewPending
<1>3. ASSUME NEW i \in Insts, CountPanic(i) PROVE Budget(n)'
  <2>1. UNCHANGED <<started, calls>>
    BY <1>3 DEF CountPanic
  <2>2. CASE i[1] # n \/ restarts[n] + 1 > MaxRetry
    <3>1. Pending(n)' \subseteq Pending(n)
      BY <1>t, <1>3, <2>2, InstFacts DEF CountPanic, Step, Pending, Types
    <3>2. restarts'[n] >= restarts[n]
      BY <1>t, <1>3 DEF CountPanic, Types
    <3> QED
      BY <1>t, <2>1, <3>1, <3>2, NoNewPending
  <2>3. CASE i[1] = n /\ restarts[n] + 1 <= MaxRetry
    <3>1. Pending(n)' = Pending(n) \cup {i} /\ i \notin Pending(n)
      BY <1>t, <1>3, <2>3 DEF CountPanic, Step, Pending, Types
    <3>2. Cardinality(Pending(n)') = Cardinality(Pending(n)) + 1
      BY <1>0, <3>1, FS_AddElement
    <3>3. restarts'[n] = restarts[n] + 1
      BY <1>t, <1>3, <2>3 DEF CountPanic, Types
    <3>4. /\ started[n] \in Nat /\ calls[n] \in Nat /\ restarts[n] \in Nat /\ MaxRetry \in Nat
          /\ Cardinality(Pending(n)) \in Nat
      BY <1>t, <1>0, InstFacts DEF Types
    <3>5. /\ calls[n] <= started[n]
          /\ started[n] - calls[n] + Cardinality(Pending(n)) <= restarts[n]
      BY <1>t DEF Budget
    <3> HIDE <1>t, <1>0
    <3>6. /\ calls'[n] <= started'[n]
          /\ started'[n] - calls'[n] + Cardinality(Pending(n)') <= restarts'[n]
          /\ started'[n] - calls'[n] + Cardinality(Pending(n)') <= MaxRetry
      BY <2>1, <2>3, <3>2, <3>3, <3>4, <3>5
    <3> QED
      BY <3>6 DEF Budget
  <2> QED
    BY <1>t, <2>2, <2>3, InstFacts DEF Types
<1>4. ASSUME NEW i \in Insts, Restart(i) PROVE Budget(n)'
  <2>0. UNCHANGED <<restarts, calls>>
    BY <1>4 DEF Restart
  <2>1. CASE i[1] # n
    <3>1. Pending(n)' \subseteq Pending(n)
      BY <1>t, <1>4 DEF Restart, Go, Pending, Types
    <3>2. started'[n] = started[n]
      BY <1>t, <1>4, <2>1 DEF Restart, Go, Types
    <3>3. started'[n] - calls'[n] = started[n] - calls[n] /\ restarts'[n] >= restarts[n]
      BY <1>t, <2>0, <3>2 DEF Types
    <3> QED
      BY <1>t, <3>1, <3>3, NoNewPending
  <2>2. CASE i[1] = n
    <3>1. Pending(n)' \in SUBSET (Pending(n) \ {i}) /\ i \in Pending(n)
      BY <1>t, <1>4, <2>2 DEF Restart, Go, Pending, Types
    <3>2. IsFiniteSet(Pending(n) \ {i}) /\ Cardinality(Pending(n) \ {i}) = Cardinality(Pending(n)) - 1
      BY <1>0, <3>1, FS_RemoveElement
    <3>3. Cardinality(Pending(n)') <= Cardinality(Pending(n)) - 1
      BY <3>1, <3>2, FS_Subset
    <3>4. Cardinality(Pending(n)') \in Nat
      BY PendingCount
    <3>5. started'[n] = started[n] + 1
      BY <1>t, <1>4, <2>2 DEF Restart, Go, Types
    <3>6. started[n] \in Nat /\ calls[n] \in Nat /\ restarts[n] \in Nat
      BY <1>t, InstFacts DEF Types
    <3>7. /\ calls'[n] <= started'[n]
          /\ started'[n] - calls'[n] + Cardinality(Pending(n)') <= restarts'[n]
          /\ started'[n] - calls'[n] + Cardinality(Pending(n)') <= MaxRetry
      BY <1>t, <1>0, <2>0, <3>3, <3>4, <3>5, <3>6 DEF Budget
    <3> QED
      BY <3>7 DEF Budget
  <2> QED
    BY <2>1, <2>2
<1>5. CASE Shutdown \/ UNCHANGED vars
  <2>1. UNCHANGED <<restarts, started, calls, pc>>
    BY <1>5 DEF Shutdown, Signal, RunHook, HookFails, HookHangs, HooksDone, TimerFires,
                vars, taskVars
  <2> QED
    BY <1>t, <2>1 DEF Budget, Pending
<1> QED
  BY <1>1, <1>2, <1>3, <1>4, <1>5 DEF Next, Deferred

-----------------------------------------------------------------------------
(* Registration                                                            *)

\* A step that moves one instance on, or that concerns another name.
LEMMA MoveSolo ==
    ASSUME Types, NEW n \in Names, Solo(n), NEW i \in Insts, NEW l,
           pc[i] \notin {"none", "end"}, l \notin {"none", "run"},
           pc' = [pc EXCEPT ![i] = l],
           running'[n] = running[n] \/ i[1] = n,
           restarts'[n] \in Nat, restarts'[n] >= restarts[n],
           calls'[n] = 0 => calls[n] = 0,
           UNCHANGED <<started, cancelled, stopped>>
    PROVE  Solo(n)'
<1> USE InstFacts
<1>1. calls'[n] = 0 => started'[n] = 0
  BY DEF Solo
<1>2. ASSUME NEW k \in 1..MaxInst
      PROVE  /\ k < started'[n] => pc'[<<n, k>>] = "end"
             /\ k > started'[n] => pc'[<<n, k>>] = "none"
             /\ pc'[<<n, k>>] = "run" => running'[n] = k \/ <<n, k>> \in cancelled'
             /\ stopped' /\ pc'[<<n, k>>] = "run" /\ <<n, k>> \notin cancelled' => restarts'[n] > 0
  <2>1. CASE i = <<n, k>>
    BY <2>1 DEF Solo, Types
  <2>2. CASE i # <<n, k>> /\ i[1] # n
    <3>1. pc'[<<n, k>>] = pc[<<n, k>>] /\ running'[n] = running[n]
      BY <2>2 DEF Types
    <3> QED
      BY <3>1 DEF Solo, Types
  <2>3. CASE i # <<n, k>> /\ i[1] = n
    <3>1. pc'[<<n, k>>] = pc[<<n, k>>]
      BY <2>3 DEF Types
    <3>2. i = <<n, i[2]>> /\ i[2] \in 1..MaxInst
      BY <2>3
    <3>3. i[2] = started[n]
      BY <3>2 DEF Solo, Types
    <3>4. k # i[2] /\ started[n] \in Nat
      BY <2>3, <3>2 DEF Types
    <3>5. pc[<<n, k>>] # "run"
      BY <3>3, <3>4 DEF Solo
    <3> QED
      BY <3>1, <3>5 DEF Solo, Types
  <2> QED
    BY <2>1, <2>2, <2>3
<1> QED
  BY <1>1, <1>2 DEF Solo

LEMMA NextSolo ==
    ASSUME IInv, [Next]_vars, NEW n \in Names, calls'[n] <= 1
    PROVE  Solo(n)'
<1> USE InstFacts
<1>t. Types /\ Types' /\ Budget(n) /\ Down
  BY NextTypes DEF IInv
<1>u. calls[n] <= calls'[n] /\ calls[n] \in Nat /\ calls'[n] \in Nat
  <2>1. (\E m \in Names : Call(m)) \/ UNCHANGED calls
    BY DEF Next, Return, Panic, Deferred, Forget, CountPanic, BackoffElapses, BackoffCancelled,
           Restart, Shutdown, Signal, RunHook, HookFails, HookHangs, HooksDone, TimerFires,
           vars, taskVars
  <2>2. calls[n] \in Nat /\ calls'[n] \in Nat
    BY <1>t DEF Types
  <2>3. ASSUME NEW m \in Names, Call(m) PROVE calls[n] <= calls'[n]
    <3>1. calls'[n] = IF m = n THEN calls[n] + 1 ELSE calls[n]
      BY <1>t, <2>3 DEF Call, Types
    <3> QED
      BY <2>2, <3>1
  <2> QED
    BY <2>1, <2>2, <2>3
<1>s. Solo(n)
  BY <1>u DEF IInv
<1>1. ASSUME NEW m \in Names, Call(m) PROVE Solo(n)'
  <2>1. CASE m # n
    <3>1. \A k \in 1..MaxInst : pc'[<<n, k>>] = pc[<<n, k>>]
      BY <1>t, <1>1, <2>1 DEF Call, Go, Types
    <3>2. /\ running'[n] = running[n] /\ restarts'[n] = restarts[n] /\ started'[n] = started[n]
          /\ calls'[n] = calls[n] /\ cancelled \subseteq cancelled' /\ stopped' = stopped
      BY <1>t, <1>1, <2>1 DEF Call, Go, Types, downVars
    <3> QED
      BY <1>s, <3>1, <3>2 DEF Solo
  <2>2. CASE m = n
    <3>1. calls[n] = 0 /\ calls'[n] = 1
      BY <1>t, <1>1, <1>u, <2>2 DEF Call, Types
    <3>2. started[n] = 0
      BY <1>s, <3>1 DEF Solo
    <3>3. started'[n] = 1 /\ running'[n] = 1 /\ ~stopped'
      BY <1>t, <1>1, <2>2, <3>2 DEF Call, Go, Types, Down, downVars
    <3>4. ASSUME NEW k \in 1..MaxInst, k > 1 PROVE pc'[<<n, k>>] = "none"
      BY <1>t, <1>1, <1>s, <2>2, <3>2, <3>4 DEF Call, Go, Types, Solo
    <3> QED
      BY <3>1, <3>3, <3>4 DEF Solo
  <2> QED
    BY <2>1, <2>2
<1>2. ASSUME NEW i \in Insts, Return(i) \/ Panic(i) \/ BackoffElapses(i) \/ BackoffCancelled(i)
      PROVE  Solo(n)'
  <2>1. UNCHANGED <<running, restarts, calls, started, cancelled, stopped>>
    BY <1>2 DEF Return, Panic, BackoffElapses, BackoffCancelled, downVars
  <2>2. PICK l \in {"exit", "panic", "restart", "end"} : pc' = [pc EXCEPT ![i] = l]
    BY <1>2 DEF Return, Panic, BackoffElapses, BackoffCancelled, Step
  <2>3. pc[i] \notin {"none", "end"}
    BY <1>2 DEF Return, Panic, BackoffElapses, BackoffCancelled, Step
  <2>4. restarts'[n] \in Nat /\ restarts'[n] >= restarts[n]
    BY <1>t, <2>1 DEF Types
  <2> QED
    BY <1>t, <1>s, <2>1, <2>2, <2>3, <2>4, MoveSolo
<1>3. ASSUME NEW i \in Insts, Forget(i) PROVE Solo(n)'
  <2>1. /\ UNCHANGED <<restarts, calls, started, cancelled, stopped>>
        /\ pc' = [pc EXCEPT ![i] = "end"] /\ pc[i] \notin {"none", "end"}
    BY <1>3 DEF Forget, downVars
  <2>2. running'[n] = running[n] \/ i[1] = n
    BY <1>t, <1>3 DEF Forget, Types
  <2>3. restarts'[n] \in Nat /\ restarts'[n] >= restarts[n]
    BY <1>t, <2>1 DEF Types
  <2> QED
    BY <1>t, <1>s, <2>1, <2>2, <2>3, MoveSolo
<1>4. ASSUME NEW i \in Insts, CountPanic(i) PROVE Solo(n)'
  <2>1. /\ UNCHANGED <<running, calls, started, cancelled, stopped>>
        /\ pc[i] \notin {"none", "end"}
    BY <1>4 DEF CountPanic, Step, downVars
  <2>2. PICK l \in {"backoff", "giveUp"} : pc' = [pc EXCEPT ![i] = l]
    BY <1>4 DEF CountPanic, Step
  <2>3. restarts'[n] \in Nat /\ restarts'[n] >= restarts[n]
    BY <1>t, <1>4 DEF CountPanic, Types
  <2> QED
    BY <1>t, <1>s, <2>1, <2>2, <2>3, MoveSolo
<1>5. ASSUME NEW i \in Insts, Restart(i) PROVE Solo(n)'
  <2>0. UNCHANGED <<restarts, calls, stopped>>
    BY <1>5 DEF Restart, downVars
  <2>1. CASE i[1] # n
    <3>1. \A k \in 1..MaxInst : pc'[<<n, k>>] = pc[<<n, k>>]
      BY <1>t, <1>5, <2>1 DEF Restart, Go, Types
    <3>2. running'[n] = running[n] /\ started'[n] = started[n] /\ cancelled \subseteq cancelled'
      BY <1>t, <1>5, <2>1 DEF Restart, Go, Types
    <3> QED
      BY <1>s, <2>0, <3>1, <3>2 DEF Solo
  <2>2. CASE i[1] = n
    <3>0. i = <<n, i[2]>> /\ i[2] \in 1..MaxInst /\ pc[i] = "restart" /\ started[n] \in Nat
      BY <1>t, <1>5, <2>2 DEF Restart, Types
    <3>1. i = <<n, i[2]>> /\ i[2] \in 1..MaxInst /\ i[2] = started[n]
      BY <1>s, <3>0 DEF Solo
    <3>2. started'[n] = started[n] + 1 /\ running'[n] = started[n] + 1
      BY <1>t, <1>5, <2>2 DEF Restart, Go, Types
    <3>3. \A k \in 1..MaxInst :
             pc'[<<n, k>>] = IF k = started[n] + 1 THEN "run"
                             ELSE IF k = started[n] THEN "end" ELSE pc[<<n, k>>]
      BY <1>t, <1>5, <2>2, <3>1 DEF Restart, Go, Types
    <3>4. restarts[n] > 0
      <4>1. i \in Pending(n)
        BY <1>5, <2>2 DEF Pending, Restart
      <4>2. Cardinality(Pending(n)) # 0
        BY <4>1, PendingCount, FS_EmptySet
      <4>3. started[n] \in Nat /\ restarts[n] \in Nat
        BY <1>t DEF Types
      <4> QED
        BY <1>t, <1>u, <4>2, <4>3, PendingCount DEF Budget
    <3>5. started[n] \in Nat /\ calls[n] # 0
      BY <1>t, <1>s, <3>1 DEF Types, Solo
    <3> QED
      BY <1>s, <2>0, <3>2, <3>3, <3>4, <3>5 DEF Solo
  <2> QED
    BY <2>1, <2>2
<1>6. CASE RunHook
  <2>1. UNCHANGED <<restarts, started, calls, pc>>
    BY <1>6 DEF RunHook
  <2>2. CASE UNCHANGED <<running, cancelled, stopped>>
    BY <1>s, <2>1, <2>2 DEF Solo
  <2>3. CASE StopAll
    <3>1. ASSUME NEW k \in 1..MaxInst, pc[<<n, k>>] = "run" PROVE <<n, k>> \in cancelled'
      BY <1>s, <2>3, <3>1 DEF Solo, StopAll
    <3> QED
      BY <1>s, <2>1, <3>1 DEF Solo
  <2> QED
    BY <1>6, <2>2, <2>3 DEF RunHook
<1>7. CASE Signal \/ HookFails \/ HookHangs \/ HooksDone \/ TimerFires \/ UNCHANGED vars
  <2>1. UNCHANGED <<running, restarts, started, calls, pc, cancelled, stopped>>
    BY <1>7 DEF Signal, HookFails, HookHangs, HooksDone, TimerFires, vars, taskVars, downVars
  <2> QED
    BY <1>s, <2>1 DEF Solo
<1> QED
  BY <1>1, <1>2, <1>3, <1>4, <1>5, <1>6, <1>7 DEF Next, Deferred, Shutdown

-----------------------------------------------------------------------------
(* The shutdown                                                            *)

LEMMA NextDown == IInv /\ [Next]_vars => Down'
<1> SUFFICES ASSUME IInv, [Next]_vars PROVE Down'
  OBVIOUS
<1> USE HookCount
<1>t. Types /\ Down
  BY DEF IInv
<1>1. CASE RunHook \/ HookFails
  <2>1. hook' = hook - 1 /\ ran' = ran \cup {hook} /\ wait = "stopping" /\ wait' = wait
    BY <1>1 DEF RunHook, HookFails
  <2>2. ran' = (hook' + 1)..Len(Hooks)
    BY <1>1, <1>t, <2>1 DEF Down, Types, RunHook, HookFails
  <2> QED
    BY <2>1, <2>2 DEF Down
<1>2. CASE Signal \/ HookHangs \/ HooksDone \/ TimerFires
  BY <1>2, <1>t DEF Signal, HookHangs, HooksDone, TimerFires, Down, Types
<1>3. CASE UNCHANGED downVars
  BY <1>3, <1>t DEF Down, downVars
<1> QED
  BY <1>1, <1>2, <1>3
     DEF Next, Call, Return, Panic, Deferred, Forget, CountPanic, BackoffElapses,
         BackoffCancelled, Restart, Shutdown, vars

\* The inductive invariant holds in every reachable state.
THEOREM SupervisorInvariant == Spec => []IInv
<1>1. IInv /\ [Next]_vars => IInv'
  BY NextTypes, NextBudget, NextSolo, NextDown DEF IInv
<1> QED
  BY <1>1, InitIInv, PTL DEF Spec

\* Recoverable.Go and StopAll: whatever panics, ends and restarts in between,
\* a task that runs and was not told to stop can be reached through its
\* registration, and StopAll leaves none running but those that panicked or
\* whose name was reused.
THEOREM TasksCanBeStopped == Spec => []TasksStop
<1>1. IInv => TasksStop
  <2> SUFFICES ASSUME IInv, NEW i \in Insts, Running(i), ~Reused(i[1])
               PROVE  running[i[1]] = i[2] /\ (stopped => restarts[i[1]] > 0)
    BY DEF TasksStop, Stoppable, StoppedUnlessPanicked
  <2>1. i[1] \in Names /\ i[2] \in 1..MaxInst /\ i = <<i[1], i[2]>>
    BY InstFacts
  <2>2. calls[i[1]] <= 1
    BY <2>1, InstFacts DEF Reused, IInv, Types
  <2> QED
    BY <2>1, <2>2 DEF IInv, Solo, Running
<1> QED
  BY <1>1, SupervisorInvariant, PTL

\* The deferred function of Recoverable.Go: the program's own calls aside, a
\* task is started at most MaxRetry times, also when its name is reused and
\* several instances of it panic.
THEOREM RestartsStayBounded == Spec => []RestartsBounded
<1>1. IInv => RestartsBounded
  <2> SUFFICES ASSUME IInv, NEW n \in Names PROVE started[n] <= calls[n] + MaxRetry
    BY DEF RestartsBounded
  <2>1. started[n] \in Nat /\ calls[n] \in Nat /\ Budget(n)
    BY InstFacts DEF IInv, Types
  <2> QED
    BY <2>1, PendingCount, InstFacts DEF Budget
<1> QED
  BY <1>1, SupervisorInvariant, PTL

\* GracefulShutdown.Wait: unless its timer fires it returns after every
\* shutdown function was called, failing ones included.
THEOREM WaitRunsAllHooks == Spec => []AllHooksRan
<1>1. IInv => AllHooksRan
  BY HookCount DEF IInv, Down, AllHooksRan
<1> QED
  BY <1>1, SupervisorInvariant, PTL
-----------------------------------------------------------------------------
(* The health checker and the router's flags.                              *)

Objects == Epochs \X Addrs

HealthTypes ==
    /\ epoch \in Epochs /\ registered \in SUBSET Addrs
    /\ healthy \in [Objects -> BOOLEAN] /\ fails \in [Objects -> 0..Threshold]
    /\ table \in SUBSET Addrs /\ routed \in [Addrs -> BOOLEAN]
    /\ todo \in SUBSET Objects /\ notes \in Seq(Addrs \X BOOLEAN)
    /\ checking \in BOOLEAN /\ pending \in SUBSET Addrs
    /\ edit \in Addrs \cup {"none"}
    /\ streak \in [Addrs -> 0..Threshold] /\ disturbed \in BOOLEAN
    /\ reload = "stop" => epoch < MaxReloads

\* The notes under way, and the addresses they are about.
Notes == {notes[i] : i \in DOMAIN notes}
Noted == {x[1] : x \in Notes}

\* A round is about the objects of one epoch, and has at most one note for an
\* address, made when it checked the object.
Round ==
    /\ ~checking => todo = {} /\ notes = <<>>
    /\ \A o, p \in todo : o[1] = p[1]
    /\ \A o \in todo : o[1] <= epoch /\ (o[1] = epoch => o[2] \in registered)
    /\ \A o \in todo : o[2] \notin Noted

\* Objects that Register has not made yet, and those no round has reached.
Unseen ==
    /\ \A o \in Objects : o[1] > epoch => healthy[o] /\ fails[o] = 0
    /\ \A a \in Addrs \ registered : healthy[<<epoch, a>>]
    /\ \A o \in todo : \A p \in Objects : p[1] > o[1] => fails[p] = 0

\* What an object has counted are failures in a row of its address, and what a
\* round is about to report it has found out itself.
Streaks ==
    /\ \A o \in Objects : o[1] = epoch \/ o \in todo => fails[o] <= streak[o[2]]
    /\ \A x \in Notes : ~x[2] => streak[x[1]] = Threshold

\* The router has the checker's flags, but for those a note is under way about.
InSync ==
    ~disturbed =>
        /\ reload = "stop" => ~checking /\ \A a \in table : routed[a]
        /\ reload # "stop" =>
             /\ \A o \in todo : o[1] = epoch
             /\ \A x \in Notes : x[1] \in registered /\ x[2] = healthy[<<epoch, x[1]>>]
             /\ \A a \in table \ Noted : routed[a] = healthy[<<epoch, a>>]

HealthInv == HealthTypes /\ Round /\ Unseen /\ Streaks /\ InSync

LEMMA ObjectFacts ==
    /\ Threshold \in Nat \ {0} /\ MaxReloads \in Nat /\ Epochs = 0..MaxReloads
    /\ \A o \in Objects : o[1] \in Epochs /\ o[2] \in Addrs /\ o = <<o[1], o[2]>>
    /\ \A e \in Epochs, a \in Addrs : <<e, a>> \in Objects
BY HealthAssumption DEF Objects, Epochs

LEMMA NoNotes ==
    ASSUME notes = <<>>
    PROVE  Notes = {} /\ Noted = {}
BY DEF Notes, Noted

LEMMA NoteTypes ==
    ASSUME notes \in Seq(Addrs \X BOOLEAN)
    PROVE  \A x \in Notes : x \in Addrs \X BOOLEAN /\ x[1] \in Noted /\ x[1] \in Addrs
<1> SUFFICES ASSUME NEW x \in Notes
             PROVE  x \in Addrs \X BOOLEAN /\ x[1] \in Noted /\ x[1] \in Addrs
  OBVIOUS
<1>1. PICK i \in DOMAIN notes : x = notes[i]
  BY DEF Notes
<1>2. x \in Addrs \X BOOLEAN
  BY <1>1
<1> QED
  BY <1>2 DEF Noted

LEMMA NewNote ==
    ASSUME notes \in Seq(Addrs \X BOOLEAN), NEW n \in Addrs \X BOOLEAN,
           notes' = Append(notes, n)
    PROVE  /\ notes' \in Seq(Addrs \X BOOLEAN)
           /\ Notes' = Notes \cup {n} /\ Noted' = Noted \cup {n[1]}
<1>1. /\ notes' \in Seq(Addrs \X BOOLEAN) /\ Len(notes') = Len(notes) + 1
      /\ \A i \in 1..Len(notes) : notes'[i] = notes[i]
      /\ notes'[Len(notes) + 1] = n
  OBVIOUS
<1>2. DOMAIN notes = 1..Len(notes) /\ DOMAIN notes' = 1..Len(notes') /\ Len(notes) \in Nat
  BY <1>1
<1>3. Notes' = Notes \cup {n}
  <2>1. ASSUME NEW x \in Notes' PROVE x \in Notes \cup {n}
    <3>1. PICK i \in 1..Len(notes') : x = notes'[i]
      BY <1>2, <2>1 DEF Notes
    <3>2. i \in 1..Len(notes) \/ i = Len(notes) + 1
      BY <1>1, <1>2
    <3> QED
      BY <1>1, <1>2, <3>1, <3>2 DEF Notes
  <2>2. ASSUME NEW x \in Notes PROVE x \in Notes'
    <3>1. PICK i \in 1..Len(notes) : x = notes[i]
      BY <1>2, <2>2 DEF Notes
    <3>2. i \in 1..Len(notes') /\ x = notes'[i]
      BY <1>1, <1>2, <3>1
    <3> QED
      BY <1>2, <3>2 DEF Notes
  <2>3. n \in Notes'
    <3>1. Len(notes) + 1 \in 1..Len(notes')
      BY <1>1, <1>2
    <3> QED
      BY <1>1, <1>2, <3>1 DEF Notes
  <2> QED
    BY <2>1, <2>2, <2>3
<1> QED
  BY <1>1, <1>3 DEF Noted

LEMMA NextNote ==
    ASSUME notes \in Seq(Addrs \X BOOLEAN), notes # <<>>, notes' = Tail(notes)
    PROVE  /\ notes' \in Seq(Addrs \X BOOLEAN)
           /\ Notes' \subseteq Notes /\ Noted' \subseteq Noted
           /\ Head(notes) \in Notes /\ Notes \subseteq Notes' \cup {Head(notes)}
           /\ Noted \subseteq Noted' \cup {Head(notes)[1]}
<1>1. /\ notes' \in Seq(Addrs \X BOOLEAN) /\ Len(notes') = Len(notes) - 1
      /\ \A i \in 1..Len(notes') : notes'[i] = notes[i + 1]
      /\ Head(notes) = notes[1] /\ Len(notes) \in Nat \ {0}
  OBVIOUS
<1>2. DOMAIN notes = 1..Len(notes) /\ DOMAIN notes' = 1..Len(notes')
  BY <1>1
<1>3. Notes' \subseteq Notes
  <2> SUFFICES ASSUME NEW x \in Notes' PROVE x \in Notes
    OBVIOUS
  <2>1. PICK i \in 1..Len(notes') : x = notes'[i]
    BY <1>2 DEF Notes
  <2>2. i + 1 \in 1..Len(notes) /\ x = notes[i + 1]
    BY <1>1, <2>1
  <2> QED
    BY <1>2, <2>2 DEF Notes
<1>4. Head(notes) \in Notes
  <2>1. 1 \in DOMAIN notes
    BY <1>1, <1>2
  <2> QED
    BY <1>1, <2>1 DEF Notes
<1>5. Notes \subseteq Notes' \cup {Head(notes)}
  <2> SUFFICES ASSUME NEW x \in Notes, x # Head(notes) PROVE x \in Notes'
    OBVIOUS
  <2>1. PICK i \in 1..Len(notes) : x = notes[i]
    BY <1>2 DEF Notes
  <2>2. i - 1 \in 1..Len(notes') /\ notes'[i - 1] = notes[i]
    <3>1. i # 1
      BY <1>1, <2>1
    <3>2. i - 1 \in 1..Len(notes')
      BY <1>1, <3>1
    <3>3. (i - 1) + 1 = i
      OBVIOUS
    <3> QED
      BY <1>1, <3>2, <3>3
  <2> QED
    BY <1>2, <2>1, <2>2 DEF Notes
<1> QED
  BY <1>1, <1>3, <1>4, <1>5 DEF Noted

LEMMA NotesKept ==
    ASSUME UNCHANGED notes
    PROVE  Notes' = Notes /\ Noted' = Noted
BY DEF Notes, Noted

LEMMA InitHealthInv == HealthInit => HealthInv
<1> SUFFICES ASSUME HealthInit PROVE HealthInv
  OBVIOUS
<1>1. Notes = {} /\ Noted = {}
  BY NoNotes DEF HealthInit
<1>2. table \in SUBSET Addrs
  BY HealthAssumption DEF HealthInit
<1>3. epoch \in Epochs /\ 0 \in 0..Threshold
  BY ObjectFacts DEF HealthInit
<1>4. HealthTypes
  <2>1. healthy \in [Objects -> BOOLEAN] /\ fails \in [Objects -> 0..Threshold]
    BY <1>3 DEF HealthInit, Objects
  <2>2. routed \in [Addrs -> BOOLEAN]
    BY DEF HealthInit, AllHealthy
  <2>3. streak \in [Addrs -> 0..Threshold]
    BY <1>3 DEF HealthInit
  <2>4. notes \in Seq(Addrs \X BOOLEAN) /\ todo \in SUBSET Objects
    BY DEF HealthInit
  <2>5. reload # "stop" /\ checking \in BOOLEAN /\ disturbed \in BOOLEAN
    BY DEF HealthInit
  <2>6. registered \in SUBSET Addrs /\ pending \in SUBSET Addrs /\ edit \in Addrs \cup {"none"}
    BY <1>2 DEF HealthInit
  <2> QED
    BY <1>2, <1>3, <2>1, <2>2, <2>3, <2>4, <2>5, <2>6 DEF HealthTypes
<1>5. \A o \in Objects : healthy[o] /\ fails[o] = 0
  BY DEF HealthInit, Objects
<1>6. \A a \in Addrs : healthy[<<epoch, a>>] = TRUE /\ (a \in table => routed[a] = TRUE)
  BY <1>3, ObjectFacts DEF HealthInit, AllHealthy, Objects
<1>7. Round /\ Unseen
  BY <1>5, <1>6 DEF HealthInit, Round, Unseen
<1>8. Streaks
  BY <1>1, <1>5, ObjectFacts DEF HealthInit, Streaks
<1>9. InSync
  <2>1. reload # "stop" /\ todo = {}
    BY DEF HealthInit
  <2> QED
    BY <1>1, <1>2, <1>6, <2>1 DEF InSync
<1> QED
  BY <1>4, <1>7, <1>8, <1>9 DEF HealthInv

\* The steps that leave the checker, the notes and the router alone.
LEMMA HealthKept ==
    ASSUME HealthInv, UNCHANGED <<hcVars, rtVars, checkVars, reload, streak, disturbed>>,
           pending' \in SUBSET Addrs, edit' \in Addrs \cup {"none"}
    PROVE  HealthInv'
<1>1. Notes' = Notes /\ Noted' = Noted
  BY NotesKept DEF checkVars
<1>2. HealthTypes'
  BY DEF HealthInv, HealthTypes, hcVars, rtVars, checkVars
<1>3. Round' /\ Unseen' /\ Streaks'
  BY <1>1 DEF HealthInv, Round, Unseen, Streaks, hcVars, checkVars
<1>4. InSync'
  BY <1>1 DEF HealthInv, InSync, hcVars, rtVars, checkVars
<1> QED
  BY <1>2, <1>3, <1>4 DEF HealthInv

LEMMA StartRoundHealth ==
    ASSUME HealthInv, StartRound
    PROVE  HealthInv'
<1>1. /\ ~checking /\ checking' /\ checking' \in BOOLEAN
      /\ todo' = {<<epoch, a>> : a \in registered}
      /\ disturbed' = (disturbed \/ reload = "stop")
      /\ UNCHANGED <<hcVars, rtVars, notes, reload, pending, edit, streak>>
  BY DEF StartRound, reloadVars
<1>2. /\ notes = <<>> /\ Notes = {} /\ Noted = {} /\ Notes' = {} /\ Noted' = {}
  BY <1>1, NoNotes, NotesKept DEF HealthInv, Round
<1>3. \A o \in todo' : o \in Objects /\ o[1] = epoch /\ o[2] \in registered
  BY <1>1, ObjectFacts DEF HealthInv, HealthTypes
<1>4. HealthTypes'
  BY <1>1, <1>3 DEF HealthInv, HealthTypes, hcVars, rtVars
<1>5. Round'
  <2>1. epoch \in Int
    BY ObjectFacts DEF HealthInv, HealthTypes
  <2> QED
    BY <1>1, <1>2, <1>3, <2>1 DEF Round, hcVars
<1>6. Unseen'
  BY <1>1, <1>3 DEF HealthInv, Unseen, hcVars
<1>7. Streaks'
  BY <1>1, <1>2, <1>3 DEF HealthInv, Streaks, hcVars
<1>8. InSync'
  BY <1>1, <1>2, <1>3 DEF HealthInv, HealthTypes, InSync, hcVars, rtVars
<1> QED
  BY <1>4, <1>5, <1>6, <1>7, <1>8 DEF HealthInv

\* What a check of one object may do, whatever it found.
LEMMA CheckHealth ==
    ASSUME HealthInv, NEW o \in todo, todo' = todo \ {o},
           NEW h \in BOOLEAN, NEW f \in 0..Threshold, NEW s \in 0..Threshold,
           healthy' = [healthy EXCEPT ![o] = h],
           fails' = [fails EXCEPT ![o] = f],
           streak' = [streak EXCEPT ![o[2]] = s],
           f <= s,
           \/ notes' = notes /\ h = healthy[o]
           \/ notes' = Append(notes, <<o[2], h>>) /\ (h \/ s = Threshold),
           UNCHANGED <<epoch, registered, rtVars, checking, reload, pending, edit, disturbed>>
    PROVE  HealthInv'
<1>0. HealthTypes /\ Round /\ Unseen /\ Streaks /\ InSync
  BY DEF HealthInv
<1>1. /\ o \in Objects /\ o[1] \in Epochs /\ o[2] \in Addrs /\ o = <<o[1], o[2]>>
      /\ o[1] <= epoch /\ (o[1] = epoch => o[2] \in registered) /\ o[2] \notin Noted
      /\ epoch \in Epochs /\ o[1] \in Int /\ epoch \in Int
  BY <1>0, ObjectFacts DEF HealthTypes, Round
<1>2. /\ \A p \in Objects : p # o => healthy'[p] = healthy[p] /\ fails'[p] = fails[p]
      /\ healthy'[o] = h /\ fails'[o] = f
      /\ \A a \in Addrs : a # o[2] => streak'[a] = streak[a]
      /\ streak'[o[2]] = s
  BY <1>0, <1>1 DEF HealthTypes
<1>3. \A x \in Notes : x \in Addrs \X BOOLEAN /\ x[1] \in Noted /\ x[1] \in Addrs /\ x[1] # o[2]
  BY <1>0, <1>1, NoteTypes DEF HealthTypes
<1>4. /\ notes' \in Seq(Addrs \X BOOLEAN)
      /\ \/ Notes' = Notes /\ Noted' = Noted /\ h = healthy[o] /\ notes' = notes
         \/ /\ Notes' = Notes \cup {<<o[2], h>>} /\ Noted' = Noted \cup {o[2]}
            /\ h \/ s = Threshold
  <2>1. CASE notes' = notes /\ h = healthy[o]
    BY <1>0, <2>1, NotesKept DEF HealthTypes
  <2>2. CASE notes' = Append(notes, <<o[2], h>>) /\ (h \/ s = Threshold)
    <3>1. <<o[2], h>> \in Addrs \X BOOLEAN /\ <<o[2], h>>[1] = o[2]
      BY <1>1
    <3>2. notes \in Seq(Addrs \X BOOLEAN)
      BY <1>0 DEF HealthTypes
    <3>3. /\ notes' \in Seq(Addrs \X BOOLEAN)
          /\ Notes' = Notes \cup {<<o[2], h>>} /\ Noted' = Noted \cup {<<o[2], h>>[1]}
      BY <2>2, <3>1, <3>2, NewNote
    <3> QED
      BY <2>2, <3>1, <3>3
  <2> QED
    BY <2>1, <2>2
<1>5. HealthTypes'
  <2>1. healthy' \in [Objects -> BOOLEAN] /\ fails' \in [Objects -> 0..Threshold]
    BY <1>0 DEF HealthTypes
  <2>2. streak' \in [Addrs -> 0..Threshold] /\ todo' \in SUBSET Objects
    BY <1>0 DEF HealthTypes
  <2> QED
    BY <1>0, <1>4, <2>1, <2>2 DEF HealthTypes, rtVars
<1>6. Round'
  <2>1. checking
    BY <1>0 DEF Round
  <2>2. \A p \in todo' : p \in todo /\ p \in Objects /\ p # o
    BY <1>0 DEF HealthTypes
  <2>3. \A p \in todo' : p[2] # o[2]
    BY <1>0, <1>1, <2>2, ObjectFacts DEF Round
  <2> QED
    BY <1>0, <1>4, <2>1, <2>2, <2>3 DEF Round, HealthTypes
<1>7. Unseen'
  <2>1. \A p \in Objects : p[1] > epoch => healthy'[p] /\ fails'[p] = 0
    BY <1>0, <1>1, <1>2 DEF Unseen
  <2>2. \A a \in Addrs \ registered : healthy'[<<epoch, a>>]
    <3> SUFFICES ASSUME NEW a \in Addrs \ registered PROVE healthy'[<<epoch, a>>]
      OBVIOUS
    <3>1. <<epoch, a>> \in Objects /\ <<epoch, a>> # o
      BY <1>1, ObjectFacts
    <3> QED
      BY <1>0, <1>2, <3>1 DEF Unseen
  <2>3. \A q \in todo' : \A p \in Objects : p[1] > q[1] => fails'[p] = 0
    <3> SUFFICES ASSUME NEW q \in todo', NEW p \in Objects, p[1] > q[1] PROVE fails'[p] = 0
      OBVIOUS
    <3>1. q \in todo /\ q[1] = o[1] /\ p # o
      BY <1>0, <1>1 DEF Round
    <3> QED
      BY <1>0, <1>2, <3>1 DEF Unseen
  <2> QED
    BY <2>1, <2>2, <2>3 DEF Unseen
<1>8. Streaks'
  <2>1. ASSUME NEW p \in Objects, p[1] = epoch \/ p \in todo'
        PROVE  fails'[p] <= streak'[p[2]]
    <3>1. p[1] \in Int /\ p[2] \in Addrs /\ p = <<p[1], p[2]>>
      BY ObjectFacts
    <3>2. CASE p = o
      BY <1>2, <3>2
    <3>3. CASE p # o /\ p[2] # o[2]
      BY <1>0, <1>2, <2>1, <3>1, <3>3 DEF Streaks
    <3>4. CASE p # o /\ p[2] = o[2]
      <4>1. p \notin todo'
        BY <1>0, <1>1, <3>1, <3>4 DEF Round
      <4>2. p[1] > o[1]
        BY <1>1, <2>1, <3>1, <3>4, <4>1
      <4>3. fails'[p] = 0
        BY <1>0, <1>2, <3>4, <4>2 DEF Unseen
      <4> QED
        BY <1>2, <3>4, <4>3, ObjectFacts
    <3> QED
      BY <3>2, <3>3, <3>4
  <2>2. \A x \in Notes' : ~x[2] => streak'[x[1]] = Threshold
    <3> SUFFICES ASSUME NEW x \in Notes', ~x[2] PROVE streak'[x[1]] = Threshold
      OBVIOUS
    <3>1. CASE x \in Notes
      BY <1>0, <1>2, <1>3, <3>1 DEF Streaks
    <3>2. CASE x = <<o[2], h>> /\ (h \/ s = Threshold)
      BY <1>2, <3>2
    <3> QED
      BY <1>4, <3>1, <3>2
  <2> QED
    BY <2>1, <2>2 DEF Streaks
<1>9. InSync'
  <2> SUFFICES ASSUME ~disturbed PROVE InSync'
    BY DEF InSync
  <2>1. reload # "stop"
    BY <1>0 DEF InSync, Round
  <2>2. /\ \A p \in todo : p[1] = epoch
        /\ \A x \in Notes : x[1] \in registered /\ x[2] = healthy[<<epoch, x[1]>>]
        /\ \A a \in table \ Noted : routed[a] = healthy[<<epoch, a>>]
    BY <1>0, <2>1 DEF InSync
  <2>3. o = <<epoch, o[2]>> /\ o[2] \in registered
    BY <1>1, <2>2
  <2>4. \A a \in Addrs : a # o[2] => healthy'[<<epoch, a>>] = healthy[<<epoch, a>>]
    BY <1>1, <1>2, <2>3, ObjectFacts
  <2>5. \A x \in Notes' : x[1] \in registered /\ x[2] = healthy'[<<epoch, x[1]>>]
    <3> SUFFICES ASSUME NEW x \in Notes'
                 PROVE  x[1] \in registered /\ x[2] = healthy'[<<epoch, x[1]>>]
      OBVIOUS
    <3>1. CASE x \in Notes
      BY <1>3, <2>2, <2>4, <3>1
    <3>2. CASE x = <<o[2], h>>
      BY <1>2, <2>3, <3>2
    <3> QED
      BY <1>4, <3>1, <3>2
  <2>6. \A a \in table \ Noted' : routed[a] = healthy'[<<epoch, a>>]
    <3> SUFFICES ASSUME NEW a \in table, a \notin Noted'
                 PROVE  routed[a] = healthy'[<<epoch, a>>]
      OBVIOUS
    <3>1. a \in Addrs /\ a \notin Noted
      BY <1>0, <1>4 DEF HealthTypes
    <3>2. CASE a # o[2]
      BY <2>2, <2>4, <3>1, <3>2
    <3>3. CASE a = o[2]
      BY <1>2, <1>4, <2>2, <2>3, <3>1, <3>3
    <3> QED
      BY <3>2, <3>3
  <2> QED
    BY <2>1, <2>2, <2>5, <2>6 DEF InSync, rtVars
<1> QED
  BY <1>5, <1>6, <1>7, <1>8, <1>9 DEF HealthInv

LEMMA CheckUpHealth ==
    ASSUME HealthInv, NEW o \in Objects, CheckUp(o)
    PROVE  HealthInv'
<1>1. /\ o \in todo /\ todo' = todo \ {o}
      /\ healthy' = [healthy EXCEPT ![o] = TRUE]
      /\ fails' = [fails EXCEPT ![o] = 0]
      /\ streak' = [streak EXCEPT ![o[2]] = 0]
      /\ notes' = IF healthy[o] THEN notes ELSE Append(notes, <<o[2], TRUE>>)
      /\ UNCHANGED <<epoch, registered, rtVars, checking, reload, pending, edit, disturbed>>
  BY DEF CheckUp, reloadVars
<1>2. healthy[o] \in BOOLEAN /\ 0 \in 0..Threshold /\ 0 <= 0
  BY ObjectFacts DEF HealthInv, HealthTypes
<1>3. \/ notes' = notes /\ TRUE = healthy[o]
      \/ notes' = Append(notes, <<o[2], TRUE>>) /\ (TRUE \/ 0 = Threshold)
  BY <1>1, <1>2
<1> QED
  BY <1>1, <1>2, <1>3, CheckHealth

LEMMA CheckDownHealth ==
    ASSUME HealthInv, NEW o \in Objects, CheckDown(o)
    PROVE  HealthInv'
<1> DEFINE n == IF fails[o] < Threshold THEN fails[o] + 1 ELSE Threshold
           out == n >= Threshold /\ healthy[o]
           h == healthy[o] /\ ~out
           s == IF streak[o[2]] < Threshold THEN streak[o[2]] + 1 ELSE streak[o[2]]
<1>1. /\ o \in todo /\ todo' = todo \ {o}
      /\ fails' = [fails EXCEPT ![o] = n]
      /\ healthy' = [healthy EXCEPT ![o] = @ /\ ~out]
      /\ notes' = IF out THEN Append(notes, <<o[2], FALSE>>) ELSE notes
      /\ streak' = [streak EXCEPT ![o[2]] = IF @ < Threshold THEN @ + 1 ELSE @]
      /\ UNCHANGED <<epoch, registered, rtVars, checking, reload, pending, edit, disturbed>>
  BY DEF CheckDown, reloadVars
<1>2. /\ o[2] \in Addrs /\ fails[o] \in 0..Threshold /\ streak[o[2]] \in 0..Threshold
      /\ healthy[o] \in BOOLEAN /\ fails[o] <= streak[o[2]] /\ Threshold \in Nat \ {0}
  BY <1>1, ObjectFacts DEF HealthInv, HealthTypes, Streaks
<1>3. /\ n \in 0..Threshold /\ s \in 0..Threshold /\ n <= s
      /\ n >= Threshold => s = Threshold
  BY <1>2
<1>4. healthy' = [healthy EXCEPT ![o] = h] /\ streak' = [streak EXCEPT ![o[2]] = s]
  BY <1>1
<1>5. h \in BOOLEAN
  OBVIOUS
<1>6. \/ notes' = notes /\ h = healthy[o]
      \/ notes' = Append(notes, <<o[2], h>>) /\ (h \/ s = Threshold)
  <2>1. CASE out
    <3>1. h = FALSE /\ s = Threshold
      BY <1>3, <2>1
    <3>2. notes' = Append(notes, <<o[2], FALSE>>)
      BY <1>1, <2>1
    <3> QED
      BY <3>1, <3>2
  <2>2. CASE ~out
    <3>1. h = healthy[o]
      BY <1>2, <2>2
    <3>2. notes' = notes
      BY <1>1, <2>2
    <3> QED
      BY <3>1, <3>2
  <2> QED
    BY <2>1, <2>2
<1> HIDE DEF n, out, h, s
<1> QED
  BY <1>1, <1>3, <1>4, <1>5, <1>6, CheckHealth

LEMMA NotifyHealth ==
    ASSUME HealthInv, Notify
    PROVE  HealthInv'
<1>0. HealthTypes /\ Round /\ Unseen /\ Streaks /\ InSync
  BY DEF HealthInv
<1> DEFINE a == Head(notes)[1]
           v == Head(notes)[2]
<1>1. /\ checking /\ todo = {} /\ notes # <<>> /\ notes' = Tail(notes)
      /\ routed' = IF a \in table THEN [routed EXCEPT ![a] = v] ELSE routed
      /\ UNCHANGED <<epoch, registered, healthy, fails, table, todo, checking, reload,
                     pending, edit, streak, disturbed>>
  BY DEF Notify, hcVars, reloadVars
<1>2. /\ notes' \in Seq(Addrs \X BOOLEAN)
      /\ Notes' \subseteq Notes /\ Noted' \subseteq Noted
      /\ Head(notes) \in Notes /\ Noted \subseteq Noted' \cup {a}
  BY <1>0, <1>1, NextNote DEF HealthTypes
<1>3. a \in Addrs /\ v \in BOOLEAN
  <2>1. Head(notes) \in Addrs \X BOOLEAN
    BY <1>0, <1>2, NoteTypes DEF HealthTypes
  <2> QED
    BY <2>1
<1>4. routed' \in [Addrs -> BOOLEAN]
  BY <1>0, <1>1, <1>3 DEF HealthTypes
<1>5. HealthTypes'
  BY <1>0, <1>1, <1>2, <1>4 DEF HealthTypes
<1>6. Round' /\ Unseen' /\ Streaks'
  BY <1>0, <1>1, <1>2 DEF Round, Unseen, Streaks
<1>7. InSync'
  <2> SUFFICES ASSUME ~disturbed PROVE InSync'
    BY <1>1 DEF InSync
  <2>1. reload # "stop"
    BY <1>0, <1>1 DEF InSync
  <2>2. /\ \A x \in Notes : x[1] \in registered /\ x[2] = healthy[<<epoch, x[1]>>]
        /\ \A b \in table \ Noted : routed[b] = healthy[<<epoch, b>>]
    BY <1>0, <2>1 DEF InSync
  <2>3. \A b \in table \ Noted' : routed'[b] = healthy[<<epoch, b>>]
    <3> SUFFICES ASSUME NEW b \in table, b \notin Noted'
                 PROVE  routed'[b] = healthy[<<epoch, b>>]
      OBVIOUS
    <3>1. b \in Addrs
      BY <1>0 DEF HealthTypes
    <3>2. CASE b = a
      <4>1. routed'[b] = v
        BY <1>0, <1>1, <3>1, <3>2 DEF HealthTypes
      <4> QED
        BY <1>2, <2>2, <3>2, <4>1
    <3>3. CASE b # a
      <4>1. routed'[b] = routed[b]
        BY <1>0, <1>1, <3>1, <3>3 DEF HealthTypes
      <4> QED
        BY <1>2, <2>2, <3>3, <4>1
    <3> QED
      BY <3>2, <3>3
  <2> QED
    BY <1>1, <1>2, <2>1, <2>2, <2>3 DEF InSync
<1> QED
  BY <1>5, <1>6, <1>7 DEF HealthInv

LEMMA EndRoundHealth ==
    ASSUME HealthInv, EndRound
    PROVE  HealthInv'
<1>1. /\ todo = {} /\ notes = <<>> /\ checking' = FALSE
      /\ UNCHANGED <<hcVars, rtVars, todo, notes, reload, pending, edit, streak, disturbed>>
  BY DEF EndRound, reloadVars
<1>2. Notes' = Notes /\ Noted' = Noted
  BY <1>1, NotesKept
<1>3. HealthTypes'
  BY <1>1 DEF HealthInv, HealthTypes, hcVars, rtVars
<1>4. Round' /\ Unseen' /\ Streaks'
  BY <1>1, <1>2 DEF HealthInv, Round, Unseen, Streaks, hcVars
<1>5. InSync'
  BY <1>1, <1>2 DEF HealthInv, InSync, hcVars, rtVars
<1> QED
  BY <1>3, <1>4, <1>5 DEF HealthInv

\* A table in which every backend is healthy, installed over a checker that
\* knows of nothing else, or else remembered as a disturbance.
LEMMA InstallHealth ==
    ASSUME HealthInv, NEW T \in SUBSET Addrs, Install(T),
           UNCHANGED <<hcVars, checkVars, streak>>,
           pending' \in SUBSET Addrs, edit' \in Addrs \cup {"none"},
           disturbed' \in BOOLEAN,
           reload' = "stop" => epoch < MaxReloads,
           ~disturbed' => ~checking,
           ~disturbed' /\ reload' # "stop" => \A a \in registered : healthy[<<epoch, a>>]
    PROVE  HealthInv'
<1>0. HealthTypes /\ Round /\ Unseen /\ Streaks
  BY DEF HealthInv
<1>1. Notes' = Notes /\ Noted' = Noted
  BY NotesKept DEF checkVars
<1>2. table' = T /\ routed' \in [Addrs -> BOOLEAN] /\ \A a \in T : routed'[a] = TRUE
  <2>1. table' = T /\ routed' = [a \in Addrs |-> a \in T]
    BY DEF Install, AllHealthy
  <2>2. routed' \in [Addrs -> BOOLEAN]
    <3>1. \A a \in Addrs : (a \in T) \in BOOLEAN
      OBVIOUS
    <3> QED
      BY <2>1, <3>1
  <2>3. ASSUME NEW a \in T PROVE routed'[a] = TRUE
    <3>1. a \in Addrs
      OBVIOUS
    <3>2. routed'[a] = (a \in T)
      BY <2>1, <3>1, Zenon
    <3> QED
      BY <2>3, <3>2, Zenon
  <2> QED
    BY <2>1, <2>2, <2>3
<1>3. HealthTypes'
  BY <1>0, <1>2 DEF HealthTypes, hcVars, checkVars
<1>4. Round' /\ Unseen' /\ Streaks'
  BY <1>0, <1>1 DEF Round, Unseen, Streaks, hcVars, checkVars
<1>5. InSync'
  <2> SUFFICES ASSUME ~disturbed' PROVE InSync'
    BY DEF InSync
  <2>1. ~checking /\ ~checking' /\ todo' = {} /\ notes = <<>>
    BY <1>0 DEF Round, checkVars
  <2>2. Notes' = {} /\ Noted' = {}
    BY <1>1, <2>1, NoNotes
  <2>3. reload' # "stop" => \A a \in Addrs : healthy[<<epoch, a>>] = TRUE
    <3> SUFFICES ASSUME reload' # "stop", NEW a \in Addrs PROVE healthy[<<epoch, a>>] = TRUE
      OBVIOUS
    <3>1. healthy[<<epoch, a>>]
      BY <1>0 DEF Unseen
    <3>2. healthy[<<epoch, a>>] \in BOOLEAN
      BY <1>0, ObjectFacts DEF HealthTypes
    <3> QED
      BY <3>1, <3>2
  <2> QED
    BY <1>2, <2>1, <2>2, <2>3 DEF InSync, hcVars
<1> QED
  BY <1>3, <1>4, <1>5 DEF HealthInv

LEMMA StopAllHealth ==
    ASSUME HealthInv, ReloadStopAll
    PROVE  HealthInv'
<1>0. HealthTypes /\ Round /\ Unseen /\ Streaks /\ InSync
  BY DEF HealthInv
<1>1. /\ reload = "stop" /\ epoch' = epoch + 1 /\ registered' = {} /\ reload' = "register"
      /\ UNCHANGED <<healthy, fails, table, routed, todo, notes, checking, pending, edit,
                     streak, disturbed>>
  BY DEF ReloadStopAll, rtVars, checkVars
<1>2. epoch \in Int /\ epoch + 1 \in Epochs /\ \A o \in Objects : o[1] \in Int
  BY <1>0, <1>1, ObjectFacts DEF HealthTypes
<1>3. Notes' = Notes /\ Noted' = Noted
  BY <1>1, NotesKept
<1>4. \A o \in Objects : o[1] > epoch => healthy[o] = TRUE /\ fails[o] = 0
  BY <1>0 DEF Unseen, HealthTypes
<1>5. \A a \in Addrs : healthy[<<epoch + 1, a>>] = TRUE
  <2> SUFFICES ASSUME NEW a \in Addrs PROVE healthy[<<epoch + 1, a>>] = TRUE
    OBVIOUS
  <2>1. <<epoch + 1, a>> \in Objects /\ <<epoch + 1, a>>[1] = epoch + 1
    BY <1>2, ObjectFacts
  <2> QED
    BY <1>2, <1>4, <2>1
<1>6. HealthTypes'
  BY <1>0, <1>1, <1>2 DEF HealthTypes
<1>7. Round'
  <2>1. \A o \in todo : o[1] \in Int /\ o[1] <= epoch
    BY <1>0, <1>2 DEF HealthTypes, Round
  <2>2. \A o \in todo : o[1] <= epoch + 1 /\ o[1] # epoch + 1
    BY <1>2, <2>1
  <2> QED
    BY <1>0, <1>1, <1>3, <2>2 DEF Round
<1>8. Unseen'
  <2>1. \A o \in Objects : o[1] > epoch + 1 => healthy[o] /\ fails[o] = 0
    BY <1>2, <1>4
  <2> QED
    BY <1>0, <1>1, <1>5, <2>1 DEF Unseen
<1>9. Streaks'
  <2>1. \A o \in Objects : o[1] = epoch + 1 => fails[o] = 0
    BY <1>2, <1>4
  <2>2. \A o \in Objects : streak[o[2]] \in 0..Threshold
    BY <1>0, ObjectFacts DEF HealthTypes
  <2>3. \A o \in Objects : o[1] = epoch + 1 => fails[o] <= streak[o[2]]
    BY <2>1, <2>2, ObjectFacts
  <2> QED
    BY <1>0, <1>1, <1>3, <2>3 DEF Streaks
<1>10. InSync'
  <2> SUFFICES ASSUME ~disturbed PROVE InSync'
    BY <1>1 DEF InSync
  <2>1. ~checking /\ todo = {} /\ notes = <<>>
    BY <1>0, <1>1 DEF InSync, Round
  <2>2. Notes' = {} /\ Noted' = {}
    BY <1>3, <2>1, NoNotes
  <2>3. \A a \in table : a \in Addrs /\ routed[a] = TRUE
    BY <1>0, <1>1 DEF InSync, HealthTypes
  <2> QED
    BY <1>1, <1>5, <2>1, <2>2, <2>3 DEF InSync
<1> QED
  BY <1>6, <1>7, <1>8, <1>9, <1>10 DEF HealthInv

\* Register, of the reload and of addBackend: the object is new.
LEMMA RegisterHealth ==
    ASSUME HealthInv, NEW a \in Addrs, registered' = registered \cup {a},
           UNCHANGED <<epoch, healthy, fails, rtVars, checkVars, reload, streak, disturbed>>,
           pending' \in SUBSET Addrs, edit' \in Addrs \cup {"none"}
    PROVE  HealthInv'
<1>1. Notes' = Notes /\ Noted' = Noted
  BY NotesKept DEF checkVars
<1>2. HealthTypes'
  BY DEF HealthInv, HealthTypes, rtVars, checkVars
<1>3. Round' /\ Unseen' /\ Streaks'
  BY <1>1 DEF HealthInv, Round, Unseen, Streaks, checkVars
<1>4. InSync'
  BY <1>1 DEF HealthInv, InSync, rtVars, checkVars
<1> QED
  BY <1>2, <1>3, <1>4 DEF HealthInv

LEMMA NextHealthInv ==
    ASSUME HealthInv, [HealthNext]_healthVars
    PROVE  HealthInv'
<1>0. /\ pending \in SUBSET Addrs /\ edit \in Addrs \cup {"none"} /\ checking \in BOOLEAN
      /\ disturbed \in BOOLEAN /\ table \in SUBSET Addrs /\ epoch \in Epochs
      /\ \A a \in registered : healthy[<<epoch, a>>] \in BOOLEAN
      /\ reload = "stop" => epoch < MaxReloads
  BY ObjectFacts DEF HealthInv, HealthTypes
<1>1. CASE UNCHANGED healthVars
  BY <1>0, <1>1, HealthKept DEF healthVars, reloadVars
<1>2. CASE \E a \in Addrs : Toggle(a)
  BY <1>0, <1>2, HealthKept DEF Toggle, reloadVars
<1>3. CASE CheckStep
  BY <1>3, StartRoundHealth, NotifyHealth, EndRoundHealth, CheckUpHealth, CheckDownHealth
     DEF CheckStep, Objects
<1>4. CASE ReloadSwap
  <2>1. PICK T \in Tables : Install(T) /\ pending' = T
    BY <1>4 DEF ReloadSwap
  <2>2. /\ reload' = "stop" /\ epoch < MaxReloads /\ disturbed' = checking
        /\ UNCHANGED <<hcVars, checkVars, edit, streak>>
    BY <1>4 DEF ReloadSwap
  <2>3. T \in SUBSET Addrs
    BY HealthAssumption
  <2> QED
    BY <1>0, <2>1, <2>2, <2>3, InstallHealth
<1>5. CASE ReloadStopAll
  BY <1>5, StopAllHealth
<1>6. CASE ReloadRegister
  <2>1. UNCHANGED <<epoch, healthy, fails, rtVars, checkVars, streak, disturbed, edit>>
    BY <1>6 DEF ReloadRegister
  <2>2. CASE \E a \in pending : /\ registered' = registered \cup {a}
                                /\ pending' = pending \ {a}
                                /\ UNCHANGED reload
    BY <1>0, <2>1, <2>2, RegisterHealth
  <2>3. CASE reload' = "idle" /\ UNCHANGED <<registered, pending>>
    <3>1. reload = "register"
      BY <1>6 DEF ReloadRegister
    <3>2. Notes' = Notes /\ Noted' = Noted
      BY <2>1, NotesKept DEF checkVars
    <3>3. HealthTypes'
      BY <2>1, <2>3 DEF HealthInv, HealthTypes, rtVars, checkVars
    <3>4. Round' /\ Unseen' /\ Streaks'
      BY <2>1, <2>3, <3>2 DEF HealthInv, Round, Unseen, Streaks, checkVars
    <3>5. InSync'
      BY <2>1, <2>3, <3>1, <3>2 DEF HealthInv, InSync, rtVars, checkVars
    <3> QED
      BY <3>3, <3>4, <3>5 DEF HealthInv
  <2> QED
    BY <1>6, <2>2, <2>3 DEF ReloadRegister
<1>7. CASE EditSwap \/ EditAddBackend
  <2>1. /\ disturbed' = (disturbed \/ Hides) /\ UNCHANGED <<hcVars, checkVars, streak>>
        /\ UNCHANGED <<reload, pending>>
    BY <1>7 DEF EditSwap, EditAddBackend, reloadVars
  <2>2. PICK T \in SUBSET Addrs : Install(T) /\ edit' \in Addrs \cup {"none"}
    <3>1. CASE EditSwap
      BY <1>0, <3>1, HealthAssumption DEF EditSwap
    <3>2. CASE EditAddBackend
      <4>1. PICK a \in Addrs : Install(table \cup {a}) /\ edit' = a
        BY <3>2 DEF EditAddBackend
      <4>2. table \cup {a} \in SUBSET Addrs
        BY <1>0
      <4> QED
        BY <4>1, <4>2
    <3> QED
      BY <1>7, <3>1, <3>2
  <2>3. /\ disturbed' \in BOOLEAN /\ (~disturbed' => ~checking)
        /\ ~disturbed' => \A a \in registered : healthy[<<epoch, a>>]
    BY <2>1 DEF Hides
  <2> QED
    BY <1>0, <2>1, <2>2, <2>3, InstallHealth
<1>8. CASE EditRegister
  BY <1>0, <1>8, RegisterHealth DEF EditRegister, reloadVars
<1> QED
  BY <1>1, <1>2, <1>3, <1>4, <1>5, <1>6, <1>7, <1>8 DEF HealthNext, ReloadStep

LEMMA HealthInvariant == HealthSpec => []HealthInv
<1>1. HealthInv /\ [HealthNext]_healthVars => HealthInv'
  BY NextHealthInv
<1> QED
  BY <1>1, InitHealthInv, PTL DEF HealthSpec

\* Between two rounds the router's flags are the health checker's, for any
\* tables, threshold and number of reloads and edits, except after a reload
\* that met a round and an edit over a backend that was down or being checked
\* (checkAll and its onChange, UpdateBackendHealth, Register, SwapRoutes).
THEOREM FlagsAgreeBetweenRounds == HealthSpec => []AgreeBetweenRounds
<1>1. HealthInv => AgreeBetweenRounds
  <2> SUFFICES ASSUME HealthInv, ~checking, reload # "stop", ~disturbed,
                      NEW a \in registered \cap table
               PROVE  routed[a] = healthy[<<epoch, a>>]
    BY DEF AgreeBetweenRounds
  <2>1. Noted = {}
    BY NoNotes DEF HealthInv, Round
  <2> QED
    BY <2>1 DEF HealthInv, InSync
<1> QED
  BY <1>1, HealthInvariant, PTL

\* A backend that stays in the table goes out of rotation only after Threshold
\* failed checks in a row, however rounds, reloads and edits overlap and
\* whichever epoch the reporting object is from (checkAll).
THEOREM OutOnlyAfterStreak == HealthSpec => OutAfterStreak
<1>1. ASSUME HealthInv, [HealthNext]_healthVars
      PROVE  [\A a \in table \cap table' :
                 routed[a] /\ ~routed'[a] => streak[a] = Threshold]_healthVars
  <2> SUFFICES ASSUME HealthNext, NEW a \in table \cap table', routed[a], ~routed'[a]
               PROVE  streak[a] = Threshold
    BY <1>1
  <2>0. a \in Addrs /\ routed \in [Addrs -> BOOLEAN]
    BY <1>1 DEF HealthInv, HealthTypes
  <2>1. CASE Notify
    <3>1. /\ notes # <<>> /\ notes' = Tail(notes)
          /\ Head(notes)[1] \in table => routed' = [routed EXCEPT ![Head(notes)[1]] = Head(notes)[2]]
          /\ Head(notes)[1] \notin table => routed' = routed
      BY <2>1 DEF Notify
    <3>2. a = Head(notes)[1] /\ ~Head(notes)[2]
      BY <2>0, <3>1
    <3>3. Head(notes) \in Notes
      BY <1>1, <3>1, NextNote DEF HealthInv, HealthTypes
    <3> QED
      BY <1>1, <3>2, <3>3 DEF HealthInv, Streaks
  <2>2. CASE ReloadSwap \/ EditSwap \/ EditAddBackend
    <3>1. PICK T : table' = T /\ routed' = AllHealthy(T)
      BY <2>2 DEF ReloadSwap, EditSwap, EditAddBackend, Install
    <3> QED
      BY <2>0, <3>1 DEF AllHealthy
  <2>3. CASE ~(Notify \/ ReloadSwap \/ EditSwap \/ EditAddBackend)
    <3>1. routed' = routed
      BY <2>3 DEF HealthNext, Toggle, CheckStep, StartRound, EndRound, CheckUp, CheckDown,
         ReloadStep, ReloadStopAll, ReloadRegister, EditRegister, rtVars
    <3> QED
      BY <3>1
  <2> QED
    BY <2>1, <2>2, <2>3
<1> QED
  BY <1>1, HealthInvariant, PTL DEF HealthSpec, OutAfterStreak
=============================================================================
