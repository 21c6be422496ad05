----------------------------- MODULE Supervisor -----------------------------
(***************************************************************************)
(* Background goroutines that are restarted after a panic                  *)
(* (internal/lifecycle/recoverable.go) and the shutdown sequence           *)
(* (internal/lifecycle/graceful.go) that stops them among other things.    *)
(*                                                                         *)
(* An instance <<name, n>> is the n-th goroutine Recoverable.Go started    *)
(* under that name.  Sections under Recoverable.mu are single steps.       *)
(***************************************************************************)
EXTENDS Integers, Sequences

CONSTANTS
    Names,          \* task names
    MaxRetry,       \* Recoverable.maxRetry
    Hooks,          \* the shutdown functions, in the order of registration
    MaxCalls        \* bound: calls of Go by the program, per name

ASSUME SupervisorAssumption ==
    /\ MaxRetry \in Nat /\ MaxCalls \in Nat /\ Hooks \in Seq(STRING)

MaxInst == MaxCalls + MaxRetry + 1
Insts == Names \X (1..MaxInst)

VARIABLES
    running,        \* Recoverable.running: the instance whose CancelFunc is stored, 0 if none
    restarts,       \* Recoverable.restarts
    started,        \* instances so far
    calls,          \* Go calls by the program
    pc,             \* an instance's next step
    cancelled,      \* instances whose context is cancelled
    wait,           \* Graceful.Wait: "up", "stopping", "returned"
    hook,           \* shutdown functions not yet run
    hung,           \* the current one never returns
    ran,            \* history: those that ended
    timedOut,       \* history: Wait gave up
    stopped         \* history: StopAll has run

taskVars == <<running, restarts, started, calls, pc, cancelled>>
downVars == <<wait, hook, hung, ran, timedOut, stopped>>
vars == <<taskVars, downVars>>

Init ==
    /\ running = [n \in Names |-> 0] /\ restarts = [n \in Names |-> 0]
    /\ started = [n \in Names |-> 0] /\ calls = [n \in Names |-> 0]
    /\ pc = [i \in Insts |-> "none"] /\ cancelled = {}
    /\ wait = "up" /\ hook = Len(Hooks) /\ hung = FALSE
    /\ ran = {} /\ timedOut = FALSE /\ stopped = FALSE

Alive == wait # "returned"

-----------------------------------------------------------------------------
(* Recoverable                                                             *)

\* Go: cancel a previous instance, register and start the new one.  The
\* instances in ender end with this call.
Go(n, ender) ==
    LET k == started[n] + 1 IN
    /\ cancelled' = cancelled \cup (IF running[n] = 0 THEN {} ELSE {<<n, running[n]>>})
    /\ running' = [running EXCEPT ![n] = k]
    /\ started' = [started EXCEPT ![n] = k]
    /\ pc' = [i \in Insts |-> IF i = <<n, k>> THEN "run" ELSE IF i \in ender THEN "end" ELSE pc[i]]

Call(n) ==
    /\ Alive /\ calls[n] < MaxCalls /\ wait = "up"
    /\ calls' = [calls EXCEPT ![n] = @ + 1]
    /\ Go(n, {})
    /\ UNCHANGED <<restarts, downVars>>

Step(i, from, to) == Alive /\ pc[i] = from /\ pc' = [pc EXCEPT ![i] = to]

\* fn returns, because its context is cancelled or not, with or without an
\* error (which is logged) ...
Return(i) ==
    /\ Step(i, "run", "exit")
    /\ UNCHANGED <<running, restarts, started, calls, cancelled, downVars>>

\* ... or panics.
Panic(i) ==
    /\ Step(i, "run", "panic")
    /\ UNCHANGED <<running, restarts, started, calls, cancelled, downVars>>

\* The deferred function after an ordinary return: forget the name.
Forget(i) ==
    /\ Alive /\ pc[i] \in {"exit", "giveUp"}
    /\ pc' = [pc EXCEPT ![i] = "end"]
    /\ running' = [running EXCEPT ![i[1]] = 0]
    /\ UNCHANGED <<restarts, started, calls, cancelled, downVars>>

\* After a panic: count it, and decide.
CountPanic(i) ==
    /\ Step(i, "panic", IF restarts[i[1]] + 1 <= MaxRetry THEN "backoff" ELSE "giveUp")
    /\ restarts' = [restarts EXCEPT ![i[1]] = @ + 1]
    /\ UNCHANGED <<running, started, calls, cancelled, downVars>>

\* Mutant: the back-off of a panicked task returns without a new Go.
BackoffElapses_NoRestart(i) ==
    /\ Step(i, "backoff", "end")
    /\ UNCHANGED <<running, restarts, started, calls, cancelled, downVars>>

\* The select of the back-off: the delay has passed ...
BackoffElapses(i) ==
    /\ Step(i, "backoff", "restart")
    /\ UNCHANGED <<running, restarts, started, calls, cancelled, downVars>>

\* ... or the context is cancelled; with both ready either may be taken.
BackoffCancelled(i) ==
    /\ i \in cancelled
    /\ Step(i, "backoff", "end")
    /\ UNCHANGED <<running, restarts, started, calls, cancelled, downVars>>

\* The new Go after the back-off; the panicked instance ends with it.
Restart(i) ==
    /\ Alive /\ pc[i] = "restart"
    /\ Go(i[1], {i})
    /\ UNCHANGED <<restarts, calls, downVars>>

\* Mutant: the loop passes over a name.
StopAll_SkipsOne ==
    LET rest == Names \ {CHOOSE n \in Names : TRUE} IN
    /\ cancelled' = cancelled \cup {<<n, running[n]>> : n \in {m \in rest : running[m] # 0}}
    /\ running' = [n \in Names |-> IF n \in rest THEN 0 ELSE running[n]]
    /\ stopped' = TRUE

\* The effect of StopAll: cancel and forget every registered instance.
StopAll ==
    /\ cancelled' = cancelled \cup {<<n, running[n]>> : n \in {m \in Names : running[m] # 0}}
    /\ running' = [n \in Names |-> 0]
    /\ stopped' = TRUE

-----------------------------------------------------------------------------
(* Graceful                                                                *)

Signal ==
    /\ wait = "up"
    /\ wait' = "stopping"
    /\ UNCHANGED <<taskVars, hook, hung, ran, timedOut, stopped>>

\* The handlers run in a goroutine, last registered first.
RunHook ==
    /\ wait = "stopping" /\ hook > 0 /\ ~hung
    /\ hook' = hook - 1
    /\ ran' = ran \cup {hook}
    /\ IF Hooks[hook] = "StopAll" THEN StopAll
       ELSE UNCHANGED <<running, cancelled, stopped>>
    /\ UNCHANGED <<restarts, started, calls, pc, wait, hung, timedOut>>

\* A handler returns an error: it is logged and the next one runs.
HookFails ==
    /\ wait = "stopping" /\ hook > 0 /\ ~hung /\ Hooks[hook] # "StopAll"
    /\ hook' = hook - 1
    /\ ran' = ran \cup {hook}
    /\ UNCHANGED <<taskVars, wait, hung, timedOut, stopped>>

\* A handler blocks for longer than anybody waits.
HookHangs ==
    /\ wait = "stopping" /\ hook > 0 /\ ~hung /\ Hooks[hook] # "StopAll"
    /\ hung' = TRUE
    /\ UNCHANGED <<taskVars, wait, hook, ran, timedOut, stopped>>

HooksDone ==
    /\ wait = "stopping" /\ hook = 0
    /\ wait' = "returned"
    /\ UNCHANGED <<taskVars, hook, hung, ran, timedOut, stopped>>

\* Mutant: Wait's timer runs only until the first handler has started.
TimerFires_OnlyEarly ==
    /\ wait = "stopping" /\ hook = Len(Hooks) /\ ~hung
    /\ wait' = "returned" /\ timedOut' = TRUE
    /\ UNCHANGED <<taskVars, hook, hung, ran, stopped>>

TimerFires ==
    /\ wait = "stopping"
    /\ wait' = "returned" /\ timedOut' = TRUE
    /\ UNCHANGED <<taskVars, hook, hung, ran, stopped>>

-----------------------------------------------------------------------------
Deferred(i) ==
    \/ Forget(i) \/ CountPanic(i) \/ BackoffElapses(i) \/ BackoffCancelled(i) \/ Restart(i)

Shutdown == Signal \/ RunHook \/ HookFails \/ HookHangs \/ HooksDone \/ TimerFires

Next ==
    \/ \E n \in Names : Call(n)
    \/ \E i \in Insts : Return(i) \/ Panic(i) \/ Deferred(i)
    \/ Shutdown

Spec == Init /\ [][Next]_vars

\* Goroutines are scheduled, time passes and a shutdown goes on; whether a
\* task ever returns or panics, and whether a signal ever comes, is open.
Fairness ==
    /\ \A i \in Insts : WF_vars(Deferred(i))
    /\ WF_vars(RunHook \/ HookFails \/ HookHangs) /\ WF_vars(HooksDone) /\ WF_vars(TimerFires)

FairSpec == Spec /\ Fairness

-----------------------------------------------------------------------------
(* Properties                                                              *)

Running(i) == pc[i] = "run" /\ i \notin cancelled

\* Did the program itself use the name again?  An ending instance deletes the
\* registration of whichever instance then holds its name.
Reused(n) == calls[n] > 1

\* An instance that runs and was not told to stop is the registered one, so
\* that a later Go, Stop or StopAll reaches it (hence one name never has two),
\* unless the program reused its name.
Stoppable == \A i \in Insts : Running(i) => running[i[1]] = i[2] \/ Reused(i[1])

\* A task is started at most MaxRetry times more than the program asked for.
RestartsBounded == \A n \in Names : started[n] <= calls[n] + MaxRetry

\* After StopAll no task runs on: one that does was started again after a
\* panic, its back-off having ended as StopAll ran, or had its name reused.
StoppedUnlessPanicked ==
    stopped => \A i \in Insts : Running(i) => restarts[i[1]] > 0 \/ Reused(i[1])

\* If Wait returns before its timer, every shutdown function was called, the
\* failing ones notwithstanding.
AllHooksRan == (wait = "returned" /\ ~timedOut) => ran = 1..Len(Hooks)

\* Wait, which a signal wakes once, returns even if a shutdown function hangs.
ShutdownReturns == <>[](wait # "stopping")

\* Every panic of n was counted, and has had its restart or an answer to its back-off.
MadeGood(n) ==
    /\ \A i \in Insts : i[1] = n => pc[i] \notin {"panic", "backoff", "restart"}
    /\ started[n] = calls[n] + restarts[n] \/ Reused(n)

\* A task that panics is started again, once for each panic, unless the restarts
\* are used up or the program shuts down; the back-off of a name that the
\* program reused may end with the new instance instead.
RestartedAfterPanic ==
    \A n \in Names : []<>(MadeGood(n) \/ restarts[n] > MaxRetry \/ wait # "up")

\* Tasks can be stopped, and StopAll stops them (Recoverable.Go, StopAll).
TasksStop == Stoppable /\ StoppedUnlessPanicked

\* Panics are made good, within the budget of restarts (the deferred function
\* of Recoverable.Go).
RestartsWork == []RestartsBounded /\ RestartedAfterPanic

\* A shutdown calls every handler and comes to an end (GracefulShutdown.Wait).
ShutdownCompletes == []AllHooksRan /\ ShutdownReturns
=============================================================================
