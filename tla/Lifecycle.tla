----------------------------- MODULE Lifecycle -----------------------------
(***************************************************************************)
(* The background work of internal/lifecycle: the health checker with the  *)
(* flags it keeps (HealthSync) and the supervised goroutines with the      *)
(* shutdown that ends them (Supervisor).  They share no state, so a        *)
(* behaviour follows one of them.                                          *)
(***************************************************************************)
EXTENDS HealthSync, Supervisor

VARIABLE part

lifecycleVars == <<part, healthVars, vars>>

\* The part that is not followed stays in one of its initial states.
LifecycleInit ==
    /\ part \in {"health", "tasks"} /\ HealthInit /\ Init
    /\ part = "tasks" => up = AllHealthy(Addrs) /\ table = CHOOSE T \in Tables : TRUE

InHealth(A) == part = "health" /\ A /\ UNCHANGED <<part, vars>>

InTasks(A) == part = "tasks" /\ A /\ UNCHANGED <<part, healthVars>>

LifecycleNext == InHealth(HealthNext) \/ InTasks(Next)

\* The fairness of FairHealth and of FairSpec.  The steps of one part are never
\* enabled in a behaviour of the other, so fairness of either is fairness of both.
LifecycleSpec ==
    /\ LifecycleInit /\ [][LifecycleNext]_lifecycleVars
    /\ WF_lifecycleVars(InHealth(CheckStep) \/ InTasks(RunHook \/ HookFails \/ HookHangs))
    /\ WF_lifecycleVars(InHealth(ReloadStep) \/ InTasks(HooksDone))
    /\ WF_lifecycleVars(InHealth(EditRegister) \/ InTasks(TimerFires))
    /\ \A i \in Insts : WF_lifecycleVars(InTasks(Deferred(i)))
=============================================================================
