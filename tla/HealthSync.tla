----------------------------- MODULE HealthSync -----------------------------
(***************************************************************************)
(* Active health checking (internal/lifecycle/health.go), the health flags *)
(* of the router's backends (Router.UpdateBackendHealth, SwapRoutes), and  *)
(* the two ways a new route table is installed while checks run: the       *)
(* config watcher's callback (cmd/nexusgate/main.go) and the dashboard's   *)
(* reloadRouter (internal/dashboard/api.go).                               *)
(*                                                                         *)
(* A BackendHealth object is <<epoch, address>>: StopAll starts a new      *)
(* epoch, and Register makes at most one object per address and epoch.     *)
(***************************************************************************)
EXTENDS Integers, Sequences, FiniteSets

CONSTANTS
    Addrs,          \* backend addresses
    Tables,         \* sets of addresses a route table may use
    Threshold,      \* unhealthy_threshold
    MaxReloads,     \* bound: reloads of the configuration file
    MaxEdits        \* bound: edits on the dashboard

ASSUME HealthAssumption ==
    /\ Threshold \in Nat \ {0}
    /\ MaxReloads \in Nat /\ MaxEdits \in Nat
    /\ \A T \in Tables : T \subseteq Addrs

Epochs == 0..MaxReloads

VARIABLES
    up,         \* does the backend answer?
    epoch,      \* the current map hc.backends ...
    registered, \* ... and the addresses in it
    healthy,    \* BackendHealth.Healthy
    fails,      \* BackendHealth.ConsecutiveFails
    table,      \* addresses of the router's current table
    routed,     \* Backend.Healthy in that table
    todo,       \* objects checkAll copied and has yet to check
    notes,      \* its notifications, not yet delivered
    checking,   \* a round of checkAll is under way
    reload,     \* the callback's next step
    pending,    \* addresses it has yet to register
    edit,       \* the address addBackend has yet to register, or "none"
    edits,      \* edits so far
    streak,     \* history: failed checks of an address in a row
    disturbed   \* history: since the last reload that met no round of checks,
                \* a table was installed behind the checker's back

hcVars == <<epoch, registered, healthy, fails>>
rtVars == <<table, routed>>
checkVars == <<todo, notes, checking>>
reloadVars == <<reload, pending>>
healthVars == <<up, hcVars, rtVars, checkVars, reloadVars, edit, edits, streak, disturbed>>

AllHealthy(T) == [a \in Addrs |-> a \in T]

\* A backend fails or comes back.
Toggle(a) ==
    /\ up' = [up EXCEPT ![a] = ~@]
    /\ UNCHANGED <<hcVars, rtVars, checkVars, reloadVars, edit, edits, streak, disturbed>>

-----------------------------------------------------------------------------
(* HealthChecker.Run: one goroutine, checkAll on every tick                *)

\* checkAll copies the pointers out of the map.
StartRound ==
    /\ ~checking
    /\ checking' = TRUE
    /\ todo' = {<<epoch, a>> : a \in registered}
    /\ disturbed' = (disturbed \/ reload = "stop")
    /\ UNCHANGED <<up, hcVars, rtVars, notes, reloadVars, edit, edits, streak>>

\* Mutant: a success does not reset the failures counted so far.
CheckUp_KeepFails(o) ==
    /\ o \in todo /\ up[o[2]]
    /\ todo' = todo \ {o}
    /\ notes' = IF healthy[o] THEN notes ELSE Append(notes, <<o[2], TRUE>>)
    /\ healthy' = [healthy EXCEPT ![o] = TRUE]
    /\ streak' = [streak EXCEPT ![o[2]] = 0]
    /\ UNCHANGED <<up, epoch, registered, fails, rtVars, checking, reloadVars,
                   edit, edits, disturbed>>

\* Mutant: a backend that was taken out is not brought back.
CheckUp_NoRecovery(o) ==
    /\ o \in todo /\ up[o[2]]
    /\ todo' = todo \ {o}
    /\ fails' = [fails EXCEPT ![o] = 0]
    /\ streak' = [streak EXCEPT ![o[2]] = 0]
    /\ UNCHANGED <<up, epoch, registered, healthy, rtVars, notes, checking,
                   reloadVars, edit, edits, disturbed>>

\* One backend answers: note a recovery, reset the object.
CheckUp(o) ==
    /\ o \in todo /\ up[o[2]]
    /\ todo' = todo \ {o}
    /\ notes' = IF healthy[o] THEN notes ELSE Append(notes, <<o[2], TRUE>>)
    /\ healthy' = [healthy EXCEPT ![o] = TRUE]
    /\ fails' = [fails EXCEPT ![o] = 0]
    /\ streak' = [streak EXCEPT ![o[2]] = 0]
    /\ UNCHANGED <<up, epoch, registered, rtVars, checking, reloadVars, edit,
                   edits, disturbed>>

\* One backend does not answer.  Counting stops at the threshold, above which
\* nothing depends on the count.
CheckDown(o) ==
    LET n == IF fails[o] < Threshold THEN fails[o] + 1 ELSE Threshold
        out == n >= Threshold /\ healthy[o]
    IN
    /\ o \in todo /\ ~up[o[2]]
    /\ todo' = todo \ {o}
    /\ fails' = [fails EXCEPT ![o] = n]
    /\ healthy' = [healthy EXCEPT ![o] = @ /\ ~out]
    /\ notes' = IF out THEN Append(notes, <<o[2], FALSE>>) ELSE notes
    /\ streak' = [streak EXCEPT ![o[2]] = IF @ < Threshold THEN @ + 1 ELSE @]
    /\ UNCHANGED <<up, epoch, registered, rtVars, checking, reloadVars, edit,
                   edits, disturbed>>

\* After the round onChange is called for each note: UpdateBackendHealth
\* writes the flag of the backends with that address in the current table.
Notify ==
    /\ checking /\ todo = {} /\ notes # <<>>
    /\ LET a == Head(notes)[1] IN
       routed' = IF a \in table THEN [routed EXCEPT ![a] = Head(notes)[2]]
                                ELSE routed
    /\ notes' = Tail(notes)
    /\ UNCHANGED <<up, hcVars, table, todo, checking, reloadVars, edit, edits,
                   streak, disturbed>>

EndRound ==
    /\ checking /\ todo = {} /\ notes = <<>>
    /\ checking' = FALSE
    /\ UNCHANGED <<up, hcVars, rtVars, todo, notes, reloadVars, edit, edits,
                   streak, disturbed>>

-----------------------------------------------------------------------------
(* Reloads                                                                 *)

\* SwapRoutes with a table from BuildRoutes: every backend starts healthy.
Install(T) ==
    /\ table' = T
    /\ routed' = AllHealthy(T)

\* The watcher's callback: rt.SwapRoutes(newRt) ...
ReloadSwap ==
    /\ reload = "idle" /\ epoch < MaxReloads
    /\ \E T \in Tables : Install(T) /\ pending' = T
    /\ reload' = "stop"
    /\ disturbed' = checking
    /\ UNCHANGED <<up, hcVars, checkVars, edit, edits, streak>>

\* ... hc.StopAll() ...
ReloadStopAll ==
    /\ reload = "stop"
    /\ epoch' = epoch + 1
    /\ registered' = {}
    /\ reload' = "register"
    /\ UNCHANGED <<up, healthy, fails, rtVars, checkVars, pending, edit, edits,
                   streak, disturbed>>

\* ... hc.Register(b.Address) for each backend.
ReloadRegister ==
    /\ reload = "register"
    /\ \/ \E a \in pending :
             /\ registered' = registered \cup {a}
             /\ pending' = pending \ {a}
             /\ UNCHANGED reload
       \/ /\ pending = {}
          /\ reload' = "idle"
          /\ UNCHANGED <<registered, pending, disturbed>>
    /\ UNCHANGED <<up, epoch, healthy, fails, rtVars, checkVars, edit, edits,
                   streak, disturbed>>

\* A new table is all healthy: it hides what the checker knows or is finding out.
Hides == checking \/ \E a \in registered : ~healthy[<<epoch, a>>]

\* The dashboard's create, update, delete, remove and config edit end in
\* reloadRouter; the health checker is not told.
EditSwap ==
    /\ edit = "none" /\ edits < MaxEdits
    /\ \E T \in Tables : Install(T)
    /\ edits' = edits + 1
    /\ disturbed' = (disturbed \/ Hides)
    /\ UNCHANGED <<up, hcVars, checkVars, reloadVars, edit, streak>>

\* addBackend: reloadRouter with one more backend ...
EditAddBackend ==
    /\ edit = "none" /\ edits < MaxEdits
    /\ \E a \in Addrs : Install(table \cup {a}) /\ edit' = a
    /\ edits' = edits + 1
    /\ disturbed' = (disturbed \/ Hides)
    /\ UNCHANGED <<up, hcVars, checkVars, reloadVars, streak>>

\* ... and s.hc.Register(bc.Address).
EditRegister ==
    /\ edit # "none"
    /\ registered' = registered \cup {edit}
    /\ edit' = "none"
    /\ UNCHANGED <<up, epoch, healthy, fails, rtVars, checkVars, reloadVars,
                   edits, streak, disturbed>>

-----------------------------------------------------------------------------
\* initHealthChecker registers every backend of the first table.
HealthInit ==
    /\ up \in [Addrs -> BOOLEAN]
    /\ epoch = 0
    /\ table \in Tables /\ registered = table /\ routed = AllHealthy(table)
    /\ healthy = [o \in Epochs \X Addrs |-> TRUE]
    /\ fails = [o \in Epochs \X Addrs |-> 0]
    /\ todo = {} /\ notes = <<>> /\ checking = FALSE
    /\ reload = "idle" /\ pending = {}
    /\ edit = "none" /\ edits = 0
    /\ streak = [a \in Addrs |-> 0]
    /\ disturbed = FALSE

CheckStep ==
    \/ StartRound \/ Notify \/ EndRound
    \/ \E o \in Epochs \X Addrs : CheckUp(o) \/ CheckDown(o)
ReloadStep == ReloadStopAll \/ ReloadRegister

HealthNext ==
    \/ \E a \in Addrs : Toggle(a)
    \/ CheckStep \/ ReloadSwap \/ ReloadStep
    \/ EditSwap \/ EditAddBackend \/ EditRegister

HealthSpec == HealthInit /\ [][HealthNext]_healthVars

\* The checker's ticker keeps firing, probes have a timeout, and a reload or
\* an edit that began goes on.
FairHealth ==
    /\ HealthSpec
    /\ WF_healthVars(CheckStep) /\ WF_healthVars(ReloadStep) /\ WF_healthVars(EditRegister)

-----------------------------------------------------------------------------
(* Properties                                                              *)

\* Between two rounds, and outside a reload, the router's flags are those of
\* the health checker, unless a reload met a round of checks, or an edit
\* installed its table over a backend that is down or being checked.
AgreeBetweenRounds ==
    ~checking /\ reload # "stop" /\ ~disturbed =>
        \A a \in registered \cap table : routed[a] = healthy[<<epoch, a>>]

\* A backend is taken out of rotation only after Threshold failed checks in a
\* row, however rounds, reloads and edits overlap.
OutAfterStreak ==
    [][\A a \in table \cap table' :
         routed[a] /\ ~routed'[a] => streak[a] = Threshold]_healthVars

\* With the same exception, a backend that stays up is in rotation from some
\* point on, while it is in the table and registered.
UpIsRouted ==
    \A a \in Addrs :
        <>[](up[a] /\ a \in table \cap registered /\ ~disturbed) => <>[]routed[a]

\* And one that stays down is out of rotation from some point on.
DownIsOut ==
    \A a \in Addrs :
        <>[](~up[a] /\ a \in table \cap registered /\ ~disturbed) => <>[](~routed[a])

\* The router's flags follow the health checker's, and both follow the backends
\* (checkAll and its onChange, UpdateBackendHealth, Register, SwapRoutes).
FlagsFollow == []AgreeBetweenRounds /\ UpIsRouted /\ DownIsOut
=============================================================================
