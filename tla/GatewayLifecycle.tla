--------------------------- MODULE GatewayLifecycle ---------------------------
(***************************************************************************)
(* The gateway's runtime and its module registry.  Every session (the      *)
(* server itself, and each stateless HTTP request's lifespan) starts the   *)
(* runtime and stops it again; the count of users decides who really       *)
(* starts the modules and who really stops them.  Tool calls go to the     *)
(* modules meanwhile, and an administrator may restart one.                *)
(*                                                                         *)
(* Coroutines change places at their awaits only, so an action is what     *)
(* runs between two of them.  A module is known by its start and stop      *)
(* alone (the shipped gateway registers none, its tests do): each succeeds,*)
(* or fails and leaves the module as it was.  The retries of a start only  *)
(* delay its outcome.  Who gets the lock next is left open.                *)
(***************************************************************************)
EXTENDS Integers, FiniteSets

CONSTANTS
    Sessions,    \* those who run between start() and stop()
    Modules,     \* the registered modules
    Rank,        \* their order: by priority, then by id
    Enabled,     \* those whose manifest is enabled
    Nobody,      \* no session, no module
    MaxLeaks     \* bound: cancellations that leave the count too high

\* What is assumed of the constants.
LifecycleConstants ==
    /\ IsFiniteSet(Sessions) /\ Enabled \subseteq Modules
    /\ Nobody \notin Sessions \cup Modules /\ MaxLeaks \in Nat

VARIABLES
    at,          \* where each session stands
    lock,        \* who holds _lifecycle_lock
    users,       \* _lifecycle_users
    ready,
    remaining,   \* the modules the registry's start or stop has still to do
    running,     \* the modules that have been started and not stopped
    loadErrors,  \* _load_errors
    calling,     \* the module each session's tool call is in
    restarting,  \* the module the registry's restart is at, under its own lock
    restartPc,   \* ... and how far it has come
    leaked,      \* history: cancellations that left the count too high
    astray       \* history: the modules a restart that is under way or failed,
                 \* or a stop that did not come through, may have left so that
                 \* the registry is wrong about them

Init ==
    /\ at = [s \in Sessions |-> "out"] /\ lock = Nobody
    /\ users = 0 /\ ready = FALSE /\ remaining = {}
    /\ running = {} /\ loadErrors = {}
    /\ calling = [s \in Sessions |-> Nobody]
    /\ restarting = Nobody /\ restartPc = "idle"
    /\ leaked = 0 /\ astray = {}

sessionVars == <<at, lock, users, ready, remaining, leaked>>
moduleVars == <<running, loadErrors, astray>>
restartVars == <<restarting, restartPc>>
vars == <<sessionVars, moduleVars, calling, restartVars>>

-----------------------------------------------------------------------------
(* start: only the first user starts anything.                             *)

Goes(s, place) == at' = [at EXCEPT ![s] = place]

AskStart(s) ==
    /\ at[s] = "out"
    /\ Goes(s, "toStart")
    /\ UNCHANGED <<lock, users, ready, remaining, leaked, moduleVars, calling, restartVars>>

Start(s) ==
    /\ at[s] = "toStart" /\ lock = Nobody
    /\ users' = users + 1
    /\ IF ready
       THEN Goes(s, "inside") /\ UNCHANGED lock
       ELSE Goes(s, "starting") /\ lock' = s
    /\ UNCHANGED <<ready, remaining, leaked, moduleVars, calling, restartVars>>

\* Variant of StartFails that does not take the count back.
StartFailsCounted(s) ==
    /\ at[s] = "starting"
    /\ Goes(s, "out") /\ lock' = Nobody
    /\ UNCHANGED <<users, ready, remaining, leaked, moduleVars, calling, restartVars>>

\* The database cannot be migrated or cleaned up: no session.
StartFails(s) ==
    /\ at[s] = "starting"
    /\ Goes(s, "out") /\ lock' = Nobody
    /\ users' = users - 1
    /\ UNCHANGED <<ready, remaining, leaked, moduleVars, calling, restartVars>>

Migrated(s) ==
    /\ at[s] = "starting"
    /\ Goes(s, "modules") /\ remaining' = Enabled
    /\ UNCHANGED <<lock, users, ready, leaked, moduleVars, calling, restartVars>>

\* registry.start: a module that fails to start is recorded and passed over;
\* one that starts keeps the load error it may have.
StartModule(s) ==
    /\ at[s] = "modules"
    /\ \E m \in remaining :
          /\ \A n \in remaining : Rank[m] <= Rank[n]
          /\ remaining' = remaining \ {m}
          /\ \/ running' = running \cup {m} /\ UNCHANGED loadErrors
             \/ loadErrors' = loadErrors \cup {m} /\ UNCHANGED running
          /\ astray' = IF m = restarting THEN astray ELSE astray \ {m}
    /\ UNCHANGED <<at, lock, users, ready, leaked, calling, restartVars>>

Started(s) ==
    /\ at[s] = "modules" /\ remaining = {}
    /\ ready' = TRUE /\ Goes(s, "inside") /\ lock' = Nobody
    /\ UNCHANGED <<users, remaining, leaked, moduleVars, calling, restartVars>>

-----------------------------------------------------------------------------
(* stop: only the last user stops anything.                                *)

AskStop(s) ==
    /\ at[s] = "inside" /\ calling[s] = Nobody
    /\ Goes(s, "toStop")
    /\ UNCHANGED <<lock, users, ready, remaining, leaked, moduleVars, calling, restartVars>>

\* Variant of Stop that does not look who else is there.
StopAnyway(s) ==
    /\ at[s] = "toStop" /\ lock = Nobody
    /\ users' = IF users > 0 THEN users - 1 ELSE users
    /\ IF ~ready
       THEN Goes(s, "out") /\ UNCHANGED <<lock, ready, remaining>>
       ELSE /\ Goes(s, "stopping") /\ lock' = s
            /\ ready' = FALSE /\ remaining' = Modules
    /\ UNCHANGED <<leaked, moduleVars, calling, restartVars>>

Stop(s) ==
    /\ at[s] = "toStop" /\ lock = Nobody
    /\ users' = IF users > 0 THEN users - 1 ELSE users
    /\ IF users' > 0 \/ ~ready
       THEN Goes(s, "out") /\ UNCHANGED <<lock, ready, remaining>>
       ELSE /\ Goes(s, "stopping") /\ lock' = s
            /\ ready' = FALSE /\ remaining' = Modules
    /\ UNCHANGED <<leaked, moduleVars, calling, restartVars>>

\* registry.stop, in the reverse order: a module that fails to stop, or takes
\* too long, is passed over.
StopModule(s) ==
    /\ at[s] = "stopping"
    /\ \E m \in remaining :
          /\ \A n \in remaining : Rank[m] >= Rank[n]
          /\ remaining' = remaining \ {m}
          /\ \/ running' = running \ {m} /\ UNCHANGED astray
             \/ astray' = astray \cup {m} /\ UNCHANGED running
    /\ UNCHANGED <<at, lock, users, ready, leaked, loadErrors, calling, restartVars>>

Stopped(s) ==
    /\ at[s] = "stopping" /\ remaining = {}
    /\ Goes(s, "out") /\ lock' = Nobody
    /\ UNCHANGED <<users, ready, remaining, leaked, moduleVars, calling, restartVars>>

\* The client goes away: a CancelledError, which "except Exception" does not
\* see.  The count keeps a start that is under way, or a stop that waits.
Cancel(s) ==
    /\ at[s] \in {"toStart", "starting", "modules", "toStop", "stopping"}
    /\ IF at[s] \in {"starting", "modules", "toStop"}
       THEN leaked < MaxLeaks /\ leaked' = leaked + 1
       ELSE UNCHANGED leaked
    /\ Goes(s, "out")
    /\ IF lock = s THEN lock' = Nobody /\ remaining' = {}
                   ELSE UNCHANGED <<lock, remaining>>
    /\ astray' = IF lock = s THEN astray \cup remaining ELSE astray
    /\ UNCHANGED <<users, ready, running, loadErrors, calling, restartVars>>

-----------------------------------------------------------------------------
(* Tool calls.                                                             *)

\* invoke: any other call is refused, and changes nothing here.
Invoke(s, m) ==
    /\ at[s] = "inside" /\ calling[s] = Nobody
    /\ m \in Enabled \ loadErrors
    /\ calling' = [calling EXCEPT ![s] = m]
    /\ UNCHANGED <<sessionVars, moduleVars, restartVars>>

\* The handler answers, fails, or exceeds its time.
CallEnds(s) ==
    /\ calling[s] # Nobody
    /\ calling' = [calling EXCEPT ![s] = Nobody]
    /\ UNCHANGED <<sessionVars, moduleVars, restartVars>>

-----------------------------------------------------------------------------
(* restart_module of the admin routes and the registry's restart, under the*)
(* registry's own lock, which start and stop do not take.                  *)

Restart(m) ==
    /\ restarting = Nobody /\ m \in Enabled
    /\ restarting' = m /\ restartPc' = "stop"
    /\ astray' = astray \cup {m}
    /\ UNCHANGED <<sessionVars, running, loadErrors, calling>>

\* The module is stopped, or the restart is over.
RestartStops ==
    /\ restartPc = "stop"
    /\ \/ restartPc' = "start" /\ running' = running \ {restarting}
          /\ UNCHANGED restarting
       \/ restartPc' = "idle" /\ restarting' = Nobody /\ UNCHANGED running
    /\ UNCHANGED <<sessionVars, loadErrors, astray, calling>>

\* The one place that takes a load error back.
RestartStarts ==
    /\ restartPc = "start"
    /\ restartPc' = "idle" /\ restarting' = Nobody
    /\ running' = running \cup {restarting}
    /\ loadErrors' = loadErrors \ {restarting}
    /\ astray' = IF ready THEN astray \ {restarting} ELSE astray
    /\ UNCHANGED <<sessionVars, calling>>

\* A start that fails raises, and records nothing.
RestartFails ==
    /\ restartPc = "start"
    /\ restartPc' = "idle" /\ restarting' = Nobody
    /\ UNCHANGED <<sessionVars, moduleVars, calling>>

Next ==
    \/ \E s \in Sessions :
          \/ AskStart(s) \/ Start(s) \/ StartFails(s) \/ Migrated(s)
          \/ StartModule(s) \/ Started(s) \/ AskStop(s) \/ Stop(s)
          \/ StopModule(s) \/ Stopped(s) \/ Cancel(s) \/ CallEnds(s)
          \/ \E m \in Modules : Invoke(s, m)
    \/ \E m \in Modules : Restart(m)
    \/ RestartStops \/ RestartStarts \/ RestartFails

Spec == Init /\ [][Next]_vars

-----------------------------------------------------------------------------
(* Properties.                                                             *)

Stations == {"out", "toStart", "starting", "modules", "inside", "toStop", "stopping"}
Counted == {s \in Sessions : at[s] \in {"starting", "modules", "inside", "toStop"}}

\* Types; the lock is held by whoever starts or stops the modules, and the
\* count is that of the sessions that will still stop, and of the leaks.
TypeOK ==
    /\ at \in [Sessions -> Stations] /\ lock \in Sessions \cup {Nobody}
    /\ \A s \in Sessions : lock = s <=> at[s] \in {"starting", "modules", "stopping"}
    /\ users = Cardinality(Counted) + leaked
    /\ ready \in BOOLEAN /\ leaked \in 0 .. MaxLeaks
    /\ UNION {remaining, running, loadErrors, astray} \subseteq Modules
    /\ calling \in [Sessions -> Enabled \cup {Nobody}]
    /\ \A s \in Sessions : calling[s] # Nobody => at[s] = "inside"
    /\ restarting \in Enabled \cup {Nobody} /\ restartPc \in {"idle", "stop", "start"}
    /\ restartPc = "idle" <=> restarting = Nobody

\* A tool call only ever is in a module that has been started and not stopped
\* since, however sessions come and go, are cancelled, or find modules broken:
\* no session's stop takes the modules away from another that is inside, and a
\* module that did not start is refused.  A restart that is under way, or that
\* failed, may have stopped the module under a call.
CallsReachStarted ==
    \A s \in Sessions : calling[s] \in running \cup astray \cup {Nobody}

\* When the last session is gone, and none was cancelled, the runtime is not
\* ready and no module is left running, but for those that would not stop and
\* those a restart started after that (it does not wait for a stop).
LastOneStops ==
    (\A s \in Sessions : at[s] = "out") /\ leaked = 0 =>
        ~ready /\ users = 0 /\ running \subseteq astray
=============================================================================
