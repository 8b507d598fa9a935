----------------------------- MODULE FleetUpdate -----------------------------
(***************************************************************************)
(* Update-PoyiFleet.ps1 beside the watchdog: an administrator's script     *)
(* raises maintenance.flag, builds a wheel, stops the tunnel and the       *)
(* gateway, installs the wheel into the gateway's own Python, starts both  *)
(* again, restarts the watchdog and removes the flag.  The watchdog looks  *)
(* at the flag when an iteration begins and never again within the pass.   *)
(*                                                                         *)
(* The watchdog's pass, its budget and its file are those of FleetWatchdog *)
(* ("mcp" is PoyiPersonalMcpGateway, "tunnel" OpenAISecureMcpTunnel, which *)
(* the SCM starts only after the gateway).  The SCM is a third actor: of a *)
(* service that failed it makes up to three restarts, five seconds,        *)
(* fifteen and a minute later, which neither a stop nor the flag calls     *)
(* off; when one is due is left open.                                      *)
(***************************************************************************)
EXTENDS Integers, FiniteSets, Sequences

CONSTANTS
    McpFailThreshold, TunnelFailThreshold, Cooldown, Hour,
    MaxRestartsPerHour, Backoff, UtcOffset, MaxCrashes,   \* of FleetWatchdog
    MaxUpdates             \* bound: how often the script is run

VARIABLES
    svc, grace, pc, forced, inGrace, mcpHealthy, known, fails, attempts,
    backoff, persisted, restarts, crashes,                \* of FleetWatchdog
    flag,        \* maintenance.flag exists
    upc,         \* where the script stands, or how its last run ended
    wheel,       \* what the gateway's Python holds: the old code, new files
                 \* among old ones, or the new code
    loaded,      \* what it held when the gateway last started
    alive,       \* the watchdog's service is running
    disturbed,   \* history: a pass was under way when the flag was raised, or
                 \* the SCM has started the gateway among half-copied files
    updates      \* how often the script has been run

W == INSTANCE FleetWatchdog

\* Each run stops the watchdog at most once; it does not crash on its own.
ASSUME UpdateConstants ==
    W!WatchdogConstants /\ MaxUpdates \in Nat /\ MaxCrashes = MaxUpdates

watchdogVars == <<grace, pc, forced, inGrace, mcpHealthy, known, fails,
                  attempts, backoff, persisted, restarts, crashes>>
scriptVars == <<flag, upc, wheel, alive, updates>>
vars == <<svc, watchdogVars, scriptVars, disturbed, loaded>>

Init ==
    /\ W!Init
    /\ flag = FALSE /\ upc = "idle" /\ wheel = "old" /\ loaded = "old"
    /\ alive = TRUE /\ disturbed = FALSE /\ updates = 0

-----------------------------------------------------------------------------
(* Services, time and the watchdog.                                        *)

Starts(s) == svc[s] = "Stopped" /\ svc'[s] # "Stopped"

\* The gateway's process loads what its Python holds as it starts, and the
\* SCM never starts the tunnel without the gateway.
Loading ==
    /\ loaded' = IF Starts("mcp") THEN wheel ELSE loaded
    /\ Starts("tunnel") => svc'["mcp"] # "Stopped"

\* A service dies, hangs, answers again, or is brought back by the SCM's
\* recovery actions, whoever has stopped it meanwhile.
ServiceChanges(s) ==
    /\ W!ServiceChanges(s) /\ svc' # svc
    /\ Loading
    /\ disturbed' = (disturbed \/ (upc = "installing" /\ Starts("mcp")))
    /\ UNCHANGED scriptVars

Tick == W!Tick /\ UNCHANGED <<scriptVars, disturbed, loaded>>

\* Variant of WatchdogStep that ignores the flag.
WatchdogStepUnpaused ==
    /\ alive
    /\ W!PassStep
    /\ Loading
    /\ UNCHANGED <<scriptVars, disturbed>>

\* The main loop begins a pass, forced or not, only without the flag.
WatchdogStep ==
    /\ alive
    /\ pc = "sleep" => ~flag
    /\ W!PassStep
    /\ Loading
    /\ UNCHANGED <<scriptVars, disturbed>>

-----------------------------------------------------------------------------
(* The script.                                                             *)

Ended == {"idle", "finished", "failed", "killed"}

\* A step of the script that leaves the watchdog alone.
Step(from, to) ==
    /\ upc = from
    /\ upc' = to
    /\ UNCHANGED <<watchdogVars, disturbed, updates, alive>>

\* Variant of BeginUpdate that does not raise the flag.
BeginUpdateUnflagged ==
    /\ upc \in Ended
    /\ updates < MaxUpdates
    /\ updates' = updates + 1
    /\ upc' = "building"
    /\ disturbed' = (alive /\ pc # "sleep")
    /\ UNCHANGED <<svc, watchdogVars, flag, wheel, alive, loaded>>

\* The flag goes up before anything else.
BeginUpdate ==
    /\ upc \in Ended
    /\ updates < MaxUpdates
    /\ updates' = updates + 1
    /\ flag' = TRUE
    /\ upc' = "building"
    /\ disturbed' = (alive /\ pc # "sleep")
    /\ UNCHANGED <<svc, watchdogVars, wheel, alive, loaded>>

Build ==
    /\ Step("building", "stopping tunnel")
    /\ UNCHANGED <<svc, flag, wheel, loaded>>

\* sc.exe stop and the wait, which throws when the service does not stop.
StopTunnel ==
    /\ upc = "stopping tunnel"
    /\ W!Stopping("tunnel")
    /\ Step("stopping tunnel",
            IF svc'["tunnel"] = "Stopped" THEN "stopping gateway" ELSE "failing")
    /\ UNCHANGED <<flag, wheel, loaded>>

\* The SCM refuses while the tunnel, which depends on it, is not stopped.  The
\* installation begins as soon as the gateway was seen stopped.
StopGateway ==
    /\ upc = "stopping gateway"
    /\ IF svc["tunnel"] = "Stopped" /\ svc["mcp"] # "Stopped"
       THEN W!Stopping("mcp") ELSE UNCHANGED svc
    /\ IF svc'["mcp"] = "Stopped"
       THEN Step("stopping gateway", "installing") /\ wheel' = "mixed"
       ELSE Step("stopping gateway", "failing") /\ UNCHANGED wheel
    /\ UNCHANGED <<flag, loaded>>

\* uv pip install has moved the last file; then the ACLs and the contract.
FinishInstall ==
    /\ Step("installing", "starting gateway")
    /\ wheel' = "new"
    /\ UNCHANGED <<svc, flag, loaded>>

\* sc.exe start, whose exit code is not looked at, and the two waits.
StartGateway ==
    /\ upc = "starting gateway"
    /\ W!Starting("mcp")
    /\ Step("starting gateway",
            IF svc'["mcp"] = "Healthy" THEN "starting tunnel" ELSE "failing")
    /\ Loading
    /\ UNCHANGED <<flag, wheel>>

StartTunnel ==
    /\ upc = "starting tunnel"
    /\ W!Starting("tunnel")
    /\ Step("starting tunnel",
            IF svc'["tunnel"] = "Healthy" THEN "stopping watchdog" ELSE "failing")
    /\ Loading
    /\ UNCHANGED <<flag, wheel>>

\* The new watchdog is copied and its service stopped wherever its pass stands
\* (WinSW kills it after fifteen seconds); it comes back as after a crash.
StopWatchdog ==
    /\ upc = "stopping watchdog"
    /\ W!CrashAndRestart
    /\ upc' = "starting watchdog"
    /\ alive' = FALSE
    /\ UNCHANGED <<flag, wheel, disturbed, updates, loaded>>

\* sc.exe config, sc.exe start and the wait; each of them may throw.
StartWatchdog ==
    /\ upc = "starting watchdog"
    /\ \/ alive' = TRUE /\ upc' = "finishing"
       \/ UNCHANGED alive /\ upc' = "failing"
    /\ UNCHANGED <<svc, watchdogVars, flag, wheel, disturbed, updates, loaded>>

\* uv, icacls, a hash that differs, an endpoint that does not answer.
StepThrows ==
    /\ upc \in {"building", "installing", "starting gateway",
                "starting tunnel", "stopping watchdog"}
    /\ Step(upc, "failing")
    /\ UNCHANGED <<svc, flag, wheel, loaded>>

\* Variant of Finally: only a successful update removes the flag.
FinallyOnSuccess ==
    /\ \/ Step("finishing", "finished") /\ flag' = FALSE
       \/ Step("failing", "failed") /\ UNCHANGED flag
    /\ UNCHANGED <<svc, wheel, loaded>>

Finally ==
    /\ Step("finishing", "finished") \/ Step("failing", "failed")
    /\ flag' = FALSE
    /\ UNCHANGED <<svc, wheel, loaded>>

\* The console is closed or the host goes down: finally does not run.
Kill ==
    /\ upc \notin Ended
    /\ Step(upc, "killed")
    /\ UNCHANGED <<svc, flag, wheel, loaded>>

ScriptStep ==
    \/ Build \/ StopTunnel \/ StopGateway \/ FinishInstall \/ StartGateway
    \/ StartTunnel \/ StopWatchdog \/ StartWatchdog \/ StepThrows \/ Finally

Next ==
    \/ Tick \/ WatchdogStep \/ BeginUpdate \/ ScriptStep \/ Kill
    \/ \E s \in W!Services : ServiceChanges(s)

\* Every wait of the script and of the watchdog has a timeout, and each step
\* of either ends at another place; nothing is assumed of the SCM.
Spec ==
    /\ Init /\ [][Next]_vars
    /\ WF_pc(WatchdogStep) /\ WF_upc(ScriptStep) /\ WF_vars(Tick)

-----------------------------------------------------------------------------
(* Properties.                                                             *)

Holds == {"old", "mixed", "new"}
Stages == {"building", "stopping tunnel", "stopping gateway", "installing",
           "starting gateway", "starting tunnel", "stopping watchdog",
           "starting watchdog", "finishing", "failing"}

\* Types, and the flag is there for as long as the script runs.
TypeOK ==
    /\ W!TypeOK
    /\ upc \in Stages \cup Ended
    /\ {wheel, loaded} \subseteq Holds
    /\ {flag, alive, disturbed} \subseteq BOOLEAN
    /\ updates \in 0 .. MaxUpdates
    /\ upc \in Stages => flag

\* When no pass was under way as the flag went up, nobody but the SCM starts
\* the gateway while its files are being replaced, whatever fails, dies or
\* hangs, and whatever the SCM restarts before and after; and if the SCM did
\* not, an update that finished leaves a gateway that has loaded the new code
\* and nothing else.
QuietUpdateIsClean ==
    ~disturbed =>
        /\ upc = "installing" => svc["mcp"] = "Stopped"
        /\ upc \in {"finishing", "finished"} => loaded = "new"

\* "Pause the watchdog while services are intentionally down, or it will race
\* the wheel installation by restarting the gateway mid-copy."
NotStartedMidCopy ==
    [][WatchdogStep /\ upc = "installing" => ~Starts("mcp")]_vars

\* A gateway that the script or the watchdog left stopped, wherever either of
\* them was interrupted, is started again in the end, unless a killed run left
\* the flag behind or the watchdog's service could not be started.
GatewayComesBack ==
    svc["mcp"] = "Stopped" ~>
        \/ svc["mcp"] # "Stopped"
        \/ W!JustRestarted("mcp")
        \/ flag /\ upc = "killed"
        \/ ~alive
=============================================================================
