---------------------------- MODULE FleetWatchdog ----------------------------
(***************************************************************************)
(* The passes of the fleet watchdog over one project: an MCP service and   *)
(* the tunnel service that exposes it.  A pass reads the state of each     *)
(* service, probes it, counts failures and starts or restarts it within a  *)
(* budget (a cooldown, an hourly cap and a backoff); meanwhile the         *)
(* services stop, come back and change their health as they like, and the  *)
(* watchdog's own process may die and be started again by WinSW, keeping   *)
(* only restart-state.json.                                                *)
(*                                                                         *)
(* Projects share nothing but the file, so one is modelled.  An instant is *)
(* represented by its age in Ticks; a restart is forgotten by everyone     *)
(* once it is older than an hour.  $TargetState.LastRestart is the newest  *)
(* of Attempts for as long as the cooldown lasts, which is less than an    *)
(* hour, so it is not a variable of its own.  When a forced pass runs is   *)
(* the subject of FleetRepair; here any pass may be forced.                *)
(***************************************************************************)
EXTENDS Integers, FiniteSets

CONSTANTS
    McpFailThreshold,      \* consecutive failed probes before a restart
    TunnelFailThreshold,
    Cooldown,              \* restartCooldownSeconds (10 min)
    Hour,                  \* the window of the hourly cap
    MaxRestartsPerHour,    \* maxRestartsPerHour
    Backoff,               \* backoffSeconds (30 min)
    UtcOffset,             \* local time minus UTC of the host
    MaxCrashes             \* bound: how often the watchdog's process dies

ASSUME WatchdogConstants ==
    /\ {McpFailThreshold, TunnelFailThreshold, Cooldown, Hour,
        MaxRestartsPerHour} \subseteq Nat \ {0}
    /\ Backoff \in Nat /\ MaxCrashes \in Nat /\ UtcOffset \in Int
    /\ Cooldown <= Hour

Services == {"mcp", "tunnel"}
Threshold(s) == IF s = "mcp" THEN McpFailThreshold ELSE TunnelFailThreshold

\* "Pending" is any state of a service that is neither Stopped nor Running;
\* a Running service answers its probe ("Healthy") or does not ("Sick").
ServiceStates == {"Stopped", "Pending", "Healthy", "Sick"}
Running(state) == state \in {"Healthy", "Sick"}

VARIABLES
    svc,         \* state of each service
    grace,       \* the host was booted less than bootGraceSeconds ago
    pc,          \* where the watchdog stands in its pass
    forced,      \* $Forced of the pass
    inGrace,     \* $InBootGrace of the pass
    mcpHealthy,  \* $mcpHealthy of the pass
    known,       \* keys of $script:State
    fails,       \* Fails per service, up to its threshold
    attempts,    \* ages of Attempts (before a key is known: as loaded)
    backoff,     \* Ticks until BackoffUntil
    persisted,   \* ages in restart-state.json
    restarts,    \* history: how many restarts of each age were charged
    crashes      \* how often the watchdog's process has died

passVars == <<forced, inGrace, mcpHealthy>>
memVars == <<known, fails, attempts, backoff>>
budgetVars == <<memVars, persisted, restarts>>
vars == <<svc, grace, pc, passVars, budgetVars, crashes>>

Init ==
    /\ svc \in [Services -> {"Stopped", "Healthy"}]
    /\ grace = TRUE
    /\ pc = "sleep"
    /\ forced = FALSE /\ inGrace = FALSE /\ mcpHealthy = FALSE
    /\ known = {}
    /\ fails = [s \in Services |-> 0]
    /\ attempts = [s \in Services |-> {}]
    /\ backoff = [s \in Services |-> 0]
    /\ persisted = [s \in Services |-> {}]
    /\ restarts = [s \in Services |-> [age \in 0 .. Hour |-> 0]]
    /\ crashes = 0

-----------------------------------------------------------------------------
(* Time and the services.                                                  *)

\* Variant of Aged that never drops an old attempt.
AgedUnpruned(ages) == {a + 1 : a \in ages}

Aged(ages) == {a + 1 : a \in ages} \cap 0 .. Hour

\* ... and of their number at each age.
AgedCounts(counts) ==
    [age \in 0 .. Hour |-> IF age = 0 THEN 0 ELSE counts[age - 1]]

Tick ==
    /\ attempts' = [s \in Services |-> Aged(attempts[s])]
    /\ persisted' = [s \in Services |-> Aged(persisted[s])]
    /\ restarts' = [s \in Services |-> AgedCounts(restarts[s])]
    /\ backoff' = [s \in Services |-> IF backoff[s] = 0 THEN 0 ELSE backoff[s] - 1]
    /\ grace' = FALSE
    /\ UNCHANGED <<svc, pc, passVars, known, fails, crashes>>

\* A service dies, is brought back by the SCM, hangs or recovers.
ServiceChanges(s) ==
    /\ svc' = [svc EXCEPT ![s] = "Stopped"]
       \/ svc' = [svc EXCEPT ![s] = "Pending"]
       \/ svc' = [svc EXCEPT ![s] = "Healthy"]
       \/ svc' = [svc EXCEPT ![s] = "Sick"]
    /\ UNCHANGED <<grace, pc, passVars, budgetVars, crashes>>

-----------------------------------------------------------------------------
(* The restart budget.                                                     *)

Spent(s) == Cardinality(attempts[s]) >= MaxRestartsPerHour

\* Variant of Allowed without the hourly cap.
AllowedIgnoringCap(s) ==
    /\ backoff[s] = 0
    /\ \A a \in attempts[s] : a >= Cooldown

\* Test-RestartAllowed
Allowed(s) ==
    /\ backoff[s] = 0
    /\ \A a \in attempts[s] : a >= Cooldown
    /\ ~Spent(s)

\* Variant of Refuse: a refused restart is counted as well.
RefuseCounting(s) ==
    /\ ~Allowed(s)
    /\ attempts' = [attempts EXCEPT ![s] = @ \cup {0}]
    /\ backoff' = [backoff EXCEPT ![s] =
                      IF @ = 0 /\ (\A a \in attempts[s] : a >= Cooldown)
                      THEN Backoff ELSE @]
    /\ UNCHANGED <<persisted, restarts>>

\* Test-RestartAllowed refuses, and backs off when the hour's budget is spent.
Refuse(s) ==
    /\ ~Allowed(s)
    /\ backoff' = [backoff EXCEPT ![s] =
                      IF @ = 0 /\ (\A a \in attempts[s] : a >= Cooldown)
                      THEN Backoff ELSE @]
    /\ UNCHANGED <<attempts, persisted, restarts>>

\* Variant of Charge that forgets to save.
ChargeUnsaved(s) ==
    /\ Allowed(s)
    /\ attempts' = [attempts EXCEPT ![s] = @ \cup {0}]
    /\ restarts' = [restarts EXCEPT ![s][0] = @ + 1]
    /\ UNCHANGED <<backoff, persisted>>

\* Test-RestartAllowed, then Register-Restart and Save-RestartState: only the
\* services that are keys of State reach the file.
Charge(s) ==
    /\ Allowed(s)
    /\ attempts' = [attempts EXCEPT ![s] = @ \cup {0}]
    /\ persisted' = [t \in Services |->
                        IF t \in known \cup {s} THEN attempts'[t] ELSE {}]
    /\ restarts' = [restarts EXCEPT ![s][0] = @ + 1]
    /\ UNCHANGED backoff

\* Load-RestartState: the saved instants are UTC but are compared with local
\* time, so each looks UtcOffset older than it is.
Loaded(ages) == {a + UtcOffset : a \in ages} \cap 0 .. Hour

-----------------------------------------------------------------------------
(* Invoke-FleetPass.                                                       *)

Goto(stage) == pc' = stage /\ UNCHANGED <<grace, crashes>>

BeginPass ==
    /\ pc = "sleep"
    /\ forced' \in BOOLEAN
    /\ inGrace' = (grace /\ ~forced')
    /\ mcpHealthy' = FALSE
    /\ Goto("mcp")
    /\ UNCHANGED <<svc, budgetVars>>

\* Get-ServiceState and Get-TargetState of the MCP service.
LookAtMcp ==
    /\ pc = "mcp"
    /\ known' = known \cup {"mcp"}
    /\ \/ /\ svc["mcp"] = "Stopped"
          /\ \/ Refuse("mcp") /\ Goto("tunnel") /\ UNCHANGED fails
             \/ /\ Charge("mcp") /\ Goto("start mcp")
                /\ fails' = [fails EXCEPT !["mcp"] = 0]
       \/ /\ svc["mcp"] # "Stopped"
          /\ Goto(IF Running(svc["mcp"]) THEN "probe mcp" ELSE "tunnel")
          /\ UNCHANGED <<fails, attempts, backoff, persisted, restarts>>
    /\ UNCHANGED <<svc, passVars>>

Failed(s) == IF fails[s] = Threshold(s) THEN fails[s] ELSE fails[s] + 1

\* A failed probe that calls for a restart, if the budget allows one.
Due(s) == ~inGrace /\ (forced \/ Failed(s) = Threshold(s))

\* A failed probe of s: count it, and restart s if that is due and allowed.
ProbeFails(s, restart, otherwise) ==
    \/ /\ Due(s) /\ Charge(s)
       /\ fails' = [fails EXCEPT ![s] = 0]
       /\ Goto(restart)
    \/ /\ \/ Due(s) /\ Refuse(s)
          \/ ~Due(s) /\ UNCHANGED <<attempts, backoff, persisted, restarts>>
       /\ fails' = [fails EXCEPT ![s] = Failed(s)]
       /\ Goto(otherwise)

ProbeMcp ==
    /\ pc = "probe mcp"
    /\ mcpHealthy' = (svc["mcp"] = "Healthy")
    /\ IF mcpHealthy'
       THEN /\ fails' = [fails EXCEPT !["mcp"] = 0]
            /\ Goto("tunnel")
            /\ UNCHANGED <<attempts, backoff, persisted, restarts>>
       ELSE ProbeFails("mcp", "stop pair", "tunnel")
    /\ UNCHANGED <<svc, forced, inGrace, known>>

\* sc.exe stop and the wait: the service stops, hangs, or goes on running.
Stopping(s) ==
    \/ svc' = [svc EXCEPT ![s] = "Stopped"]
    \/ Running(svc[s]) /\ svc' = [svc EXCEPT ![s] = "Pending"]
    \/ svc[s] # "Stopped" /\ UNCHANGED svc

\* Start-FleetService: refused when the ACLs cannot be verified, else
\* sc.exe start and the wait.  Only a stopped service can be started, and the
\* SCM starts the MCP service a tunnel depends on first.
Starting(s) ==
    LET Started == {"Healthy", "Sick", "Pending"}
    IN  \/ UNCHANGED svc
        \/ /\ svc[s] = "Stopped"
           /\ \E outcome \in Started : svc' = [svc EXCEPT ![s] = outcome]
        \/ /\ s = "tunnel" /\ svc["tunnel"] = "Stopped" /\ svc["mcp"] = "Stopped"
           /\ \E mcp \in Started, tunnel \in Started \cup {"Stopped"} :
                 svc' = [svc EXCEPT !["mcp"] = mcp, !["tunnel"] = tunnel]

StartMcp ==
    /\ pc = "start mcp" /\ Starting("mcp") /\ Goto("tunnel")
    /\ UNCHANGED <<passVars, budgetVars>>

\* Restart-McpService: the tunnel is stopped first and started last, outside
\* its own budget, and stays stopped when the MCP service does not stop.
StopPairTunnel ==
    /\ pc = "stop pair"
    /\ IF Running(svc["tunnel"]) THEN Stopping("tunnel") ELSE UNCHANGED svc
    /\ Goto("stop mcp")
    /\ UNCHANGED <<passVars, budgetVars>>

StopMcp ==
    /\ pc = "stop mcp" /\ Stopping("mcp")
    /\ Goto(IF svc'["mcp"] = "Stopped" THEN "restart mcp" ELSE "probe again")
    /\ UNCHANGED <<passVars, budgetVars>>

RestartMcp ==
    /\ pc = "restart mcp" /\ Starting("mcp") /\ Goto("restart tunnel")
    /\ UNCHANGED <<passVars, budgetVars>>

RestartTunnel ==
    /\ pc = "restart tunnel" /\ Starting("tunnel") /\ Goto("probe again")
    /\ UNCHANGED <<passVars, budgetVars>>

ProbeMcpAgain ==
    /\ pc = "probe again"
    /\ mcpHealthy' = (svc["mcp"] = "Healthy")
    /\ Goto("tunnel")
    /\ UNCHANGED <<svc, forced, inGrace, budgetVars>>

\* Variant of LookAtTunnel: a tunnel that is down is left to its SCM actions.
LookAtTunnelRunningOnly ==
    /\ pc = "tunnel"
    /\ known' = known \cup {"tunnel"}
    /\ Goto(IF Running(svc["tunnel"]) /\ mcpHealthy THEN "probe tunnel" ELSE "sleep")
    /\ UNCHANGED <<svc, passVars, fails, attempts, backoff, persisted, restarts>>

\* Get-ServiceState and Get-TargetState of the tunnel; a tunnel whose MCP
\* service is down is not probed.
LookAtTunnel ==
    /\ pc = "tunnel"
    /\ known' = known \cup {"tunnel"}
    /\ \/ /\ svc["tunnel"] = "Stopped"
          /\ \/ Refuse("tunnel") /\ Goto("sleep") /\ UNCHANGED fails
             \/ /\ Charge("tunnel") /\ Goto("start tunnel")
                /\ fails' = [fails EXCEPT !["tunnel"] = 0]
       \/ /\ svc["tunnel"] # "Stopped"
          /\ fails' = [fails EXCEPT !["tunnel"] =
                          IF Running(svc["tunnel"]) /\ ~mcpHealthy THEN 0 ELSE @]
          /\ Goto(IF Running(svc["tunnel"]) /\ mcpHealthy
                  THEN "probe tunnel" ELSE "sleep")
          /\ UNCHANGED <<attempts, backoff, persisted, restarts>>
    /\ UNCHANGED <<svc, passVars>>

ProbeTunnel ==
    /\ pc = "probe tunnel"
    /\ IF svc["tunnel"] = "Healthy"
       THEN /\ fails' = [fails EXCEPT !["tunnel"] = 0]
            /\ Goto("sleep")
            /\ UNCHANGED <<attempts, backoff, persisted, restarts>>
       ELSE ProbeFails("tunnel", "stop tunnel", "sleep")
    /\ UNCHANGED <<svc, passVars, known>>

\* Restart-TunnelService
StopTunnel ==
    /\ pc = "stop tunnel" /\ Stopping("tunnel")
    /\ Goto(IF svc'["tunnel"] = "Stopped" THEN "start tunnel" ELSE "sleep")
    /\ UNCHANGED <<passVars, budgetVars>>

StartTunnel ==
    /\ pc = "start tunnel" /\ Starting("tunnel") /\ Goto("sleep")
    /\ UNCHANGED <<passVars, budgetVars>>

\* The watchdog's process dies; WinSW starts it again and it loads the file.
CrashAndRestart ==
    /\ crashes < MaxCrashes
    /\ crashes' = crashes + 1
    /\ pc' = "sleep"
    /\ forced' = FALSE /\ inGrace' = FALSE /\ mcpHealthy' = FALSE
    /\ known' = {}
    /\ fails' = [s \in Services |-> 0]
    /\ attempts' = [s \in Services |-> Loaded(persisted[s])]
    /\ backoff' = [s \in Services |-> 0]
    /\ UNCHANGED <<svc, grace, persisted, restarts>>

PassStep ==
    \/ BeginPass \/ LookAtMcp \/ ProbeMcp \/ StartMcp
    \/ StopPairTunnel \/ StopMcp \/ RestartMcp \/ RestartTunnel \/ ProbeMcpAgain
    \/ LookAtTunnel \/ ProbeTunnel \/ StopTunnel \/ StartTunnel

Next ==
    \/ Tick \/ PassStep \/ CrashAndRestart
    \/ \E s \in Services : ServiceChanges(s)

\* The watchdog's thread goes on (every wait in it has a timeout) and so does
\* time; nothing is assumed of the services.
Spec == Init /\ [][Next]_vars /\ WF_vars(PassStep) /\ WF_vars(Tick)

-----------------------------------------------------------------------------
(* Properties.                                                             *)

Stages == {"sleep", "mcp", "start mcp", "probe mcp", "stop pair", "stop mcp",
           "restart mcp", "restart tunnel", "probe again", "tunnel",
           "probe tunnel", "stop tunnel", "start tunnel"}

\* Types; the failure count of a service stays below the threshold unless
\* its restart is being refused.
TypeOK ==
    /\ svc \in [Services -> ServiceStates]
    /\ pc \in Stages
    /\ {grace, forced, inGrace, mcpHealthy} \subseteq BOOLEAN
    /\ known \subseteq Services
    /\ fails \in [Services -> Nat]
    /\ \A s \in Services : fails[s] <= Threshold(s)
    /\ {attempts, persisted} \subseteq [Services -> SUBSET (0 .. Hour)]
    /\ restarts \in [Services -> [0 .. Hour -> Nat]]
    /\ backoff \in [Services -> 0 .. Backoff]
    /\ crashes \in 0 .. MaxCrashes

\* The restarts of s within the last hour: of each age the first, the second...
Charged(s) ==
    UNION {[age : {age}, nth : 1 .. restarts[s][age]] : age \in 0 .. Hour}

\* However passes, service failures and one crash of the watchdog interleave,
\* no service is restarted more often than the hourly cap.
HourlyCap ==
    \A s \in Services : Cardinality(Charged(s)) <= MaxRestartsPerHour

\* ... nor twice within the cooldown ("10 minutes per restart").
CooldownKept ==
    \A s \in Services : \A r, q \in Charged(s) :
        r.age - q.age \in -(Cooldown - 1) .. Cooldown - 1 => r = q

\* A charged restart of s is no older than this Tick.
JustRestarted(s) == restarts[s][0] > 0

\* A stopped service does not stay stopped without the watchdog trying to
\* start it, for either service, through cooldown, cap and backoff.
StoppedIsStarted ==
    \A s \in Services :
        svc[s] = "Stopped" ~> (svc[s] # "Stopped" \/ JustRestarted(s))

\* A service that hangs (running, but its probe fails) is restarted in the end.
SickMcpIsRestarted ==
    svc["mcp"] = "Sick" ~> (svc["mcp"] # "Sick" \/ JustRestarted("mcp"))
=============================================================================
