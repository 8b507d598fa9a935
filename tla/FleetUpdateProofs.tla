--------------------------- MODULE FleetUpdateProofs ---------------------------
(* Proofs about FleetUpdate, for any thresholds, budgets and number of     *)
(* updates: an update that began between two passes of the watchdog is     *)
(* never joined by one, whoever fails, hangs, dies or is brought back by   *)
(* the SCM; and the types of the script and the watchdog together, whose   *)
(* budget outlives one update.                                             *)
EXTENDS FleetUpdate, TLAPS

\* While the script runs the flag is up; if no pass was under way when it went
\* up, none is now, nor while the watchdog's service is down.
Paused ==
    /\ upc \in Stages => flag
    /\ ~alive => pc = "sleep"
    /\ ~disturbed /\ upc \in Stages => pc = "sleep"

\* Then, unless the SCM starts it, the gateway is stopped for as long as its
\* files are being replaced; when they are, whoever starts it loads new code.
Clean ==
    ~disturbed =>
        /\ upc = "installing" => svc["mcp"] = "Stopped"
        /\ upc = "starting gateway" => svc["mcp"] = "Stopped" \/ loaded = "new"
        /\ upc \in {"starting gateway", "starting tunnel", "stopping watchdog",
                    "starting watchdog", "finishing", "finished"} => wheel = "new"
        /\ upc \in {"starting tunnel", "stopping watchdog", "starting watchdog",
                    "finishing", "finished"} => loaded = "new"

UInv ==
    /\ svc \in [W!Services -> W!ServiceStates]
    /\ upc \in Stages \cup Ended
    /\ {alive, flag, disturbed} \subseteq BOOLEAN
    /\ Paused /\ Clean

\* A step of the watchdog changes no more than the states of the services,
\* which stay states; so do the script's own calls of sc.exe.
LEMMA ServiceTypes ==
    ASSUME svc \in [W!Services -> W!ServiceStates], NEW s \in W!Services,
           W!Stopping(s) \/ W!Starting(s)
    PROVE  svc' \in [W!Services -> W!ServiceStates]
BY DEF W!Stopping, W!Starting, W!Services, W!ServiceStates, W!Running

LEMMA PassTypes ==
    ASSUME svc \in [W!Services -> W!ServiceStates], W!PassStep
    PROVE  svc' \in [W!Services -> W!ServiceStates]
<1>1. "mcp" \in W!Services /\ "tunnel" \in W!Services
    BY DEF W!Services
<1>2. \/ UNCHANGED svc
      \/ \E s \in W!Services : W!Stopping(s) \/ W!Starting(s)
    BY <1>1 DEF W!PassStep, W!BeginPass, W!LookAtMcp, W!ProbeMcp, W!StartMcp,
           W!StopPairTunnel, W!StopMcp, W!RestartMcp, W!RestartTunnel, W!ProbeMcpAgain,
           W!LookAtTunnel, W!ProbeTunnel, W!StopTunnel, W!StartTunnel
<1> QED BY <1>2, ServiceTypes

\* The gateway's code stays loaded when what its Python holds is the same.
LEMMA StaysLoaded ==
    ASSUME Loading, wheel = loaded PROVE loaded' = loaded
BY DEF Loading

-----------------------------------------------------------------------------
\* A pass goes on only when one was under way, and begins only without a flag.
LEMMA WatchdogKeeps == ASSUME UInv, WatchdogStep PROVE UInv'
<1> USE DEF UInv
<1>1. svc' \in [W!Services -> W!ServiceStates]
    BY PassTypes DEF WatchdogStep
<1>2. UNCHANGED <<flag, upc, wheel, alive, disturbed>> /\ alive
    BY DEF WatchdogStep, scriptVars
<1>3. disturbed \/ upc \notin Stages
    BY DEF WatchdogStep, Paused
<1>4. Paused'
    BY <1>2, <1>3 DEF Paused
<1>5. Clean'
    <2>1. CASE disturbed
        BY <1>2, <2>1 DEF Clean
    <2>2. CASE upc \notin Stages
        <3>1. upc = "finished" /\ ~disturbed => loaded' = "new"
            BY StaysLoaded DEF Clean, WatchdogStep
        <3> QED BY <1>2, <2>2, <3>1 DEF Clean, Stages
    <2> QED BY <1>3, <2>1, <2>2
<1> QED BY <1>1, <1>2, <1>4, <1>5

LEMMA ScriptKeeps == ASSUME UInv, ScriptStep \/ BeginUpdate \/ Kill PROVE UInv'
<1> USE DEF UInv
<1>1. "mcp" \in W!Services /\ "tunnel" \in W!Services
    BY DEF W!Services
<1>2. CASE BeginUpdate
    BY <1>2 DEF BeginUpdate, Paused, Clean, watchdogVars, Ended, Stages
<1>3. CASE Build \/ FinishInstall \/ StepThrows \/ Finally \/ Kill
    BY <1>3 DEF Build, FinishInstall, StepThrows, Finally, Kill, Step, Paused, Clean,
                watchdogVars, Ended, Stages
<1>4. CASE StopTunnel \/ StopGateway
    <2>1. svc' \in [W!Services -> W!ServiceStates]
        BY <1>1, <1>4, ServiceTypes DEF StopTunnel, StopGateway
    <2>2. CASE StopTunnel
        BY <2>1, <2>2 DEF StopTunnel, Step, Paused, Clean, watchdogVars, Ended, Stages
    <2>3. CASE StopGateway
        BY <2>1, <2>3 DEF StopGateway, Step, Paused, Clean, watchdogVars, Ended, Stages
    <2> QED BY <1>4, <2>2, <2>3
<1>5. CASE StartGateway
    <2>1. svc' \in [W!Services -> W!ServiceStates]
        BY <1>1, <1>5, ServiceTypes DEF StartGateway
    <2>2. ~disturbed /\ svc'["mcp"] = "Healthy" => loaded' = "new"
        BY <1>5 DEF StartGateway, Loading, Starts, Clean
    <2> QED BY <1>5, <2>1, <2>2 DEF StartGateway, Step, Paused, Clean, watchdogVars,
                                    Ended, Stages
<1>6. CASE StartTunnel
    <2>1. svc' \in [W!Services -> W!ServiceStates]
        BY <1>1, <1>6, ServiceTypes DEF StartTunnel
    <2>2. ~disturbed => loaded' = "new"
        BY <1>6, StaysLoaded DEF StartTunnel, Clean
    <2> QED BY <1>6, <2>1, <2>2 DEF StartTunnel, Step, Paused, Clean, watchdogVars,
                                    Ended, Stages
<1>7. CASE StopWatchdog
    BY <1>7 DEF StopWatchdog, W!CrashAndRestart, Paused, Clean, Ended, Stages
<1>8. CASE StartWatchdog
    BY <1>8 DEF StartWatchdog, Paused, Clean, watchdogVars, Ended, Stages
<1> QED BY <1>2, <1>3, <1>4, <1>5, <1>6, <1>7, <1>8 DEF ScriptStep

\* Services that die, time that passes.
LEMMA OthersKeep ==
    ASSUME UInv, Tick \/ UNCHANGED vars \/ \E s \in W!Services : ServiceChanges(s)
    PROVE  UInv'
<1> USE DEF UInv
<1>1. CASE Tick \/ UNCHANGED vars
    <2>1. UNCHANGED <<svc, pc, scriptVars, disturbed, loaded>>
        BY <1>1 DEF Tick, W!Tick, vars, watchdogVars
    <2> QED BY <2>1 DEF scriptVars, Paused, Clean
<1>2. ASSUME NEW s \in W!Services, ServiceChanges(s) PROVE UInv'
    <2>1. /\ UNCHANGED <<pc, scriptVars>> /\ Loading
          /\ disturbed' = (disturbed \/ (upc = "installing" /\ Starts("mcp")))
          /\ \E state \in W!ServiceStates : svc' = [svc EXCEPT ![s] = state]
        BY <1>2 DEF ServiceChanges, W!ServiceChanges, W!ServiceStates
    <2>2. svc' \in [W!Services -> W!ServiceStates] /\ disturbed' \in BOOLEAN
        BY <2>1
    <2>3. ~disturbed' => ~disturbed /\ (upc = "installing" => ~Starts("mcp"))
        BY <2>1
    <2>4. Paused'
        BY <2>1, <2>3 DEF scriptVars, Paused
    <2>5. Clean'
        BY <2>1, <2>3 DEF scriptVars, Clean, Loading, Starts
    <2> QED BY <2>1, <2>2, <2>4, <2>5 DEF scriptVars
<1> QED BY <1>1, <1>2

-----------------------------------------------------------------------------
(* The watchdog beside the script.                                         *)

Watchdog == INSTANCE FleetWatchdogProofs

LEMMA WatchdogLimits == Watchdog!WatchdogConstants
BY UpdateConstants

\* A step is one of the watchdog, which the script may stop, or changes the
\* services only.
LEMMA StepOfWatchdog ==
    ASSUME [Next]_vars
    PROVE  \/ W!PassStep \/ W!Tick \/ W!CrashAndRestart
           \/ UNCHANGED watchdogVars
<1>1. CASE ScriptStep
    BY <1>1 DEF ScriptStep, Build, StopTunnel, StopGateway, FinishInstall, StartGateway,
                StartTunnel, StopWatchdog, StartWatchdog, StepThrows, Finally, Step
<1>2. CASE Tick \/ WatchdogStep \/ BeginUpdate \/ Kill
    BY <1>2 DEF Tick, WatchdogStep, BeginUpdate, Kill, Step
<1>3. ASSUME NEW s \in W!Services, ServiceChanges(s) PROVE UNCHANGED watchdogVars
    BY <1>3 DEF ServiceChanges, W!ServiceChanges, watchdogVars, W!passVars, W!budgetVars,
                W!memVars
<1> QED BY <1>1, <1>2, <1>3 DEF Next, vars

\* The two instances of the watchdog, FleetUpdate's and that of its proofs, are
\* the same.
LEMMA SamePass ==
    /\ W!Init => Watchdog!Init
    /\ W!Tick => Watchdog!Tick
    /\ W!CrashAndRestart => Watchdog!CrashAndRestart
    /\ W!PassStep => Watchdog!PassStep
BY
   DEF W!Init, Watchdog!Init, W!Tick, Watchdog!Tick, W!CrashAndRestart,
       Watchdog!CrashAndRestart, W!PassStep, Watchdog!PassStep, W!BeginPass,
       Watchdog!BeginPass, W!LookAtMcp, Watchdog!LookAtMcp, W!ProbeMcp,
       Watchdog!ProbeMcp, W!StartMcp, Watchdog!StartMcp, W!StopPairTunnel,
       Watchdog!StopPairTunnel, W!StopMcp, Watchdog!StopMcp, W!RestartMcp,
       Watchdog!RestartMcp, W!RestartTunnel, Watchdog!RestartTunnel,
       W!ProbeMcpAgain, Watchdog!ProbeMcpAgain, W!LookAtTunnel,
       Watchdog!LookAtTunnel, W!ProbeTunnel, Watchdog!ProbeTunnel,
       W!StopTunnel, Watchdog!StopTunnel, W!StartTunnel, Watchdog!StartTunnel,
       W!Services, Watchdog!Services, W!Threshold, Watchdog!Threshold,
       W!Running, Watchdog!Running, W!Aged, Watchdog!Aged, W!AgedCounts,
       Watchdog!AgedCounts, W!Spent, Watchdog!Spent, W!Allowed,
       Watchdog!Allowed, W!Refuse, Watchdog!Refuse, W!Charge, Watchdog!Charge,
       W!Loaded, Watchdog!Loaded, W!Goto, Watchdog!Goto, W!Failed,
       Watchdog!Failed, W!Due, Watchdog!Due, W!ProbeFails,
       Watchdog!ProbeFails, W!Stopping, Watchdog!Stopping, W!Starting,
       Watchdog!Starting, W!passVars, Watchdog!passVars, W!memVars,
       Watchdog!memVars, W!budgetVars, Watchdog!budgetVars, W!Cardinality,
       Watchdog!Cardinality

\* Types of the watchdog, given those of the services, which UInv has.
LEMMA WatchdogTypes ==
    ASSUME Watchdog!Types, [Next]_vars, svc' \in [W!Services -> W!ServiceStates]
    PROVE  Watchdog!Types'
<1>1. CASE W!PassStep \/ W!Tick \/ W!CrashAndRestart
    BY <1>1, SamePass, WatchdogLimits, Watchdog!TypesStep DEF Watchdog!Next
<1>2. CASE UNCHANGED watchdogVars
    BY <1>2 DEF watchdogVars, Watchdog!Types, Watchdog!BudgetTypes, Watchdog!Flags,
                Watchdog!Known, Watchdog!Counts, Watchdog!Services, Watchdog!ServiceStates,
                W!Services, W!ServiceStates
<1> QED BY <1>1, <1>2, StepOfWatchdog

\* What the script writes down.
Written == {wheel, loaded} \subseteq Holds /\ updates \in 0 .. MaxUpdates

LEMMA ScriptTypes == ASSUME Written, [Next]_vars PROVE Written'
<1> USE UpdateConstants DEF Written, Holds
<1>1. CASE ScriptStep
    BY <1>1 DEF ScriptStep, Build, StopTunnel, StopGateway, FinishInstall, StartGateway,
                StartTunnel, StopWatchdog, StartWatchdog, StepThrows, Finally, Step, Loading
<1>2. CASE Tick \/ WatchdogStep \/ Kill \/ UNCHANGED vars
    BY <1>2 DEF Tick, WatchdogStep, Kill, Step, Loading, scriptVars, vars
<1>3. CASE BeginUpdate
    BY <1>3 DEF BeginUpdate
<1>4. ASSUME NEW s \in W!Services, ServiceChanges(s) PROVE Written'
    BY <1>4 DEF ServiceChanges, scriptVars, Loading
<1> QED BY <1>1, <1>2, <1>3, <1>4 DEF Next

\* All of it holds of the specification.
LEMMA UInvHolds == Spec => [](UInv /\ Written /\ Watchdog!Types)
<1>1. Init => UInv
    BY DEF Init, W!Init, UInv, Paused, Clean, W!Services, W!ServiceStates, Stages, Ended
<1>2. Init => Written
    BY UpdateConstants DEF Init, Written, Holds
<1>3. Init => Watchdog!Types
    BY SamePass, WatchdogLimits, Watchdog!TypesInit DEF Init
<1>4. UInv /\ [Next]_vars => UInv'
    BY WatchdogKeeps, ScriptKeeps, OthersKeep DEF Next
<1>5. UInv' => svc' \in [W!Services -> W!ServiceStates]
    BY DEF UInv
<1>6. UInv /\ Written /\ Watchdog!Types /\ [Next]_vars => (UInv /\ Written /\ Watchdog!Types)'
    BY <1>4, <1>5, ScriptTypes, WatchdogTypes
<1> QED BY <1>1, <1>2, <1>3, <1>6, PTL DEF Spec

\* Type correctness, the watchdog's included; the flag is there while the script
\* runs.
THEOREM TypeCorrect == Spec => []TypeOK
<1>1. Watchdog!Types => W!TypeOK
    <2>1. Watchdog!TypeOK => W!TypeOK
        BY DEF Watchdog!TypeOK, W!TypeOK, Watchdog!Services, W!Services, Watchdog!ServiceStates,
               W!ServiceStates, Watchdog!Stages, W!Stages, Watchdog!Threshold, W!Threshold
    <2> QED BY <2>1, WatchdogLimits, Watchdog!TypeParts
<1>2. UInv /\ Written /\ Watchdog!Types => TypeOK
    BY <1>1 DEF UInv, Paused, Written, TypeOK
<1> QED BY <1>2, UInvHolds, PTL

\* An update that began while the watchdog slept installs beside a stopped
\* gateway unless the SCM starts it, and one that finished has left the new
\* code running, for as long as no other update begins.
THEOREM QuietUpdate == Spec => []QuietUpdateIsClean
<1>1. UInv => QuietUpdateIsClean
    BY DEF UInv, Clean, QuietUpdateIsClean
<1> QED BY <1>1, UInvHolds, PTL

-----------------------------------------------------------------------------
\* A step that only changes services leaves the budget what it is.
LEMMA WatchdogHonest ==
    ASSUME UtcOffset = 0, MaxUpdates <= 1,
           Watchdog!Types, Watchdog!Honestly, Watchdog!Looked, [Next]_vars
    PROVE  Watchdog!Honestly' /\ Watchdog!Looked'
<1>1. CASE W!PassStep \/ W!Tick \/ W!CrashAndRestart
    <2>1. [Watchdog!Next]_(Watchdog!vars)
        BY <1>1, SamePass DEF Watchdog!Next
    <2>2. MaxCrashes <= 1
        BY UpdateConstants
    <2>3. Watchdog!Looked'
        BY <2>1, WatchdogLimits, Watchdog!LookedStep
    <2>4. \A s \in Watchdog!Services : Watchdog!Honest(s)'
        BY <2>1, <2>2, WatchdogLimits, Watchdog!HonestStep
    <2> QED BY <2>3, <2>4 DEF Watchdog!Honestly, Watchdog!Services
<1>2. CASE UNCHANGED watchdogVars
    BY <1>2 DEF watchdogVars, Watchdog!Honestly, Watchdog!Honest, Watchdog!Looked,
                Watchdog!Services
<1> QED BY <1>1, <1>2, StepOfWatchdog

\* On a host in UTC and for one update, which stops the watchdog at most once
\* wherever its pass stands, the watchdog restarts no service more often in an
\* hour than its cap allows, and none twice within the cooldown.
THEOREM BudgetSurvivesUpdate ==
    ASSUME UtcOffset = 0, MaxUpdates <= 1
    PROVE  Spec => [](W!HourlyCap /\ W!CooldownKept)
<1> DEFINE Good == Watchdog!Honestly /\ Watchdog!Looked
<1>1. Init => Good
    BY SamePass, WatchdogLimits, Watchdog!HonestInit DEF Init
<1>2. Watchdog!Types /\ Good /\ [Next]_vars => Good'
    BY WatchdogHonest
<1>3. Watchdog!Types /\ Good => Watchdog!HourlyCap /\ Watchdog!CooldownKept
    <2>1. Watchdog!Types /\ Good => Watchdog!HourlyCap
        BY WatchdogLimits, Watchdog!ChargedCardinality DEF Watchdog!Honestly, Watchdog!HourlyCap
    <2>2. Watchdog!Types /\ Good => Watchdog!CooldownKept
        BY WatchdogLimits, Watchdog!ChargedApart DEF Watchdog!Honestly, Watchdog!CooldownKept
    <2> QED BY <2>1, <2>2
<1>4. Watchdog!HourlyCap /\ Watchdog!CooldownKept => W!HourlyCap /\ W!CooldownKept
    BY DEF Watchdog!HourlyCap, W!HourlyCap, Watchdog!CooldownKept, W!CooldownKept,
           Watchdog!Charged, W!Charged, Watchdog!Services, W!Services,
           Watchdog!Cardinality, W!Cardinality
<1> HIDE DEF Good
<1> QED BY <1>1, <1>2, <1>3, <1>4, UInvHolds, PTL DEF Spec
=============================================================================
