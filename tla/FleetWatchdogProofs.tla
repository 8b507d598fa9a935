-------------------------- MODULE FleetWatchdogProofs --------------------------
(* Proofs about FleetWatchdog, for any thresholds and limits: its types,   *)
(* and, on a host whose local time is UTC and for a watchdog that dies at  *)
(* most once, the hourly cap and the cooldown of what it restarts.         *)
EXTENDS FleetWatchdog, FiniteSetTheorems, FunctionTheorems, TLAPS

\* What the budget is made of.
BudgetTypes ==
    /\ attempts \in [Services -> SUBSET (0 .. Hour)]
    /\ persisted \in [Services -> SUBSET (0 .. Hour)]
    /\ restarts \in [Services -> [0 .. Hour -> Nat]]
    /\ backoff \in [Services -> 0 .. Backoff]

\* The stages and flags of a pass, what it knows, and what it has counted.
Flags == pc \in Stages /\ {grace, forced, inGrace, mcpHealthy} \subseteq BOOLEAN
Known == known \subseteq Services /\ crashes \in 0 .. MaxCrashes
Counts ==
    /\ fails \in [Services -> Nat]
    /\ \A s \in Services : fails[s] <= Threshold(s)

Types == svc \in [Services -> ServiceStates] /\ BudgetTypes /\ Flags /\ Known /\ Counts

LEMMA TypeParts == TypeOK <=> Types
BY Zenon DEF TypeOK, Types, BudgetTypes, Flags, Known, Counts

LEMMA ConstantTypes ==
    /\ Hour \in Nat /\ Hour > 0 /\ Cooldown \in Nat /\ Cooldown > 0
    /\ MaxRestartsPerHour \in Nat /\ MaxRestartsPerHour > 0
    /\ Backoff \in Nat /\ UtcOffset \in Int /\ MaxCrashes \in Nat
    /\ "mcp" \in Services /\ "tunnel" \in Services
    /\ \A s \in Services : Threshold(s) \in Nat /\ Threshold(s) > 0
BY WatchdogConstants DEF Services, Threshold

-----------------------------------------------------------------------------
(* Types.                                                                  *)

LEMMA ServiceTypes ==
    ASSUME svc \in [Services -> ServiceStates], NEW s \in Services,
           Stopping(s) \/ Starting(s)
    PROVE  svc' \in [Services -> ServiceStates]
BY DEF Stopping, Starting, Services, ServiceStates, Running

\* A step of a pass spends, refuses or leaves the budget alone ...
Spending ==
    \/ UNCHANGED <<attempts, backoff, persisted, restarts>>
    \/ \E s \in Services : Charge(s) \/ Refuse(s)

\* ... and counts a failure of one service, or forgets its failures.
Counting ==
    \/ UNCHANGED fails
    \/ \E s \in Services : fails' = [fails EXCEPT ![s] = 0]
                        \/ fails' = [fails EXCEPT ![s] = Failed(s)]

LEMMA PassSpends == ASSUME Counts, PassStep PROVE Spending /\ Counting
<1> USE ConstantTypes DEF Spending, Counting
<1>1. CASE BeginPass \/ StartMcp \/ StopPairTunnel \/ StopMcp \/ RestartMcp
           \/ RestartTunnel \/ ProbeMcpAgain \/ StopTunnel \/ StartTunnel
    BY <1>1 DEF BeginPass, StartMcp, StopPairTunnel, StopMcp, RestartMcp, RestartTunnel,
                ProbeMcpAgain, StopTunnel, StartTunnel, budgetVars, memVars
<1>2. CASE LookAtMcp
    BY <1>2 DEF LookAtMcp
<1>3. CASE LookAtTunnel
    <2>1. Spending
        BY <1>3 DEF LookAtTunnel
    <2>2. Counting
        BY <1>3 DEF LookAtTunnel, Counts
    <2> QED BY <2>1, <2>2
<1>4. CASE ProbeMcp
    BY <1>4 DEF ProbeMcp, ProbeFails
<1>5. CASE ProbeTunnel
    BY <1>5 DEF ProbeTunnel, ProbeFails
<1> QED BY <1>1, <1>2, <1>3, <1>4, <1>5 DEF PassStep

LEMMA SpendTypes == ASSUME BudgetTypes, Spending PROVE BudgetTypes'
<1> USE ConstantTypes
<1>0. 0 \in 0 .. Hour
    OBVIOUS
<1>1. ASSUME NEW s \in Services, Charge(s) PROVE BudgetTypes'
    <2>1. attempts' = [attempts EXCEPT ![s] = attempts[s] \cup {0}]
        BY <1>1 DEF Charge
    <2>2. attempts[s] \cup {0} \in SUBSET (0 .. Hour)
        BY <1>0 DEF BudgetTypes
    <2>3. attempts' \in [Services -> SUBSET (0 .. Hour)]
        BY <2>1, <2>2 DEF BudgetTypes
    <2>4. persisted' = [t \in Services |-> IF t \in known \cup {s} THEN attempts'[t] ELSE {}]
        BY <1>1 DEF Charge
    <2>5. persisted' \in [Services -> SUBSET (0 .. Hour)]
        BY <2>3, <2>4
    <2>6. restarts[s] \in [0 .. Hour -> Nat]
        BY DEF BudgetTypes
    <2>7. restarts[s][0] + 1 \in Nat
        BY <1>0, <2>6
    <2>8. [restarts[s] EXCEPT ![0] = restarts[s][0] + 1] \in [0 .. Hour -> Nat]
        BY <2>6, <2>7
    <2>9. restarts' = [restarts EXCEPT ![s] = [restarts[s] EXCEPT ![0] = restarts[s][0] + 1]]
        BY <1>1 DEF Charge
    <2>10. restarts' \in [Services -> [0 .. Hour -> Nat]]
        BY <2>8, <2>9 DEF BudgetTypes
    <2>11. backoff' = backoff
        BY <1>1 DEF Charge
    <2> QED BY <2>3, <2>5, <2>10, <2>11 DEF BudgetTypes
<1>2. ASSUME NEW s \in Services, Refuse(s) PROVE BudgetTypes'
    <2>1. backoff' \in [Services -> 0 .. Backoff]
        BY <1>2 DEF Refuse, BudgetTypes
    <2>2. UNCHANGED <<attempts, persisted, restarts>>
        BY <1>2 DEF Refuse
    <2> QED BY <2>1, <2>2 DEF BudgetTypes
<1>3. CASE UNCHANGED <<attempts, backoff, persisted, restarts>>
    BY <1>3 DEF BudgetTypes
<1> QED BY <1>1, <1>2, <1>3 DEF Spending

LEMMA CountTypes == ASSUME Counts, Counting PROVE Counts'
<1>1. \A s \in Services : Failed(s) \in Nat /\ Failed(s) <= Threshold(s)
    BY ConstantTypes DEF Failed, Counts
<1> QED BY <1>1, ConstantTypes DEF Counts, Counting

LEMMA PassFlags == ASSUME Flags, Known, PassStep PROVE Flags' /\ Known'
<1> USE DEF Flags, Known
<1>1. CASE BeginPass
    BY <1>1 DEF BeginPass, Goto, Stages, budgetVars, memVars
<1>2. CASE LookAtMcp \/ LookAtTunnel
    BY <1>2, ConstantTypes DEF LookAtMcp, LookAtTunnel, Goto, Stages, passVars
<1>3. CASE ProbeMcp
    <2>1. UNCHANGED <<grace, forced, inGrace, known, crashes>> /\ mcpHealthy' \in BOOLEAN
        BY <1>3 DEF ProbeMcp, Goto, ProbeFails
    <2>2. pc' \in {"tunnel", "stop pair"}
        BY <1>3 DEF ProbeMcp, Goto, ProbeFails
    <2> QED BY <2>1, <2>2 DEF Stages
<1>4. CASE ProbeTunnel
    <2>1. UNCHANGED <<grace, passVars, known, crashes>>
        BY <1>4 DEF ProbeTunnel, Goto, ProbeFails
    <2>2. pc' \in {"sleep", "stop tunnel"}
        BY <1>4 DEF ProbeTunnel, Goto, ProbeFails
    <2> QED BY <2>1, <2>2 DEF Stages, passVars
<1>5. CASE StartMcp \/ StopPairTunnel \/ StopMcp \/ RestartMcp \/ RestartTunnel
           \/ StopTunnel \/ StartTunnel
    BY <1>5 DEF StartMcp, StopPairTunnel, StopMcp, RestartMcp, RestartTunnel,
                StopTunnel, StartTunnel, Goto, Stages, passVars, budgetVars, memVars
<1>6. CASE ProbeMcpAgain
    BY <1>6 DEF ProbeMcpAgain, Goto, Stages, budgetVars, memVars
<1> QED BY <1>1, <1>2, <1>3, <1>4, <1>5, <1>6 DEF PassStep

LEMMA PassServices ==
    ASSUME svc \in [Services -> ServiceStates], PassStep
    PROVE  svc' \in [Services -> ServiceStates]
<1>1. \/ UNCHANGED svc
      \/ \E s \in Services : Stopping(s) \/ Starting(s)
    BY ConstantTypes DEF PassStep, BeginPass, LookAtMcp, ProbeMcp, StartMcp,
           StopPairTunnel, StopMcp, RestartMcp, RestartTunnel, ProbeMcpAgain,
           LookAtTunnel, ProbeTunnel, StopTunnel, StartTunnel
<1> QED BY <1>1, ServiceTypes

\* Ages are cut off at an hour, whatever happens to them.
LEMMA AgeTypes ==
    /\ \A ages : Aged(ages) \subseteq 0 .. Hour /\ Loaded(ages) \subseteq 0 .. Hour
    /\ \A counts \in [0 .. Hour -> Nat] : AgedCounts(counts) \in [0 .. Hour -> Nat]
<1>1. \A ages : Aged(ages) \subseteq 0 .. Hour /\ Loaded(ages) \subseteq 0 .. Hour
    BY DEF Aged, Loaded
<1>2. \A counts \in [0 .. Hour -> Nat] : AgedCounts(counts) \in [0 .. Hour -> Nat]
    BY ConstantTypes DEF AgedCounts
<1> QED BY <1>1, <1>2

LEMMA TypesStep == ASSUME Types, [Next]_vars PROVE Types'
<1> USE ConstantTypes DEF Types
<1>1. CASE PassStep
    BY <1>1, PassSpends, SpendTypes, CountTypes, PassFlags, PassServices
<1>2. CASE Tick
    <2>1. BudgetTypes'
        <3>1. attempts' \in [Services -> SUBSET (0 .. Hour)]
            BY <1>2, AgeTypes DEF Tick
        <3>2. persisted' \in [Services -> SUBSET (0 .. Hour)]
            BY <1>2, AgeTypes DEF Tick
        <3>3. restarts' \in [Services -> [0 .. Hour -> Nat]]
            BY <1>2, AgeTypes DEF Tick, BudgetTypes
        <3>4. backoff' \in [Services -> 0 .. Backoff]
            <4>1. ASSUME NEW s \in Services
                  PROVE  (IF backoff[s] = 0 THEN 0 ELSE backoff[s] - 1) \in 0 .. Backoff
                <5>1. backoff[s] \in 0 .. Backoff
                    BY DEF BudgetTypes
                <5> QED BY <5>1
            <4>2. backoff' = [s \in Services |-> IF backoff[s] = 0 THEN 0 ELSE backoff[s] - 1]
                BY <1>2 DEF Tick
            <4> QED BY <4>1, <4>2
        <3> QED BY <3>1, <3>2, <3>3, <3>4 DEF BudgetTypes
    <2>2. Flags' /\ Known' /\ Counts'
        BY <1>2 DEF Tick, Flags, Known, Counts, passVars
    <2> QED BY <1>2, <2>1, <2>2 DEF Tick
<1>3. CASE CrashAndRestart
    <2>1. BudgetTypes'
        <3>1. attempts' \in [Services -> SUBSET (0 .. Hour)]
            BY <1>3, AgeTypes DEF CrashAndRestart
        <3>2. backoff' \in [Services -> 0 .. Backoff]
            BY <1>3 DEF CrashAndRestart
        <3> QED BY <1>3, <3>1, <3>2 DEF CrashAndRestart, BudgetTypes
    <2>2. Flags'
        BY <1>3, Zenon DEF CrashAndRestart, Flags, Stages
    <2>3. Known'
        BY <1>3 DEF CrashAndRestart, Known
    <2>4. Counts'
        BY <1>3 DEF CrashAndRestart, Counts
    <2> QED BY <1>3, <2>1, <2>2, <2>3, <2>4 DEF CrashAndRestart
<1>4. ASSUME NEW s \in Services, ServiceChanges(s) PROVE Types'
    <2>1. svc' \in [Services -> ServiceStates]
        BY <1>4 DEF ServiceChanges, ServiceStates
    <2> QED BY <1>4, <2>1 DEF ServiceChanges, BudgetTypes, Flags, Known, Counts,
                              passVars, budgetVars, memVars
<1>5. CASE UNCHANGED vars
    BY <1>5 DEF vars, BudgetTypes, Flags, Known, Counts, passVars, budgetVars, memVars
<1> QED BY <1>1, <1>2, <1>3, <1>4, <1>5 DEF Next

\* At first the watchdog knows nothing and has counted nothing.
LEMMA TypesInit == ASSUME Init PROVE Types
<1>1. BudgetTypes
    BY ConstantTypes DEF Init, BudgetTypes
<1>2. Flags
    BY Zenon DEF Init, Flags, Stages
<1>3. Known
    BY ConstantTypes DEF Init, Known
<1>4. Counts
    BY ConstantTypes DEF Init, Counts
<1>5. svc \in [Services -> ServiceStates]
    BY DEF Init, ServiceStates
<1> QED BY <1>1, <1>2, <1>3, <1>4, <1>5 DEF Types

LEMMA TypesHold == Spec => []Types
BY TypesInit, TypesStep, PTL DEF Spec

\* Type correctness; in particular no count of failures passes its threshold.
THEOREM TypeCorrect == Spec => []TypeOK
BY TypesHold, TypeParts, PTL

-----------------------------------------------------------------------------
(* The budget.                                                             *)

\* The watchdog counts the restarts of s that there were, they are apart and
\* not too many; until a crash the file has the same, and of a service that has
\* not been looked at since the start there were none.
Honest(s) ==
    /\ \A age \in 0 .. Hour : restarts[s][age] = IF age \in attempts[s] THEN 1 ELSE 0
    /\ \A a, b \in attempts[s] : a < b => b - a >= Cooldown
    /\ Cardinality(attempts[s]) <= MaxRestartsPerHour
    /\ crashes = 0 => persisted[s] = attempts[s]
    /\ crashes = 0 /\ s \notin known => attempts[s] = {}

Honestly == \A s \in Services : Honest(s)

\* A set of ages is finite.
LEMMA AgesFinite ==
    ASSUME NEW ages \in SUBSET (0 .. Hour)
    PROVE  IsFiniteSet(ages) /\ Cardinality(ages) \in Nat
<1>1. IsFiniteSet(0 .. Hour)
    BY FS_Interval, ConstantTypes
<1>2. IsFiniteSet(ages)
    BY <1>1, FS_Subset
<1> QED BY <1>2, FS_CardinalityType

\* Ages that grow, and are dropped after an hour, do not become more.
LEMMA AgedCardinality ==
    ASSUME NEW ages \in SUBSET (0 .. Hour)
    PROVE  Cardinality(Aged(ages)) <= Cardinality(ages)
<1> DEFINE Older == {a + 1 : a \in ages}
           Grow == [a \in ages |-> a + 1]
<1>1. Grow \in Surjection(ages, Older)
    BY DEF Surjection
<1>2. IsFiniteSet(ages) /\ Cardinality(ages) \in Nat
    BY AgesFinite
<1> HIDE DEF Older, Grow
<1>3. IsFiniteSet(Older) /\ Cardinality(Older) <= Cardinality(ages)
    BY <1>1, <1>2, FS_Surjection
<1>4. Cardinality(Older) \in Nat
    BY <1>3, FS_CardinalityType
<1>5. Aged(ages) \in SUBSET Older
    BY DEF Aged, Older
<1>6. IsFiniteSet(Aged(ages)) /\ Cardinality(Aged(ages)) <= Cardinality(Older)
    BY <1>3, <1>5, FS_Subset
<1>7. Cardinality(Aged(ages)) \in Nat
    BY <1>6, FS_CardinalityType
<1> QED BY <1>2, <1>3, <1>4, <1>6, <1>7

\* When each age was charged once, there are as many restarts as ages.
LEMMA ChargedCardinality ==
    ASSUME Types, NEW s \in Services, Honest(s)
    PROVE  Cardinality(Charged(s)) <= MaxRestartsPerHour
<1> DEFINE First(a) == [age |-> a, nth |-> 1]
           Firsts == [a \in attempts[s] |-> First(a)]
<1>1. attempts[s] \in SUBSET (0 .. Hour)
    BY DEF Types, BudgetTypes
<1>2. IsFiniteSet(attempts[s]) /\ Cardinality(attempts[s]) \in Nat
    BY <1>1, AgesFinite
<1>3. Charged(s) = {First(a) : a \in attempts[s]}
    <2>1. ASSUME NEW age \in 0 .. Hour
          PROVE  [age : {age}, nth : 1 .. restarts[s][age]] =
                 IF age \in attempts[s] THEN {First(age)} ELSE {}
        <3>1. restarts[s][age] = IF age \in attempts[s] THEN 1 ELSE 0
            BY DEF Honest
        <3>2. CASE age \in attempts[s]
            <4>1. 1 .. restarts[s][age] = {1}
                BY <3>1, <3>2
            <4>2. ASSUME NEW c \in [age : {age}, nth : {1}]
                  PROVE  c = First(age)
                OBVIOUS
            <4>3. First(age) \in [age : {age}, nth : {1}]
                OBVIOUS
            <4> HIDE DEF First
            <4>4. [age : {age}, nth : {1}] = {First(age)}
                BY <4>2, <4>3
            <4> QED BY <3>2, <4>1, <4>4
        <3>3. CASE age \notin attempts[s]
            BY <3>1, <3>3
        <3> QED BY <3>2, <3>3
    <2> QED BY <1>1, <2>1 DEF Charged
<1>4. Firsts \in Surjection(attempts[s], Charged(s))
    BY <1>3 DEF Surjection
<1> HIDE DEF Firsts
<1>5. IsFiniteSet(Charged(s)) /\ Cardinality(Charged(s)) <= Cardinality(attempts[s])
    BY <1>2, <1>4, FS_Surjection
<1>6. Cardinality(Charged(s)) \in Nat
    BY <1>5, FS_CardinalityType
<1> QED BY <1>2, <1>5, <1>6, ConstantTypes DEF Honest

LEMMA ChargedApart ==
    ASSUME Types, NEW s \in Services, Honest(s), NEW r \in Charged(s), NEW q \in Charged(s),
           r.age - q.age \in -(Cooldown - 1) .. Cooldown - 1
    PROVE  r = q
<1>1. ASSUME NEW c \in Charged(s)
      PROVE  /\ c.age \in attempts[s] /\ c.age \in 0 .. Hour
             /\ c = [age |-> c.age, nth |-> 1]
    <2>1. PICK age \in 0 .. Hour : c \in [age : {age}, nth : 1 .. restarts[s][age]]
        BY DEF Charged
    <2>2. restarts[s][age] = IF age \in attempts[s] THEN 1 ELSE 0
        BY DEF Honest
    <2> QED BY <2>1, <2>2
<1>2. ~(r.age < q.age) /\ ~(q.age < r.age)
    BY <1>1, ConstantTypes DEF Honest
<1> QED BY <1>1, <1>2

-----------------------------------------------------------------------------
(* The steps, for a watchdog that dies at most once on a host in UTC.      *)

\* A service that is probed has been looked at in this pass.
Looked ==
    /\ pc = "probe mcp" => "mcp" \in known
    /\ pc = "probe tunnel" => "tunnel" \in known

LEMMA LookedStep == ASSUME Looked, [Next]_vars PROVE Looked'
<1> USE DEF Looked
<1>1. CASE LookAtMcp \/ LookAtTunnel
    BY <1>1 DEF LookAtMcp, LookAtTunnel, Goto
<1>2. CASE BeginPass \/ ProbeMcp \/ StartMcp \/ StopPairTunnel \/ StopMcp \/ RestartMcp
           \/ RestartTunnel \/ ProbeMcpAgain \/ ProbeTunnel \/ StopTunnel \/ StartTunnel
    BY <1>2 DEF BeginPass, ProbeMcp, StartMcp, StopPairTunnel, StopMcp, RestartMcp,
           RestartTunnel, ProbeMcpAgain, ProbeTunnel, StopTunnel, StartTunnel, ProbeFails,
           Goto
<1>3. CASE CrashAndRestart \/ Tick \/ UNCHANGED vars \/ \E s \in Services : ServiceChanges(s)
    BY <1>3 DEF CrashAndRestart, Tick, vars, ServiceChanges, budgetVars, memVars
<1> QED BY <1>1, <1>2, <1>3 DEF Next, PassStep

LEMMA HonestStep ==
    ASSUME Types, Honestly, Looked, [Next]_vars, UtcOffset = 0, MaxCrashes <= 1,
           NEW s \in Services
    PROVE  Honest(s)'
<1>1. /\ attempts[s] \in SUBSET (0 .. Hour) /\ persisted[s] \in SUBSET (0 .. Hour)
      /\ restarts[s] \in [0 .. Hour -> Nat] /\ Honest(s)
    BY DEF Types, BudgetTypes, Honestly
<1>2. IsFiniteSet(attempts[s]) /\ Cardinality(attempts[s]) \in Nat
    BY <1>1, AgesFinite
<1>3. CASE /\ UNCHANGED <<attempts, persisted, restarts, crashes>>
           /\ known \subseteq known'
    BY <1>1, <1>3 DEF Honest
<1>4. ASSUME NEW t \in Services, Charge(t), known' = known \cup {t}, UNCHANGED crashes
      PROVE  Honest(s)'
    <2>1. persisted'[s] = IF s \in known' THEN attempts'[s] ELSE {}
        BY <1>4 DEF Charge
    <2>2. CASE s # t
        <3>1. attempts'[s] = attempts[s] /\ restarts'[s] = restarts[s]
            BY <1>4, <2>2 DEF Charge, Types, BudgetTypes
        <3>2. s \in known' <=> s \in known
            BY <1>4, <2>2
        <3>3. crashes' = 0 => persisted'[s] = attempts'[s]
            BY <1>1, <1>4, <2>1, <3>1, <3>2 DEF Honest
        <3>4. crashes' = 0 /\ s \notin known' => attempts'[s] = {}
            BY <1>1, <1>4, <3>1, <3>2 DEF Honest
        <3> QED BY <1>1, <3>1, <3>3, <3>4 DEF Honest
    <2>3. CASE s = t
        <3>1. /\ attempts'[s] = attempts[s] \cup {0}
              /\ restarts'[s] = [restarts[s] EXCEPT ![0] = restarts[s][0] + 1]
              /\ Allowed(s)
            BY <1>4, <2>3 DEF Charge, Types, BudgetTypes
        <3>2. /\ \A a \in attempts[s] : a >= Cooldown
              /\ Cardinality(attempts[s]) < MaxRestartsPerHour
            BY <1>2, <3>1, ConstantTypes DEF Allowed, Spent
        <3>3. 0 \notin attempts[s]
            BY <3>2, ConstantTypes
        <3>4. Cardinality(attempts'[s]) <= MaxRestartsPerHour
            <4>1. Cardinality(attempts[s] \cup {0}) = Cardinality(attempts[s]) + 1
                BY <1>2, <3>3, FS_AddElement
            <4> QED BY <1>2, <3>1, <3>2, <4>1, ConstantTypes
        <3>5. \A age \in 0 .. Hour :
                  restarts'[s][age] = IF age \in attempts'[s] THEN 1 ELSE 0
            <4>1. \A age \in 0 .. Hour : restarts[s][age] = IF age \in attempts[s] THEN 1 ELSE 0
                BY <1>1 DEF Honest
            <4>2. 0 \in 0 .. Hour
                BY ConstantTypes
            <4>3. restarts[s] \in [0 .. Hour -> Nat]
                BY DEF Types, BudgetTypes
            <4>4. restarts[s][0] = 0
                BY <3>3, <4>1, <4>2
            <4>5. restarts'[s][0] = 1 /\ 0 \in attempts'[s]
                <5>1. restarts'[s][0] = restarts[s][0] + 1
                    BY <3>1, <4>2, <4>3
                <5>2. 0 \in attempts'[s]
                    BY <3>1
                <5> QED BY <4>4, <5>1, <5>2
            <4>6. ASSUME NEW age \in 0 .. Hour, age # 0
                  PROVE  /\ restarts'[s][age] = restarts[s][age]
                         /\ age \in attempts'[s] <=> age \in attempts[s]
                BY <3>1, <4>3, <4>6
            <4> QED BY <4>1, <4>5, <4>6
        <3>6. \A a, b \in attempts'[s] : a < b => b - a >= Cooldown
            BY <1>1, <3>1, <3>2, ConstantTypes DEF Honest
        <3>7. s \in known'
            BY <1>4, <2>3
        <3> QED BY <2>1, <3>4, <3>5, <3>6, <3>7 DEF Honest
    <2> QED BY <2>2, <2>3
<1>5. CASE Tick
    <2>1. /\ attempts'[s] = Aged(attempts[s]) /\ persisted'[s] = Aged(persisted[s])
          /\ restarts'[s] = AgedCounts(restarts[s]) /\ UNCHANGED <<known, crashes>>
        BY <1>5 DEF Tick
    <2>2. Cardinality(attempts'[s]) <= MaxRestartsPerHour
        <3>1. Cardinality(attempts'[s]) \in Nat
            BY <2>1, AgeTypes, AgesFinite
        <3> QED BY <1>1, <1>2, <2>1, <3>1, AgedCardinality, ConstantTypes DEF Honest
    <2>3. ASSUME NEW age \in 0 .. Hour
          PROVE  restarts'[s][age] = IF age \in attempts'[s] THEN 1 ELSE 0
        <3>1. age \in attempts'[s] <=> age - 1 \in attempts[s]
            BY <1>1, <2>1 DEF Aged
        <3>2. CASE age = 0
            <4>1. age \notin attempts'[s]
                BY <1>1, <3>1, <3>2
            <4> QED BY <2>1, <3>2, <4>1 DEF AgedCounts
        <3>3. CASE age # 0
            <4>1. restarts'[s][age] = restarts[s][age - 1] /\ age - 1 \in 0 .. Hour
                BY <2>1, <3>3, ConstantTypes DEF AgedCounts
            <4> QED BY <1>1, <3>1, <4>1 DEF Honest
        <3> QED BY <3>2, <3>3
    <2>4. \A a, b \in attempts'[s] : a < b => b - a >= Cooldown
        <3>1. ASSUME NEW a \in attempts'[s], NEW b \in attempts'[s], a < b
              PROVE  b - a >= Cooldown
            <4>1. PICK c \in attempts[s] : a = c + 1
                BY <2>1 DEF Aged
            <4>2. PICK d \in attempts[s] : b = d + 1
                BY <2>1 DEF Aged
            <4>3. c \in Nat /\ d \in Nat /\ c < d
                BY <1>1, <3>1, <4>1, <4>2
            <4>4. d - c >= Cooldown
                BY <1>1, <4>3 DEF Honest
            <4> QED BY <4>1, <4>2, <4>3, <4>4, ConstantTypes
        <3> QED BY <3>1
    <2>5. crashes' = 0 => persisted'[s] = attempts'[s]
        BY <1>1, <2>1 DEF Honest
    <2>6. crashes' = 0 /\ s \notin known' => attempts'[s] = {}
        BY <1>1, <2>1 DEF Honest, Aged
    <2> QED BY <2>2, <2>3, <2>4, <2>5, <2>6 DEF Honest
<1>6. CASE CrashAndRestart
    <2>1. crashes = 0 /\ crashes' = 1
        BY <1>6, ConstantTypes DEF CrashAndRestart, Types, Known
    <2>2. attempts'[s] = attempts[s]
        <3>1. ASSUME NEW ages \in SUBSET (0 .. Hour) PROVE Loaded(ages) = ages
            <4>1. \A a \in ages : a + UtcOffset = a /\ a \in 0 .. Hour
                OBVIOUS
            <4> QED BY <4>1 DEF Loaded
        <3> QED BY <1>1, <1>6, <2>1, <3>1 DEF CrashAndRestart, Honest
    <2> QED BY <1>1, <1>6, <2>1, <2>2 DEF CrashAndRestart, Honest
<1>7. CASE PassStep
    <2>1. UNCHANGED crashes
        BY <1>7 DEF PassStep, Goto, BeginPass, LookAtMcp, ProbeMcp, StartMcp, ProbeFails,
               StopPairTunnel, StopMcp, RestartMcp, RestartTunnel, ProbeMcpAgain,
               LookAtTunnel, ProbeTunnel, StopTunnel, StartTunnel
    <2>2. \/ UNCHANGED <<attempts, persisted, restarts>> /\ known \subseteq known'
          \/ \E t \in Services : Charge(t) /\ known' = known \cup {t}
        <3>1. CASE LookAtMcp
            BY <3>1, ConstantTypes DEF LookAtMcp, Refuse
        <3>2. CASE LookAtTunnel
            BY <3>2, ConstantTypes DEF LookAtTunnel, Refuse
        <3>3. CASE BeginPass \/ StartMcp \/ StopPairTunnel \/ StopMcp \/ RestartMcp
                   \/ RestartTunnel \/ ProbeMcpAgain \/ StopTunnel \/ StartTunnel
            BY <3>3 DEF BeginPass, StartMcp, StopPairTunnel, StopMcp, RestartMcp,
                   RestartTunnel, ProbeMcpAgain, StopTunnel, StartTunnel, budgetVars, memVars
        <3>4. CASE ProbeMcp \/ ProbeTunnel
            <4>1. \E t \in known : t \in Services /\ (ProbeMcp \/ ProbeTunnel =>
                      \/ UNCHANGED <<attempts, persisted, restarts, known>>
                      \/ Charge(t) /\ UNCHANGED known)
                BY <3>4, ConstantTypes DEF Looked, ProbeMcp, ProbeTunnel, ProbeFails, Refuse
            <4> QED BY <3>4, <4>1
        <3> QED BY <1>7, <3>1, <3>2, <3>3, <3>4 DEF PassStep
    <2> QED BY <1>3, <1>4, <2>1, <2>2
<1>8. CASE UNCHANGED vars \/ \E t \in Services : ServiceChanges(t)
    BY <1>3, <1>8 DEF vars, ServiceChanges, budgetVars, memVars
<1> QED BY <1>5, <1>6, <1>7, <1>8 DEF Next

LEMMA HonestInit == ASSUME Init PROVE Honestly /\ Looked
<1>1. Looked
    BY DEF Init, Looked
<1>2. ASSUME NEW s \in Services PROVE Honest(s)
    <2>1. attempts[s] = {} /\ persisted[s] = {}
          /\ restarts[s] = [age \in 0 .. Hour |-> 0]
        BY DEF Init
    <2>2. Cardinality(attempts[s]) = 0
        BY <2>1, FS_EmptySet
    <2> QED BY <2>1, <2>2, ConstantTypes DEF Honest
<1> QED BY <1>1, <1>2 DEF Honestly

LEMMA HonestInvariant ==
    ASSUME UtcOffset = 0, MaxCrashes <= 1
    PROVE  Spec => [](Types /\ Honestly)
<1>1. Types /\ Honestly /\ Looked /\ [Next]_vars => Honestly' /\ Looked'
    BY HonestStep, LookedStep DEF Honestly
<1> QED BY <1>1, HonestInit, TypesHold, PTL DEF Spec

\* On a host in UTC, and for a watchdog that dies at most once, no service is
\* restarted more often in an hour than the cap allows ...
THEOREM CapIsKept ==
    ASSUME UtcOffset = 0, MaxCrashes <= 1
    PROVE  Spec => []HourlyCap
<1>1. Types /\ Honestly => HourlyCap
    BY ChargedCardinality DEF Honestly, HourlyCap
<1> QED BY <1>1, HonestInvariant, PTL

\* ... nor twice within the cooldown.
THEOREM CooldownIsKept ==
    ASSUME UtcOffset = 0, MaxCrashes <= 1
    PROVE  Spec => []CooldownKept
<1>1. Types /\ Honestly => CooldownKept
    BY ChargedApart DEF Honestly, CooldownKept
<1> QED BY <1>1, HonestInvariant, PTL
=============================================================================
