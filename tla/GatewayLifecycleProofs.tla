------------------------ MODULE GatewayLifecycleProofs ------------------------
(* Proofs about GatewayLifecycle, for any sessions and modules: whatever   *)
(* starts, fails, is cancelled or restarted, a tool call is in a module    *)
(* that has been started, and the last session leaves nothing running.     *)
EXTENDS GatewayLifecycle, FiniteSetTheorems, TLAPS

Holding == {"starting", "modules", "stopping"}

Types ==
    /\ at \in [Sessions -> Stations] /\ lock \in Sessions \cup {Nobody}
    /\ ready \in BOOLEAN
    /\ remaining \subseteq Modules /\ running \subseteq Modules
    /\ loadErrors \subseteq Modules /\ astray \subseteq Modules
    /\ calling \in [Sessions -> Enabled \cup {Nobody}]
    /\ restarting \in Enabled \cup {Nobody} /\ restartPc \in {"idle", "stop", "start"}
    /\ restartPc = "idle" <=> restarting = Nobody

\* The lock is held by whoever starts or stops the modules, and these are not
\* offered meanwhile; whoever is inside is offered them.
Held ==
    /\ \A s \in Sessions : lock = s <=> at[s] \in Holding
    /\ \A s \in Sessions : at[s] \in Holding => ~ready
    /\ \A s \in Sessions : at[s] = "inside" => ready
    /\ \A s \in Sessions : calling[s] # Nobody => at[s] = "inside"

\* The count is that of the sessions that will still stop, and of the leaks;
\* without leaks, somebody is counted for as long as the modules are offered.
Numbers ==
    /\ users = Cardinality(Counted) + leaked
    /\ leaked \in 0 .. MaxLeaks
    /\ ready /\ leaked = 0 => Counted # {}

\* What is offered is there: a module that the start has come past runs, or has
\* a load error, or is one the registry may be wrong about; as is a module
\* that is being restarted.
Available ==
    /\ ready => Enabled \ loadErrors \subseteq running \cup astray
    /\ \A s \in Sessions : at[s] = "modules" =>
           Enabled \ (remaining \cup loadErrors) \subseteq running \cup astray
    /\ restarting # Nobody => restarting \in astray

\* What is not offered does not run, but for what a start has come past, what
\* a stop has still to do, and what the registry may be wrong about.
Leftover ==
    ~ready /\ leaked = 0 =>
        \A m \in running :
            \/ m \in astray
            \/ \E s \in Sessions : at[s] = "modules" /\ m \notin remaining
            \/ \E s \in Sessions : at[s] = "stopping" /\ m \in remaining

LInv == Types /\ Held /\ Numbers /\ Available /\ Leftover /\ CallsReachStarted

-----------------------------------------------------------------------------
(* The count.                                                              *)

LEMMA CountedFinite ==
    ASSUME LifecycleConstants
    PROVE  IsFiniteSet(Counted) /\ Cardinality(Counted) \in Nat
<1>1. IsFiniteSet(Counted)
    BY FS_Subset DEF LifecycleConstants, Counted
<1> QED BY <1>1, FS_CardinalityType

\* A step counts one session more or one less, with or without the users, or
\* none.
LEMMA CountedStep ==
    ASSUME LifecycleConstants, Types, [Next]_vars
    PROVE  \/ UNCHANGED <<users, leaked, Counted>>
           \/ \E s \in Sessions \ Counted :
                 /\ Counted' = Counted \cup {s} /\ users' = users + 1
                 /\ UNCHANGED <<leaked, ready>>
           \/ \E s \in Counted :
                 /\ Counted' = Counted \ {s}
                 /\ \/ /\ users' = IF users > 0 THEN users - 1 ELSE users
                       /\ UNCHANGED leaked
                       /\ ready' => ready /\ users' > 0
                    \/ /\ users' = users - 1 /\ UNCHANGED <<leaked, ready>>
                       /\ at[s] = "starting"
                    \/ /\ UNCHANGED <<users, ready>>
                       /\ leaked' = leaked + 1 /\ leaked < MaxLeaks
<1> USE DEF Types, Counted, Goes
<1>1. CASE UNCHANGED vars \/ RestartStops \/ RestartStarts \/ RestartFails
           \/ \E m \in Modules : Restart(m)
    BY <1>1 DEF vars, RestartStops, RestartStarts, RestartFails, Restart, sessionVars
<1>2. ASSUME NEW s \in Sessions,
             \/ CallEnds(s) \/ StartModule(s) \/ StopModule(s)
             \/ \E m \in Modules : Invoke(s, m)
      PROVE  UNCHANGED <<users, leaked, Counted>>
    BY <1>2 DEF CallEnds, StartModule, StopModule, Invoke, sessionVars
<1>3. ASSUME NEW s \in Sessions,
             AskStart(s) \/ Migrated(s) \/ Started(s) \/ AskStop(s) \/ Stopped(s)
      PROVE  UNCHANGED <<users, leaked, Counted>>
    BY <1>3 DEF AskStart, Migrated, Started, AskStop, Stopped
<1>4. ASSUME NEW s \in Sessions, Start(s)
      PROVE  /\ s \notin Counted /\ Counted' = Counted \cup {s} /\ users' = users + 1
             /\ UNCHANGED <<leaked, ready>>
    BY <1>4 DEF Start
<1>5. ASSUME NEW s \in Sessions, StartFails(s)
      PROVE  /\ s \in Counted /\ Counted' = Counted \ {s} /\ users' = users - 1
             /\ UNCHANGED <<leaked, ready>> /\ at[s] = "starting"
    BY <1>5 DEF StartFails
<1>6. ASSUME NEW s \in Sessions, Stop(s)
      PROVE  /\ s \in Counted /\ Counted' = Counted \ {s}
             /\ users' = IF users > 0 THEN users - 1 ELSE users
             /\ UNCHANGED leaked /\ (ready' => ready /\ users' > 0)
    BY <1>6 DEF Stop
<1>7. ASSUME NEW s \in Sessions, Cancel(s)
      PROVE  \/ UNCHANGED <<users, leaked, Counted>>
             \/ /\ s \in Counted /\ Counted' = Counted \ {s} /\ UNCHANGED <<users, ready>>
                /\ leaked' = leaked + 1 /\ leaked < MaxLeaks
    BY <1>7 DEF Cancel
<1> QED BY <1>1, <1>2, <1>3, <1>4, <1>5, <1>6, <1>7 DEF Next

LEMMA NumbersStep ==
    ASSUME LifecycleConstants, Types, Held, Numbers, [Next]_vars
    PROVE  Numbers'
<1>1. IsFiniteSet(Counted) /\ Cardinality(Counted) \in Nat /\ MaxLeaks \in Nat
    BY CountedFinite DEF LifecycleConstants
<1> USE DEF Numbers
<1>2. CASE UNCHANGED <<users, leaked, Counted>>
    <2>1. ASSUME ready', ~ready, leaked = 0 PROVE Counted # {}
        <3>1. \E s \in Sessions : Started(s)
            BY <2>1 DEF Next, vars, RestartStops, RestartStarts, RestartFails, Restart,
                   sessionVars, CallEnds, StartModule, StopModule, Invoke, AskStart,
                   Migrated, AskStop, Stopped, Start, StartFails, Stop, Cancel, Types
        <3> QED BY <3>1 DEF Started, Counted
    <2> QED BY <1>2, <2>1
<1>3. ASSUME NEW s \in Sessions \ Counted,
             Counted' = Counted \cup {s}, users' = users + 1, UNCHANGED <<leaked, ready>>
      PROVE  Numbers'
    <2>1. Cardinality(Counted') = Cardinality(Counted) + 1
        BY <1>1, <1>3, FS_AddElement
    <2> QED BY <1>1, <1>3, <2>1
<1>4. ASSUME NEW s \in Counted, Counted' = Counted \ {s},
             \/ /\ users' = IF users > 0 THEN users - 1 ELSE users
                /\ UNCHANGED leaked /\ (ready' => ready /\ users' > 0)
             \/ /\ users' = users - 1 /\ UNCHANGED <<leaked, ready>>
                /\ at[s] = "starting"
             \/ /\ UNCHANGED <<users, ready>>
                /\ leaked' = leaked + 1 /\ leaked < MaxLeaks
      PROVE  Numbers'
    <2>1. Cardinality(Counted') = Cardinality(Counted) - 1
        BY <1>1, <1>4, FS_RemoveElement
    <2>2. Cardinality(Counted') \in Nat
        BY <1>1, <1>4, FS_RemoveElement, FS_CardinalityType
    <2>3. /\ users' = Cardinality(Counted') + leaked' /\ leaked' \in 0 .. MaxLeaks
        BY <1>1, <1>4, <2>1, <2>2
    <2>4. ASSUME ready', leaked' = 0 PROVE Cardinality(Counted') # 0
        <3>1. CASE users' = (IF users > 0 THEN users - 1 ELSE users) /\ UNCHANGED leaked
                   /\ (ready' => ready /\ users' > 0)
            BY <2>2, <2>3, <2>4, <3>1
        <3>2. CASE UNCHANGED <<leaked, ready>> /\ at[s] = "starting"
            BY <2>4, <3>2 DEF Held, Holding, Counted
        <3>3. CASE leaked' = leaked + 1
            BY <1>1, <2>4, <3>3
        <3> QED BY <1>4, <3>1, <3>2, <3>3
    <2> QED BY <2>3, <2>4, FS_EmptySet
<1> QED BY <1>2, <1>3, <1>4, CountedStep

-----------------------------------------------------------------------------
(* The steps, one session's or the restart's at a time.                    *)

\* The last user finds nobody inside.
LEMMA LastUser ==
    ASSUME LifecycleConstants, Types, Numbers, NEW s \in Sessions, Stop(s), ready, ~ready'
    PROVE  \A t \in Sessions : at[t] = "inside" => FALSE
<1>1. s \in Counted /\ IsFiniteSet(Counted) /\ Cardinality(Counted) \in Nat
    BY CountedFinite DEF Stop, Counted
<1>2. Cardinality(Counted \ {s}) = Cardinality(Counted) - 1 /\ IsFiniteSet(Counted \ {s})
    BY <1>1, FS_RemoveElement
<1>3. Cardinality(Counted \ {s}) = 0
    <2>1. Cardinality(Counted \ {s}) \in Nat /\ leaked \in Nat
        BY <1>2, FS_CardinalityType DEF Numbers, LifecycleConstants
    <2>2. users = Cardinality(Counted) + leaked
        BY DEF Numbers
    <2>3. ~(users' > 0) /\ users' = IF users > 0 THEN users - 1 ELSE users
        BY DEF Stop, Types
    <2> QED BY <1>1, <1>2, <2>1, <2>2, <2>3
<1>4. Counted \ {s} = {}
    BY <1>2, <1>3, FS_EmptySet
<1> QED BY <1>4 DEF Counted, Stop

LEMMA HeldStep ==
    ASSUME LifecycleConstants, Types, Held, Numbers, [Next]_vars PROVE Held'
<1> USE DEF Types, Held, Goes, Holding
<1>0. Nobody \notin Sessions
    BY DEF LifecycleConstants
<1>1. CASE UNCHANGED vars \/ RestartStops \/ RestartStarts \/ RestartFails
           \/ \E m \in Modules : Restart(m)
    BY <1>1 DEF vars, RestartStops, RestartStarts, RestartFails, Restart, sessionVars
<1>2. ASSUME NEW s \in Sessions, StartModule(s) \/ StopModule(s) PROVE Held'
    BY <1>2 DEF StartModule, StopModule
<1>3. ASSUME NEW s \in Sessions, CallEnds(s) \/ \E m \in Modules : Invoke(s, m) PROVE Held'
    BY <1>3 DEF CallEnds, Invoke, sessionVars
<1>4. ASSUME NEW s \in Sessions, AskStart(s) \/ AskStop(s) PROVE Held'
    BY <1>4 DEF AskStart, AskStop
<1>5. ASSUME NEW s \in Sessions, Start(s) PROVE Held'
    BY <1>0, <1>5 DEF Start
<1>6. ASSUME NEW s \in Sessions, StartFails(s) \/ Stopped(s) PROVE Held'
    BY <1>0, <1>6 DEF StartFails, Stopped
<1>7. ASSUME NEW s \in Sessions, Migrated(s) PROVE Held'
    BY <1>7 DEF Migrated
<1>8. ASSUME NEW s \in Sessions, Started(s) PROVE Held'
    BY <1>0, <1>8 DEF Started
<1>9. ASSUME NEW s \in Sessions, Stop(s) PROVE Held'
    <2>1. CASE ready' = ready /\ at'[s] = "out"
        BY <1>9, <2>1 DEF Stop
    <2>2. CASE ready /\ ~ready'
        <3>1. \A t \in Sessions : at[t] # "inside" /\ calling[t] = Nobody
            BY <1>9, <2>2, LastUser
        <3>2. /\ at[s] = "toStop" /\ lock = Nobody /\ lock' = s /\ UNCHANGED calling
              /\ at' = [at EXCEPT ![s] = "stopping"]
            BY <1>9, <2>2 DEF Stop
        <3> QED BY <1>0, <2>2, <3>1, <3>2
    <2> QED BY <1>9, <2>1, <2>2 DEF Stop
<1>10. ASSUME NEW s \in Sessions, Cancel(s) PROVE Held'
    BY <1>0, <1>10 DEF Cancel
<1> QED BY <1>1, <1>2, <1>3, <1>4, <1>5, <1>6, <1>7, <1>8, <1>9, <1>10 DEF Next

\* While somebody starts or stops the modules, nobody else does, and nobody is
\* inside, let alone in a call.
LEMMA Alone ==
    ASSUME LifecycleConstants, Types, Held, NEW s \in Sessions, at[s] \in Holding
    PROVE  /\ ~ready /\ \A t \in Sessions : at[t] \in Holding => t = s
           /\ \A t \in Sessions : calling[t] = Nobody
    BY DEF Types, Held, Holding, LifecycleConstants

LEMMA TypesStep ==
    ASSUME LifecycleConstants, Types, [Next]_vars PROVE Types'
<1> USE DEF Types, Goes, Stations
<1>0. Nobody \notin Sessions \cup Modules /\ Enabled \subseteq Modules
    BY DEF LifecycleConstants
<1>1. CASE UNCHANGED vars \/ \E m \in Modules : Restart(m)
    BY <1>0, <1>1 DEF vars, Restart, sessionVars, moduleVars, restartVars
<1>2. CASE RestartStops \/ RestartStarts \/ RestartFails
    BY <1>0, <1>2 DEF RestartStops, RestartStarts, RestartFails, sessionVars, moduleVars
<1>3. ASSUME NEW s \in Sessions, StartModule(s) \/ StopModule(s) PROVE Types'
    BY <1>3 DEF StartModule, StopModule, restartVars
<1>4. ASSUME NEW s \in Sessions, CallEnds(s) \/ \E m \in Modules : Invoke(s, m) PROVE Types'
    BY <1>4 DEF CallEnds, Invoke, sessionVars, moduleVars, restartVars
<1>5. ASSUME NEW s \in Sessions, AskStart(s) \/ AskStop(s) \/ Start(s) \/ StartFails(s)
      PROVE  Types'
    BY <1>5 DEF AskStart, AskStop, Start, StartFails, moduleVars, restartVars
<1>6. ASSUME NEW s \in Sessions, Migrated(s) \/ Started(s) \/ Stopped(s) PROVE Types'
    BY <1>0, <1>6 DEF Migrated, Started, Stopped, moduleVars, restartVars
<1>7. ASSUME NEW s \in Sessions, Stop(s) PROVE Types'
    BY <1>7 DEF Stop, moduleVars, restartVars
<1>8. ASSUME NEW s \in Sessions, Cancel(s) PROVE Types'
    <2>1. at' \in [Sessions -> Stations] /\ lock' \in Sessions \cup {Nobody}
        BY <1>8 DEF Cancel
    <2>2. remaining' \subseteq Modules /\ astray' \subseteq Modules
        BY <1>8 DEF Cancel
    <2> QED BY <1>8, <2>1, <2>2 DEF Cancel, restartVars
<1> QED BY <1>1, <1>2, <1>3, <1>4, <1>5, <1>6, <1>7, <1>8 DEF Next

LEMMA AvailableStep ==
    ASSUME LifecycleConstants, Types, Held, Available, [Next]_vars PROVE Available'
<1> USE DEF Types, Available, Goes
<1>0. Nobody \notin Sessions \cup Modules /\ Enabled \subseteq Modules
    BY DEF LifecycleConstants
<1>1. CASE UNCHANGED vars \/ \E m \in Modules : Restart(m)
    BY <1>0, <1>1 DEF vars, Restart, sessionVars, moduleVars, restartVars
<1>2. CASE RestartStops
    BY <1>0, <1>2 DEF RestartStops, sessionVars
<1>3. CASE RestartStarts
    <2>1. ready' => Enabled \ loadErrors' \subseteq running' \cup astray'
        BY <1>3 DEF RestartStarts, sessionVars
    <2>2. ASSUME NEW s \in Sessions, at'[s] = "modules"
          PROVE  Enabled \ (remaining' \cup loadErrors') \subseteq running' \cup astray'
        BY <1>3, <2>2 DEF RestartStarts, sessionVars
    <2> QED BY <1>3, <2>1, <2>2 DEF RestartStarts
<1>4. CASE RestartFails
    BY <1>4 DEF RestartFails, sessionVars, moduleVars
<1>5. ASSUME NEW s \in Sessions, StartModule(s) PROVE Available'
    <2>1. ~ready
        BY <1>5, Alone DEF StartModule, Holding
    <2>2. PICK m \in remaining :
              /\ remaining' = remaining \ {m}
              /\ \/ running' = running \cup {m} /\ UNCHANGED loadErrors
                 \/ loadErrors' = loadErrors \cup {m} /\ UNCHANGED running
              /\ astray' = IF m = restarting THEN astray ELSE astray \ {m}
        BY <1>5 DEF StartModule
    <2>3. Enabled \ (remaining' \cup loadErrors') \subseteq running' \cup astray'
        BY <1>5, <2>2 DEF StartModule
    <2> QED BY <1>5, <2>1, <2>2, <2>3 DEF StartModule, restartVars
<1>6. ASSUME NEW s \in Sessions, StopModule(s) PROVE Available'
    <2>1. ~ready /\ \A t \in Sessions : at[t] # "modules"
        BY <1>6, Alone DEF StopModule, Holding
    <2> QED BY <1>6, <2>1 DEF StopModule, restartVars
<1>7. ASSUME NEW s \in Sessions, CallEnds(s) \/ \E m \in Modules : Invoke(s, m)
      PROVE  Available'
    BY <1>7 DEF CallEnds, Invoke, sessionVars, moduleVars, restartVars
<1>8. ASSUME NEW s \in Sessions,
             AskStart(s) \/ AskStop(s) \/ Start(s) \/ StartFails(s) \/ Stopped(s)
      PROVE  Available'
    BY <1>8 DEF AskStart, AskStop, Start, StartFails, Stopped, moduleVars, restartVars
<1>9. ASSUME NEW s \in Sessions, Migrated(s) PROVE Available'
    <2>1. ~ready /\ \A t \in Sessions : at[t] # "modules"
        BY <1>9, Alone DEF Migrated, Holding
    <2> QED BY <1>9, <2>1 DEF Migrated, moduleVars, restartVars
<1>10. ASSUME NEW s \in Sessions, Started(s) PROVE Available'
    BY <1>10 DEF Started, moduleVars, restartVars
<1>11. ASSUME NEW s \in Sessions, Stop(s) PROVE Available'
    <2>1. \A t \in Sessions : at'[t] = "modules" => at[t] = "modules" /\ lock # Nobody
        BY <1>0, <1>11 DEF Stop, Held, Holding
    <2>2. \A t \in Sessions : at'[t] # "modules"
        BY <1>11, <2>1 DEF Stop
    <2> QED BY <1>11, <2>2 DEF Stop, moduleVars, restartVars
<1>12. ASSUME NEW s \in Sessions, Cancel(s) PROVE Available'
    <2>1. astray \subseteq astray' /\ UNCHANGED <<ready, running, loadErrors, restarting>>
        BY <1>12 DEF Cancel, restartVars
    <2>2. ASSUME NEW t \in Sessions, at'[t] = "modules"
          PROVE  at[t] = "modules" /\ UNCHANGED remaining
        BY <1>12, <2>2 DEF Cancel, Held, Holding
    <2> QED BY <2>1, <2>2
<1> QED BY <1>1, <1>2, <1>3, <1>4, <1>5, <1>6, <1>7, <1>8, <1>9, <1>10, <1>11, <1>12
        DEF Next

LEMMA LeftoverStep ==
    ASSUME LifecycleConstants, Types, Held, Numbers, Available, Leftover, [Next]_vars
    PROVE  Leftover'
<1> USE DEF Types, Leftover, Goes
<1>0. Nobody \notin Sessions \cup Modules /\ leaked \in Nat
    BY DEF LifecycleConstants, Numbers
<1>1. CASE UNCHANGED vars \/ (\E m \in Modules : Restart(m)) \/ RestartFails
    BY <1>1 DEF vars, Restart, RestartFails, sessionVars, moduleVars
<1>2. CASE RestartStops \/ RestartStarts
    <2>1. UNCHANGED sessionVars /\ (~ready => UNCHANGED astray)
        BY <1>2 DEF RestartStops, RestartStarts
    <2>2. \A m \in running' : m \in running \/ m \in astray
        BY <1>2 DEF RestartStops, RestartStarts, Available
    <2> QED BY <2>1, <2>2 DEF sessionVars
<1>3. ASSUME NEW s \in Sessions, StartModule(s) PROVE Leftover'
    <2>1. \A t \in Sessions : at[t] # "stopping"
        BY <1>3, Alone DEF StartModule, Holding
    <2>2. ASSUME NEW m \in running', m \in remaining', ~ready', leaked' = 0
          PROVE  m \in astray'
        BY <1>3, <2>1, <2>2 DEF StartModule
    <2> QED BY <1>3, <2>2 DEF StartModule
<1>4. ASSUME NEW s \in Sessions, StopModule(s) PROVE Leftover'
    <2>1. \A t \in Sessions : at[t] # "modules"
        BY <1>4, Alone DEF StopModule, Holding
    <2>2. ASSUME NEW m \in running', m \notin remaining', ~ready', leaked' = 0
          PROVE  m \in astray'
        BY <1>4, <2>1, <2>2 DEF StopModule
    <2> QED BY <1>4, <2>2 DEF StopModule
<1>5. ASSUME NEW s \in Sessions, CallEnds(s) \/ \E m \in Modules : Invoke(s, m)
      PROVE  Leftover'
    BY <1>5 DEF CallEnds, Invoke, sessionVars, moduleVars
<1>6. ASSUME NEW s \in Sessions, AskStart(s) \/ AskStop(s) \/ Start(s) \/ StartFails(s)
      PROVE  Leftover'
    BY <1>6 DEF AskStart, AskStop, Start, StartFails, moduleVars
<1>7. ASSUME NEW s \in Sessions, Migrated(s) PROVE Leftover'
    <2>1. \A t \in Sessions : at[t] \notin {"modules", "stopping"}
        BY <1>7, Alone DEF Migrated, Holding
    <2> QED BY <1>7, <2>1 DEF Migrated, moduleVars
<1>8. ASSUME NEW s \in Sessions, Started(s) PROVE Leftover'
    BY <1>8 DEF Started
<1>9. ASSUME NEW s \in Sessions, Stopped(s) PROVE Leftover'
    <2>1. \A t \in Sessions : at[t] # "modules"
        BY <1>9, Alone DEF Stopped, Holding
    <2> QED BY <1>9, <2>1 DEF Stopped, moduleVars
<1>10. ASSUME NEW s \in Sessions, Stop(s) PROVE Leftover'
    <2>1. CASE ready' = ready /\ at'[s] = "out" /\ UNCHANGED remaining
        BY <1>10, <2>1 DEF Stop, moduleVars
    <2>2. CASE at'[s] = "stopping" /\ remaining' = Modules
        BY <1>10, <2>2 DEF Stop, moduleVars
    <2> QED BY <1>10, <2>1, <2>2 DEF Stop
<1>11. ASSUME NEW s \in Sessions, Cancel(s) PROVE Leftover'
    <2>1. CASE at[s] \in {"starting", "modules", "toStop"}
        BY <1>0, <1>11, <2>1 DEF Cancel
    <2>2. CASE at[s] = "toStart"
        BY <1>11, <2>2 DEF Cancel, Held, Holding
    <2>3. CASE at[s] = "stopping"
        <3>1. \A t \in Sessions : at[t] # "modules" /\ (at[t] = "stopping" => t = s)
            BY <2>3, Alone DEF Holding
        <3>2. astray' = astray \cup remaining /\ UNCHANGED <<ready, running, leaked>>
            BY <1>11, <2>3 DEF Cancel, Held, Holding
        <3> QED BY <3>1, <3>2
    <2> QED BY <1>11, <2>1, <2>2, <2>3 DEF Cancel
<1> QED BY <1>1, <1>2, <1>3, <1>4, <1>5, <1>6, <1>7, <1>8, <1>9, <1>10, <1>11 DEF Next

LEMMA CallsStep ==
    ASSUME LifecycleConstants, Types, Held, Available, CallsReachStarted, [Next]_vars
    PROVE  CallsReachStarted'
<1> USE DEF Types, CallsReachStarted
<1>1. CASE UNCHANGED vars \/ (\E m \in Modules : Restart(m)) \/ RestartFails
    BY <1>1 DEF vars, Restart, RestartFails, moduleVars
<1>2. CASE RestartStops \/ RestartStarts
    BY <1>2 DEF RestartStops, RestartStarts, Available
<1>3. ASSUME NEW s \in Sessions, StartModule(s) \/ StopModule(s) PROVE CallsReachStarted'
    <2>1. \A t \in Sessions : calling[t] = Nobody
        BY <1>3, Alone DEF StartModule, StopModule, Holding
    <2> QED BY <1>3, <2>1 DEF StartModule, StopModule
<1>4. ASSUME NEW s \in Sessions, NEW m \in Modules, Invoke(s, m) PROVE CallsReachStarted'
    <2>1. m \in running \cup astray
        BY <1>4 DEF Invoke, Held, Available
    <2> QED BY <1>4, <2>1 DEF Invoke, moduleVars
<1>5. ASSUME NEW s \in Sessions, CallEnds(s) PROVE CallsReachStarted'
    BY <1>5 DEF CallEnds, moduleVars
<1>6. ASSUME NEW s \in Sessions,
             \/ AskStart(s) \/ AskStop(s) \/ Start(s) \/ StartFails(s)
             \/ Migrated(s) \/ Started(s) \/ Stop(s) \/ Stopped(s)
      PROVE  CallsReachStarted'
    BY <1>6 DEF AskStart, AskStop, Start, StartFails, Migrated, Started, Stop, Stopped,
           moduleVars
<1>7. ASSUME NEW s \in Sessions, Cancel(s) PROVE CallsReachStarted'
    BY <1>7 DEF Cancel
<1> QED BY <1>1, <1>2, <1>3, <1>4, <1>5, <1>6, <1>7 DEF Next

-----------------------------------------------------------------------------
(* The theorems.                                                           *)

LEMMA InitLInv == ASSUME LifecycleConstants, Init PROVE LInv
<1>1. Types /\ Held /\ Available /\ Leftover /\ CallsReachStarted
    BY DEF Init, LifecycleConstants, Types, Held, Holding, Available, Leftover,
           CallsReachStarted, Stations
<1>2. Counted = {}
    BY DEF Init, Counted
<1>3. Cardinality(Counted) = 0
    BY <1>2, FS_EmptySet
<1>4. Numbers
    BY <1>3 DEF Init, Numbers, LifecycleConstants
<1> QED BY <1>1, <1>4 DEF LInv

LEMMA NextLInv == ASSUME LifecycleConstants, LInv, [Next]_vars PROVE LInv'
    BY TypesStep, HeldStep, NumbersStep, AvailableStep, LeftoverStep, CallsStep DEF LInv

LEMMA LInvAlways == ASSUME LifecycleConstants PROVE Spec => []LInv
<1>1. LifecycleConstants
    OBVIOUS
<1>2. Init => LInv
    BY <1>1, InitLInv
<1>3. LInv /\ [Next]_vars => LInv'
    BY <1>1, NextLInv
<1> QED BY <1>2, <1>3, PTL DEF Spec

LEMMA LInvTypes == ASSUME LifecycleConstants, LInv PROVE TypeOK
BY DEF LInv, Types, Held, Holding, Numbers, TypeOK

LEMMA LInvStops == ASSUME LifecycleConstants, LInv PROVE LastOneStops
<1>1. SUFFICES ASSUME \A s \in Sessions : at[s] = "out", leaked = 0
               PROVE  ~ready /\ users = 0 /\ running \subseteq astray
    BY DEF LastOneStops
<1>2. Counted = {}
    BY <1>1 DEF Counted
<1>3. ~ready /\ users = 0
    BY <1>1, <1>2, FS_EmptySet DEF LInv, Numbers, Types
<1> QED BY <1>1, <1>3 DEF LInv, Leftover

\* The types; the lock is the one's that starts or stops the modules, and the
\* users counted are those that will still stop, and the leaks
\* (GatewayRuntime.start and stop).
THEOREM TypeCorrect == ASSUME LifecycleConstants PROVE Spec => []TypeOK
<1>1. LInv => TypeOK
    BY LInvTypes
<1> QED BY <1>1, LInvAlways, PTL

\* A tool call is in a module that has been started and not stopped since,
\* unless a restart or a failed stop may have left the registry wrong about it
\* (GatewayRuntime.stop, ModuleRegistry.start, stop and invoke).
THEOREM CallsReach == ASSUME LifecycleConstants PROVE Spec => []CallsReachStarted
<1>1. LInv => CallsReachStarted
    BY DEF LInv
<1> QED BY <1>1, LInvAlways, PTL

\* When the last session is gone, and none was cancelled, nothing is offered
\* and nothing runs that the registry is right about (GatewayRuntime.stop).
THEOREM LastStops == ASSUME LifecycleConstants PROVE Spec => []LastOneStops
<1>1. LInv => LastOneStops
    BY LInvStops
<1> QED BY <1>1, LInvAlways, PTL
=============================================================================
