------------------------- MODULE DesktopRefreshProofs -------------------------
(* Proofs about DesktopRefresh, for any backoff delays, any number of      *)
(* changes of the gateway's data and any number of restarts: the types, no *)
(* click is lost, and the board never goes back to older data.             *)
EXTENDS DesktopRefresh, TLAPS

\* A delay is a time, and there is at least one.
LEMMA DelayTypes ==
    /\ Len(Delays) \in Nat /\ Len(Delays) > 0
    /\ \A i \in 1 .. Len(Delays) : Delays[i] \in Nat
    /\ MaxVersion \in Nat /\ MaxVersion > 0 /\ MaxRestarts \in Nat
BY RefreshConstants

\* The numbers and snapshots of the types ...
Values ==
    /\ {gw, lastGood, cache} \subseteq 0 .. MaxVersion
    /\ failures \in 0 .. Len(Delays) /\ backoff \in Nat
    /\ {snap, reply, shown} \subseteq Snapshots
    /\ restarts \in 0 .. MaxRestarts

\* ... the flags and stages ...
Flags ==
    /\ poller \in {"fetch", "requesting", "waiting", "clearing"}
    /\ pull \in {"idle", "sent", "replied"}
    /\ {up, wake, forced, queued, late, timer, chained, hidden, owed} \subseteq BOOLEAN

\* ... and the timer of a visible page.
Polling ==
    /\ hidden => ~timer
    /\ ~hidden => timer \/ (chained /\ pull # "idle")

\* Together they are the type invariant.
LEMMA TypeParts == TypeOK <=> Values /\ Flags /\ Polling
BY Zenon DEF TypeOK, Values, Flags, Polling

\* What the client makes of an answer, a failure or its file is a snapshot.
LEMMA SnapshotTypes ==
    ASSUME NEW data \in 0 .. MaxVersion
    PROVE  /\ Snapshot(data, FALSE) \in Snapshots
           /\ Initial(data) \in Snapshots /\ ForFailure(data) \in Snapshots
           /\ Snapshot(data, FALSE).data = data
           /\ Initial(data).data = data /\ ForFailure(data).data = data
BY DEF Snapshot, Snapshots, Initial, ForFailure

\* So is a page that shows nothing.
LEMMA BlankType == Blank \in Snapshots
BY DelayTypes DEF Blank, Snapshot, Snapshots

\* Numbers and snapshots keep their types.
LEMMA ValuesStep == ASSUME Values, [Next]_vars PROVE Values'
<1> USE DelayTypes, SnapshotTypes, BlankType
<1>1. CASE GatewayChanges
    BY <1>1 DEF GatewayChanges, Values, clientVars, pageVars, pullVars
<1>2. CASE Tick
    BY <1>2 DEF Tick, Values, pageVars, pullVars
<1>3. CASE BeginFetch
    <2>1. snap' \in Snapshots
        BY <1>3 DEF BeginFetch, Values
    <2> QED BY <1>3, <2>1 DEF BeginFetch, Values, clientVars, pageVars, pullVars
<1>4. CASE RequestAnswered
    <2>1. snap' \in Snapshots
        BY <1>4 DEF RequestAnswered, Values
    <2>2. cache' \in 0 .. MaxVersion
        BY <1>4 DEF RequestAnswered, Values
    <2>3. UNCHANGED <<gw, reply, shown, restarts>>
        BY <1>4 DEF RequestAnswered, pageVars, pullVars
    <2>4. failures' = 0 /\ backoff' = 0 /\ lastGood' = gw
        BY <1>4 DEF RequestAnswered
    <2> QED BY <2>1, <2>2, <2>3, <2>4, DelayTypes DEF Values
<1>5. CASE RequestFails
    <2>1. failures' \in 1 .. Len(Delays)
        BY <1>5 DEF RequestFails, Values
    <2>2. snap' \in Snapshots
        BY <1>5 DEF RequestFails, Values
    <2>3. backoff' \in Nat
        BY <1>5, <2>1 DEF RequestFails
    <2> QED BY <1>5, <2>1, <2>2, <2>3 DEF RequestFails, Values, pageVars, pullVars
<1>6. CASE Wakes \/ Clears
    BY <1>6 DEF Wakes, Clears, Values, clientVars, pageVars, pullVars
<1>7. CASE PageStep
    <2>1. UNCHANGED backVars /\ {reply', shown'} \subseteq {reply, shown, snap, Blank}
        BY <1>7 DEF PageStep, Click, Call, TimerFires, BridgeRuns, PullRenders,
                    NextTurn, PullTimesOut, LateCallRuns, VisibilityChanges,
                    RefreshElsewhere, pageVars, pullVars
    <2> QED BY <2>1 DEF Values, backVars, clientVars
<1>8. CASE Restart
    <2>1. snap' \in Snapshots
        BY <1>8 DEF Restart, Values
    <2> QED BY <1>8, <2>1 DEF Restart, Values
<1>9. CASE UNCHANGED vars
    BY <1>9 DEF vars, Values, clientVars, pageVars, pullVars
<1> QED BY <1>1, <1>2, <1>3, <1>4, <1>5, <1>6, <1>7, <1>8, <1>9
        DEF Next, PollerStep

\* Flags and stages keep their types.
LEMMA FlagsStep == ASSUME Flags, [Next]_vars PROVE Flags'
<1> USE DEF Flags
<1>1. CASE GatewayChanges \/ Tick
    BY <1>1, Zenon DEF GatewayChanges, Tick, pageVars, pullVars, timerVars
<1>2. CASE PollerStep
    BY <1>2, Zenon DEF PollerStep, BeginFetch, RequestAnswered, RequestFails, Wakes,
                       Clears, pageVars, pullVars, timerVars
<1>3. CASE Click \/ BridgeRuns \/ LateCallRuns \/ VisibilityChanges \/ RefreshElsewhere
    BY <1>3, Zenon DEF Click, Call, BridgeRuns, LateCallRuns, VisibilityChanges,
                       Reschedule, RefreshElsewhere, backVars, pageVars, pullVars,
                       timerVars
<1>4. CASE TimerFires
    BY <1>4, Zenon DEF TimerFires, backVars, timerVars
<1>5. CASE PullRenders \/ PullTimesOut
    BY <1>5, Zenon DEF PullRenders, PullTimesOut, NextTurn, Call, backVars, timerVars
<1>6. CASE Restart
    BY <1>6, Zenon DEF Restart, Reschedule
<1>7. CASE UNCHANGED vars
    BY <1>7, Zenon DEF vars, pageVars, pullVars, timerVars
<1> QED BY <1>1, <1>2, <1>3, <1>4, <1>5, <1>6, <1>7 DEF Next, PageStep

\* Whatever ends a pull, stops a timer or begins a generation leaves a visible
\* page with a timer, or with a pull that sets one.
LEMMA PollingStep == ASSUME Flags, Polling, [Next]_vars PROVE Polling'
<1> USE DEF Polling
<1>1. CASE GatewayChanges \/ Tick \/ PollerStep
    <2>1. UNCHANGED <<pull, timer, chained, hidden>>
        BY <1>1 DEF GatewayChanges, Tick, PollerStep, BeginFetch, RequestAnswered,
                    RequestFails, Wakes, Clears, pageVars, pullVars, timerVars
    <2> QED BY <2>1, Zenon
<1>2. CASE Click
    BY <1>2, Zenon DEF Click, Call, timerVars
<1>3. CASE TimerFires
    BY <1>3, Zenon DEF TimerFires
<1>4. CASE BridgeRuns
    BY <1>4, Zenon DEF BridgeRuns, timerVars
<1>5. CASE PullRenders \/ PullTimesOut
    <2>1. NextTurn /\ pull # "idle"
        BY <1>5 DEF PullRenders, PullTimesOut
    <2>2. CASE queued
        BY <2>1, <2>2 DEF NextTurn, Call, timerVars
    <2>3. CASE ~queued
        <3>1. hidden' = hidden /\ timer' = (timer \/ (chained /\ ~hidden))
            BY <2>1, <2>3 DEF NextTurn
        <3> QED BY <3>1 DEF Flags
    <2> QED BY <2>2, <2>3
<1>6. CASE LateCallRuns \/ RefreshElsewhere
    <2>1. UNCHANGED <<pull, timer, chained, hidden>>
        BY <1>6 DEF LateCallRuns, RefreshElsewhere, pageVars, pullVars, timerVars
    <2> QED BY <2>1, Zenon
<1>7. CASE VisibilityChanges
    BY <1>7, Zenon DEF VisibilityChanges, Reschedule
<1>8. CASE Restart
    <2>1. PICK isHidden \in BOOLEAN : Reschedule(isHidden)
        BY <1>8 DEF Restart
    <2> QED BY <2>1 DEF Reschedule
<1>9. CASE UNCHANGED vars
    BY <1>9, Zenon DEF vars, pageVars, pullVars, timerVars
<1> QED BY <1>1, <1>2, <1>3, <1>4, <1>5, <1>6, <1>7, <1>8, <1>9 DEF Next, PageStep

\* The first state of the app, of its page and of its client.
LEMMA TypesInit == Init => Values /\ Flags /\ Polling
<1> SUFFICES ASSUME Init PROVE Values /\ Flags /\ Polling
    OBVIOUS
<1>1. Values
    <2>1. 0 \in 0 .. MaxVersion
        BY DelayTypes
    <2>2. Initial(0) \in Snapshots
        BY <2>1 DEF Initial, Snapshot, Snapshots
    <2> QED BY <2>1, <2>2, DelayTypes, BlankType DEF Init, PageStarts, Values
<1>2. Flags
    BY Zenon DEF Init, PageStarts, Flags
<1>3. Polling
    <2>1. hidden \in BOOLEAN /\ timer = ~hidden
        BY Zenon DEF Init, PageStarts
    <2> QED BY <2>1 DEF Polling
<1> QED BY <1>1, <1>2, <1>3

\* Type correctness; in particular schedulePoll and pull between them never
\* leave a visible page without a next poll.
THEOREM TypeCorrect == Spec => []TypeOK
<1>1. Values /\ Flags /\ Polling /\ [Next]_vars => (Values /\ Flags /\ Polling)'
    BY ValuesStep, FlagsStep, PollingStep
<1>2. Spec => [](Values /\ Flags /\ Polling)
    BY <1>1, TypesInit, PTL DEF Spec
<1> QED BY <1>2, TypeParts, PTL

-----------------------------------------------------------------------------
\* No step of the page, of a bridge call or of the worker loses a click that
\* no fetch has followed.
LEMMA RefreshStep == ASSUME RefreshNotLost, [Next]_vars PROVE RefreshNotLost'
<1> USE DEF RefreshNotLost
<1>1. CASE GatewayChanges \/ Tick
    BY <1>1, Zenon DEF GatewayChanges, Tick, pageVars, pullVars
<1>2. CASE PollerStep
    BY <1>2, Zenon DEF PollerStep, BeginFetch, RequestAnswered, RequestFails, Wakes,
                       Clears, pageVars, pullVars
<1>3. CASE Click
    BY <1>3, Zenon DEF Click, Call
<1>4. CASE TimerFires
    BY <1>4, Zenon DEF TimerFires, backVars
<1>5. CASE BridgeRuns
    BY <1>5, Zenon DEF BridgeRuns, backVars
<1>6. CASE PullRenders
    <2>1. pull # "sent"
        BY <1>6 DEF PullRenders
    <2> QED BY <1>6, <2>1, Zenon DEF PullRenders, NextTurn, Call, backVars
<1>7. CASE PullTimesOut
    BY <1>7, Zenon DEF PullTimesOut, NextTurn, Call, backVars
<1>8. CASE LateCallRuns \/ VisibilityChanges \/ RefreshElsewhere
    BY <1>8, Zenon DEF LateCallRuns, VisibilityChanges, RefreshElsewhere, backVars,
                       pageVars, pullVars
<1>9. CASE Restart \/ UNCHANGED vars
    BY <1>9, Zenon DEF Restart, vars, pageVars, pullVars
<1> QED BY <1>1, <1>2, <1>3, <1>4, <1>5, <1>6, <1>7, <1>8, <1>9 DEF Next, PageStep

\* A click on refresh is never lost, whatever the page, the bridge's threads
\* and the worker are doing.
THEOREM RefreshIsNotLost == Spec => []RefreshNotLost
<1>1. Init => RefreshNotLost
    BY Zenon DEF Init, RefreshNotLost
<1> QED BY <1>1, RefreshStep, PTL DEF Spec

-----------------------------------------------------------------------------
\* The snapshot is no newer than the last good answer, and neither that nor
\* its file is newer than what the gateway says.
DataOrdered == snap.data <= lastGood /\ lastGood <= gw /\ cache <= gw

\* Each step keeps that order, and does not make the snapshot older.
LEMMA DataStep ==
    ASSUME Values, DataOrdered, [Next]_vars
    PROVE  /\ DataOrdered'
           /\ snap'.data >= IF restarts' = restarts THEN snap.data ELSE cache
<1>1. /\ snap.data \in Nat /\ gw \in Nat /\ lastGood \in Nat /\ cache \in Nat
      /\ {gw, lastGood, cache} \subseteq 0 .. MaxVersion
    BY DelayTypes DEF Values, Snapshots
<1> USE <1>1 DEF DataOrdered
<1>2. CASE GatewayChanges \/ Tick \/ Wakes \/ Clears
    BY <1>2 DEF GatewayChanges, Tick, Wakes, Clears, clientVars
<1>3. CASE BeginFetch
    BY <1>3 DEF BeginFetch, clientVars, ForFailure, Snapshot
<1>4. CASE RequestAnswered
    BY <1>4 DEF RequestAnswered, Snapshot
<1>5. CASE RequestFails
    BY <1>5 DEF RequestFails, ForFailure, Snapshot
<1>6. CASE PageStep
    <2>1. UNCHANGED backVars
        BY <1>6 DEF PageStep, Click, TimerFires, BridgeRuns, PullRenders,
                    PullTimesOut, LateCallRuns, VisibilityChanges, RefreshElsewhere
    <2> QED BY <2>1 DEF backVars, clientVars
<1>7. CASE Restart
    <2>1. restarts' # restarts
        BY <1>7, DelayTypes DEF Restart, Values
    <2> QED BY <1>7, <2>1 DEF Restart, Initial, Snapshot
<1>8. CASE UNCHANGED vars
    BY <1>8 DEF vars, clientVars
<1> QED BY <1>2, <1>3, <1>4, <1>5, <1>6, <1>7, <1>8 DEF Next, PollerStep

\* The data on the board never goes back, over failures, backoffs and answers
\* of the gateway, and over a restart no further than to the file.
THEOREM DataRemains == Spec => LastDataRemains
<1>1. Init => DataOrdered
    BY DEF Init, DataOrdered, Initial, Snapshot
<1>2. Values /\ DataOrdered /\ [Next]_vars =>
          /\ DataOrdered'
          /\ [snap'.data >= IF restarts' = restarts THEN snap.data ELSE cache]_vars
    BY DataStep
<1>3. TypeOK => Values
    BY TypeParts
<1> QED BY <1>1, <1>2, <1>3, TypeCorrect, PTL DEF Spec, LastDataRemains
=============================================================================
