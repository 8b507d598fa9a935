---------------------------- MODULE DesktopRefresh ----------------------------
(***************************************************************************)
(* How data travels through the desktop board.  A worker thread polls the  *)
(* gateway (GatewayClient: backoff, last good answer, its file) and keeps  *)
(* one snapshot; the page polls that snapshot over the pywebview bridge,   *)
(* where every call runs in a thread of its own; the refresh button wakes  *)
(* the worker.  The gateway comes and goes, the page is hidden and shown,  *)
(* calls time out, and the application is quit and started again.          *)
(*                                                                         *)
(* An answer of the gateway is the version of what it says (0: nothing).   *)
(***************************************************************************)
EXTENDS Naturals, Sequences

CONSTANTS
    Delays,        \* RETRY_DELAYS_SECONDS, in Ticks
    MaxVersion,    \* bound: how often the gateway's data changes, plus one
    MaxRestarts    \* bound: how often the application is started again

ASSUME RefreshConstants ==
    /\ Delays \in Seq(Nat \ {0}) /\ Delays # <<>>
    /\ MaxVersion \in Nat \ {0} /\ MaxRestarts \in Nat

VARIABLES
    gw, up,        \* the gateway: what it says, and whether it answers
    failures,      \* _failures, up to the number of Delays
    backoff,       \* Ticks until _next_attempt_at
    lastGood,      \* _last_good
    cache,         \* last-good-dashboard.json
    poller,        \* where poll_forever stands
    wake,          \* the event _wake
    snap,          \* _snapshot of the controller
    pull, forced, reply,   \* pullInFlight: its bridge call until it runs, and
                           \* its answer until it is rendered
    queued,        \* forcePullQueued
    late,          \* a refresh call the page has given up on is still to run
    timer, chained, hidden,  \* timer; a timer's callback of this
                             \* pollGeneration awaits the pull; document.hidden
    shown,         \* what the page shows
    owed,          \* history: no fetch has begun since the last click
    restarts

clientVars == <<failures, backoff, lastGood, cache>>
pullVars == <<pull, forced, reply, queued>>
timerVars == <<timer, chained, hidden>>
pageVars == <<pullVars, late, timerVars, shown>>
vars == <<gw, up, clientVars, poller, wake, snap, pageVars, owed, restarts>>

Snapshot(data, stale) == [data |-> data, stale |-> stale]
Blank == Snapshot(0, FALSE)

\* initial_snapshot
Initial(good) == Snapshot(good, good # 0)

\* main and start(): a fresh page, the first poll at once if it is visible.
PageStarts ==
    /\ pull = "idle" /\ forced = FALSE /\ reply = Blank
    /\ queued = FALSE /\ late = FALSE
    /\ hidden \in BOOLEAN /\ timer = ~hidden /\ chained = FALSE
    /\ shown = Blank

Init ==
    /\ gw = 1 /\ up \in BOOLEAN
    /\ cache = 0 /\ lastGood = 0 /\ failures = 0 /\ backoff = 0
    /\ snap = Initial(0) /\ poller = "fetch"
    /\ wake = FALSE /\ PageStarts
    /\ owed = FALSE /\ restarts = 0

-----------------------------------------------------------------------------
(* The gateway and time.                                                   *)

GatewayChanges ==
    /\ \/ gw < MaxVersion /\ gw' = gw + 1 /\ UNCHANGED up
       \/ up' = ~up /\ UNCHANGED gw
    /\ UNCHANGED <<clientVars, poller, wake, snap, pageVars, owed, restarts>>

Tick ==
    /\ backoff > 0
    /\ backoff' = backoff - 1
    /\ UNCHANGED <<gw, up, failures, lastGood, cache, poller, wake, snap,
                   pageVars, owed, restarts>>

-----------------------------------------------------------------------------
(* GatewayClient and poll_forever.                                         *)

\* Variant of ForFailure that has nothing to show.
ForFailureEmpty(good) == Snapshot(0, FALSE)

\* _snapshot_for_failure
ForFailure(good) == Snapshot(good, good # 0)

\* Variant of BeginFetch that counts a fetch during a backoff as a failure.
BeginFetchFailing ==
    /\ poller = "fetch"
    /\ IF backoff > 0
       THEN /\ poller' = "waiting" /\ snap' = ForFailure(lastGood)
            /\ backoff' = Delays[failures]
       ELSE poller' = "requesting" /\ UNCHANGED <<snap, backoff>>
    /\ owed' = FALSE
    /\ UNCHANGED <<gw, up, failures, lastGood, cache, wake, pageVars, restarts>>

\* fetch, by the only thread that calls it, and apply: no request during a
\* backoff.
BeginFetch ==
    /\ poller = "fetch"
    /\ IF backoff > 0
       THEN poller' = "waiting" /\ snap' = ForFailure(lastGood)
       ELSE poller' = "requesting" /\ UNCHANGED snap
    /\ owed' = FALSE
    /\ UNCHANGED <<gw, up, clientVars, wake, pageVars, restarts>>

\* An answer that passes _valid_dashboard_data; saving it may fail.
RequestAnswered ==
    /\ poller = "requesting" /\ up
    /\ failures' = 0 /\ backoff' = 0
    /\ lastGood' = gw
    /\ cache' \in {cache, gw}
    /\ snap' = Snapshot(gw, FALSE)
    /\ poller' = "waiting"
    /\ UNCHANGED <<gw, up, wake, pageVars, owed, restarts>>

\* _failure: no connection, a timeout, a status, a payload that is invalid.
RequestFails ==
    /\ poller = "requesting" /\ ~up
    /\ failures' = IF failures = Len(Delays) THEN failures ELSE failures + 1
    /\ backoff' = Delays[failures']
    /\ snap' = ForFailure(lastGood)
    /\ poller' = "waiting"
    /\ UNCHANGED <<gw, up, lastGood, cache, wake, pageVars, owed, restarts>>

\* _wake.wait(POLL_SECONDS) returns, for the event or for the time.
Wakes ==
    /\ poller = "waiting"
    /\ poller' = "clearing"
    /\ UNCHANGED <<gw, up, clientVars, wake, snap, pageVars, owed, restarts>>

Clears ==
    /\ poller = "clearing"
    /\ wake' = FALSE
    /\ poller' = "fetch"
    /\ UNCHANGED <<gw, up, clientVars, snap, pageVars, owed, restarts>>

PollerStep ==
    BeginFetch \/ RequestAnswered \/ RequestFails \/ Wakes \/ Clears

-----------------------------------------------------------------------------
(* The page: pull and schedulePoll.                                        *)

backVars == <<gw, up, clientVars, poller, snap, restarts>>

\* The loop in pull takes a turn: what is queued now is what it asks for.
Call(force) ==
    /\ pull' = "sent" /\ forced' = force /\ queued' = FALSE /\ reply' = Blank
    /\ UNCHANGED timerVars

\* schedulePoll(0), called when the page is shown or hidden, and the next
\* generation: a callback that still awaits sets no timer any more.
Reschedule(isHidden) ==
    /\ hidden' = isHidden /\ timer' = ~isHidden /\ chained' = FALSE

\* pull(true)
Click ==
    /\ owed' = TRUE
    /\ IF pull = "idle"
       THEN Call(TRUE)
       ELSE queued' = TRUE /\ UNCHANGED <<pull, forced, reply, timerVars>>
    /\ UNCHANGED <<backVars, wake, late, shown>>

\* The timer's callback: pull(false), which joins a pull that is in flight.
TimerFires ==
    /\ timer
    /\ timer' = FALSE /\ chained' = TRUE
    /\ IF pull = "idle"
       THEN pull' = "sent" /\ forced' = queued /\ queued' = FALSE
       ELSE UNCHANGED <<pull, forced, queued>>
    /\ UNCHANGED <<backVars, wake, reply, late, hidden, shown, owed>>

\* bridge.refresh() or bridge.snapshot() runs in its thread.
BridgeRuns ==
    /\ pull = "sent"
    /\ wake' = (wake \/ forced)
    /\ reply' = snap /\ forced' = FALSE
    /\ pull' = "replied"
    /\ UNCHANGED <<backVars, queued, late, timerVars, shown, owed>>

\* Variant of NextTurn that forgets what was queued meanwhile.
NextTurnForgetting ==
    /\ pull' = "idle" /\ queued' = FALSE
    /\ timer' = (timer \/ (chained /\ ~hidden)) /\ chained' = FALSE
    /\ forced' = FALSE /\ reply' = Blank
    /\ UNCHANGED hidden

\* while (forcePullQueued), and otherwise the end of the pull, after which a
\* callback of this generation sets the next timer.
NextTurn ==
    IF queued
    THEN Call(TRUE)
    ELSE /\ pull' = "idle"
         /\ timer' = (timer \/ (chained /\ ~hidden)) /\ chained' = FALSE
         /\ forced' = FALSE /\ reply' = Blank
         /\ UNCHANGED <<queued, hidden>>

PullRenders ==
    /\ pull = "replied"
    /\ shown' = reply
    /\ NextTurn
    /\ UNCHANGED <<backVars, wake, late, owed>>

\* bridgePollWithTimeout gives up, before or after the call has run; a call
\* that has not run yet goes on.
PullTimesOut ==
    /\ pull # "idle"
    /\ late' = (late \/ (pull = "sent" /\ forced))
    /\ NextTurn
    /\ UNCHANGED <<backVars, wake, shown, owed>>

LateCallRuns ==
    /\ late
    /\ late' = FALSE /\ wake' = TRUE
    /\ UNCHANGED <<backVars, pullVars, timerVars, shown, owed>>

\* Variant of VisibilityChanges that only stops the timer of a hidden page.
VisibilityChangesStopping ==
    /\ hidden' = ~hidden /\ chained' = FALSE
    /\ timer' = (timer /\ ~hidden')
    /\ UNCHANGED <<backVars, wake, pullVars, late, shown, owed>>

VisibilityChanges ==
    /\ Reschedule(~hidden)
    /\ UNCHANGED <<backVars, wake, pullVars, late, shown, owed>>

\* "refresh" of the tray's menu, and of the page of a card.
RefreshElsewhere ==
    /\ owed' = TRUE /\ wake' = TRUE
    /\ UNCHANGED <<backVars, pageVars>>

PageStep ==
    \/ Click \/ TimerFires \/ BridgeRuns \/ PullRenders \/ PullTimesOut
    \/ LateCallRuns \/ VisibilityChanges \/ RefreshElsewhere

-----------------------------------------------------------------------------

\* The application is quit, or dies, and is started again.
Restart ==
    /\ restarts < MaxRestarts
    /\ restarts' = restarts + 1
    /\ lastGood' = cache /\ failures' = 0 /\ backoff' = 0
    /\ snap' = Initial(cache) /\ poller' = "fetch"
    /\ wake' = FALSE /\ owed' = FALSE
    /\ pull' = "idle" /\ forced' = FALSE /\ reply' = Blank
    /\ queued' = FALSE /\ late' = FALSE
    /\ \E isHidden \in BOOLEAN : Reschedule(isHidden)
    /\ shown' = Blank
    /\ UNCHANGED <<gw, up, cache>>

Next ==
    GatewayChanges \/ Tick \/ PollerStep \/ PageStep \/ Restart

\* Threads, timers and time go on.  A bridge call takes far less than the
\* eight seconds it is given, so it is not overtaken by its timeout for ever.
Spec ==
    /\ Init /\ [][Next]_vars
    /\ WF_vars(Tick) /\ WF_vars(PollerStep)
    /\ WF_vars(TimerFires) /\ SF_vars(BridgeRuns) /\ SF_vars(PullRenders)

-----------------------------------------------------------------------------
(* Properties.                                                             *)

Snapshots == [data : 0 .. MaxVersion, stale : BOOLEAN]

\* Types, and a visible page has a timer, or a pull in flight whose end sets
\* one.
TypeOK ==
    /\ {gw, lastGood, cache} \subseteq 0 .. MaxVersion
    /\ failures \in 0 .. Len(Delays) /\ backoff \in Nat
    /\ poller \in {"fetch", "requesting", "waiting", "clearing"}
    /\ {snap, reply, shown} \subseteq Snapshots
    /\ pull \in {"idle", "sent", "replied"}
    /\ {up, wake, forced, queued, late, timer, chained, hidden, owed} \subseteq BOOLEAN
    /\ restarts \in 0 .. MaxRestarts
    /\ hidden => ~timer
    /\ ~hidden => timer \/ (chained /\ pull # "idle")

\* "Requests a fresh snapshot [...]; overlapping refreshes are coalesced"
\* (docs/desktop.md:104), never lost: until a fetch has begun after the last
\* click, the click is queued in the page, or a bridge call that will set the
\* event is under way, or the event is set, or the worker is past clearing it.
RefreshNotLost ==
    owed => \/ queued
            \/ (pull = "sent" /\ forced)
            \/ late
            \/ wake
            \/ poller = "fetch"

\* "The last valid data remains visible" (docs/desktop.md:108): whatever fails,
\* the snapshot never goes back to older data or to none, and a restart goes
\* back no further than the file.
LastDataRemains ==
    [][snap'.data >= IF restarts' = restarts THEN snap.data ELSE cache]_vars

\* When the gateway goes on answering and the page stays visible, the page
\* comes to show just what the gateway says, and goes on showing it: no answer
\* that was overtaken stays on the screen, and no backoff, lost timer or lost
\* call keeps it from catching up.
PageCatchesUp == <>[](up /\ ~hidden) => <>[](shown = Snapshot(gw, FALSE))
=============================================================================
