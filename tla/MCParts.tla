--------------------------------- MODULE MCParts ---------------------------------
(* The parts that stand alone, of the gateway, the desktop app and the cloud  *)
(* sync agent, one run for them all.  They share no state, so a behaviour *)
(* is one of one part, and the reachable states are those of the parts side   *)
(* by side, not their product.  Each part keeps its variables in the same     *)
(* registers, which makes a state as small as that of one part.               *)
EXTENDS Integers, Sequences, FiniteSets, TLC

VARIABLES part,     \* the part this behaviour is of
          r1, r2, r3, r4, r5, r6, r7, r8, r9, r10, r11, r12, r13, r14, r15, r16,
          r17, r18, r19, r20, r21, r22, r23

CONSTANTS Order, Journals, Tools, StaleAfter
Sync == INSTANCE CloudSync WITH
    syncPc <- r1, position <- r2, wanted <- r3, todo <- r4, snapshots <- r5,
    attempted <- r6, synced <- r7, statuses <- r8, file <- r9, cloud <- r10

CONSTANTS Sessions, Modules, Rank, Enabled, Nobody, MaxLeaks
Lifecycle == INSTANCE GatewayLifecycle WITH
    at <- r1, lock <- r2, users <- r3, ready <- r4, remaining <- r5, running <- r6,
    loadErrors <- r7, calling <- r8, restarting <- r9, restartPc <- r10,
    leaked <- r11, astray <- r12

CONSTANTS Claimants, Payloads, ClaimTtl, MaxTime, NoPayload
Claim == INSTANCE IdempotencyStore WITH
    clock <- r1, record <- r2, claimPc <- r3, payload <- r4, began <- r5,
    inserted <- r6, given <- r7, overrun <- r8

CONSTANTS Calls, Threshold, Recovery
Breaker == INSTANCE CircuitBreaker WITH
    state <- r1, failures <- r2, sinceOpened <- r3, waiting <- r4, row <- r5,
    quiet <- r6

CONSTANTS Configs, Missing, Ttl, ToolTtl, FailTtl, Budget, ScanMax, Slots, MaxUnrest
Hub == INSTANCE WidgetHub WITH
    config <- r1, cache <- r2, runs <- r3, awaited <- r4, answer <- r5, asked <- r6,
    unrest <- r7

CONSTANTS Cards, Users, Startup, Places, Home, Nowhere, Replays, MaxOps
CardPart == INSTANCE DesktopCards WITH
    windows <- r1, visible <- r2, layout <- r3, file <- r4, timer <- r5,
    armed <- r6, suppressed <- r7, shown <- r8, widgets <- r9, event <- r10,
    pc <- r11, job <- r12, card <- r13, target <- r14, todo <- r15, pass <- r16,
    running <- r17, wanted <- r18, raced <- r19, spoiled <- r20, failed <- r21,
    unsaved <- r22, ops <- r23

CONSTANTS Trackers, NoTracker, Cursors, Minimum, First
Window == INSTANCE NativeWindow WITH
    alive <- r1, hooked <- r2, span <- r3, cursor <- r4, button <- r5,
    session <- r6, stage <- r7, cancelled <- r8, seen <- r9, grip <- r10,
    target <- r11

CONSTANTS tab1, tab2, Tabs, NoKey, OtherKey, MaxUpdates, MaxRevision
Profile == INSTANCE ProfileStore WITH
    MaxOps <- MaxUpdates,
    key <- r1, cursor <- r2, entity <- r3, outbox <- r4, boot <- r5, pc <- r6,
    had <- r7, call <- r8, authority <- r9, accepted <- r10, made <- r11,
    crossed <- r12, doubled <- r13

ASSUME PartsAssumption ==
    /\ Sync!SyncConstants
    /\ Lifecycle!LifecycleConstants /\ Claim!ClaimConstants /\ Breaker!BreakerConstants
    /\ Hub!HubConstants /\ CardPart!CardsConstants /\ Window!WindowConstants
    /\ Profile!ProfileConstants

\* The tabs are interchangeable.
Symmetry == Permutations({tab1, tab2})

\* The registers that a part with fewer variables leaves alone.
from14 == <<r14, r15, r16, r17, r18, r19, r20, r21, r22, r23>>
from13 == <<r13, from14>>
from12 == <<r12, from13>>
from11 == <<r11, from12>>
from9 == <<r9, r10, from11>>
from8 == <<r8, from9>>
from7 == <<r7, from8>>
registers == <<r1, r2, r3, r4, r5, r6, from7>>

Blank14 == r14 = "-" /\ r15 = "-" /\ r16 = "-" /\ r17 = "-" /\ r18 = "-" /\
            r19 = "-" /\ r20 = "-" /\ r21 = "-" /\ r22 = "-" /\ r23 = "-"
Blank13 == r13 = "-" /\ Blank14
Blank12 == r12 = "-" /\ Blank13
Blank11 == r11 = "-" /\ Blank12
Blank9 == r9 = "-" /\ r10 = "-" /\ Blank11
Blank8 == r8 = "-" /\ Blank9
Blank7 == r7 = "-" /\ Blank8

PartsInit ==
    \/ part = "sync" /\ Sync!Init /\ Blank11
    \/ part = "lifecycle" /\ Lifecycle!Init /\ Blank13
    \/ part = "claim" /\ Claim!Init /\ Blank9
    \/ part = "breaker" /\ Breaker!Init /\ Blank7
    \/ part = "hub" /\ Hub!Init /\ Blank8
    \/ part = "cards" /\ CardPart!Init
    \/ part = "window" /\ Window!Init /\ Blank12
    \/ part = "profile" /\ Profile!Init /\ Blank14

PartsNext ==
    /\ part' = part
    /\ \/ part = "sync" /\ Sync!Next /\ UNCHANGED from11
       \/ part = "lifecycle" /\ Lifecycle!Next /\ UNCHANGED from13
       \/ part = "claim" /\ Claim!Next /\ UNCHANGED from9
       \/ part = "breaker" /\ Breaker!Next /\ UNCHANGED from7
       \/ part = "hub" /\ Hub!Next /\ UNCHANGED from8
       \/ part = "cards" /\ CardPart!Next
       \/ part = "window" /\ Window!Next /\ UNCHANGED from12
       \/ part = "profile" /\ Profile!Next /\ UNCHANGED from14

PartsSpec == PartsInit /\ [][PartsNext]_<<part, registers>>

MCOrder == <<"foxlink", "journal">>
MCRank == [m \in Modules |-> IF m = "m1" THEN 1 ELSE 2]
Entry(type, tool, complete) == [type |-> type, tool |-> tool, complete |-> complete]
MCConfigs == {Entry("text", "", TRUE), Entry("agenda", "", TRUE),
              Entry("projects", "", TRUE), Entry("projects", "", FALSE),
              Entry("mcp", "foxlink_get_today_summary", TRUE),
              Entry("mcp", "foxlink_get_current_session", TRUE), Entry("remote", "", TRUE)}
MCTtl == [text |-> 3, agenda |-> 2, projects |-> 3, remote |-> 0, mcp |-> 3]
MCToolTtl == [foxlink_get_current_session |-> 1]
MCBudget == [text |-> 1, agenda |-> 1, projects |-> 1, remote |-> 1, mcp |-> 1]
MCFirst == <<0, 4>>

-----------------------------------------------------------------------------
\* The types of every part.
PartsTypeOK ==
    /\ part = "sync" => Sync!TypeOK
    /\ part = "lifecycle" => Lifecycle!TypeOK
    /\ part = "claim" => Claim!TypeOK
    /\ part = "breaker" => Breaker!TypeOK
    /\ part = "hub" => Hub!TypeOK
    /\ part = "cards" => CardPart!TypeOK
    /\ part = "window" => Window!TypeOK
    /\ part = "profile" => Profile!TypeOK

\* Cloud sync: what the dashboard calls fresh, the mirror holds.
FreshIsHeld == part = "sync" => Sync!FreshIsHeld

\* Lifecycle: a tool call only ever is in a module that has been started.
CallsReachStarted == part = "lifecycle" => Lifecycle!CallsReachStarted

\* Lifecycle: the last session's stop leaves nothing running.
LastOneStops == part = "lifecycle" => Lifecycle!LastOneStops

\* Idempotency: one owner at a time, and no answer of another payload.
ClaimIsExclusive == part = "claim" => Claim!ClaimIsExclusive

\* Circuit breaker: a dependency that has failed is left alone.
SickIsLeftAlone == [][part = "breaker" => Breaker!LeftAlone]_registers

\* Widgets: what a card shows is of its entry and recent.
ShownIsRecent == part = "hub" => Hub!ShownIsRecent

\* Widgets: abandoned scans do not pile up.
ScansBounded == part = "hub" => Hub!ScansBounded

\* Cards: just those are shown that the user left visible.
VisibleAsSaved == part = "cards" => CardPart!VisibleAsSaved

\* Cards: each is remembered where it was left.
RememberedAsLeft == part = "cards" => CardPart!RememberedAsLeft

\* Window: the table reaches every drag that goes on.
OneDragGoesOn == part = "window" => Window!OneDragGoesOn

\* Profile: an update stays in the outbox until the authority has taken it, and
\* the profile is one of the two, not behind the cursor.
OutboxPreserved == part = "profile" => Profile!OutboxPreserved
=============================================================================
