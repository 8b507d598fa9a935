------------------------------ MODULE PartsProofs ------------------------------
(* Proofs about the parts that stand alone, for any number of tools, sessions, *)
(* modules, claimants, calls, widgets, cards, threads and trackers, and any    *)
(* budgets and limits: the types of each part and what the run of MCParts      *)
(* checks of it.  A behaviour is one of one part, so each is argued by itself: *)
(* a step of the behaviour is a step of the part (XStep), the part's inductive *)
(* invariant holds at first (XInit), every action keeps it, and so it always   *)
(* holds (XAlways).  The proofs name registers; each section lists what a part *)
(* keeps in them.                                                              *)
EXTENDS MCParts, FiniteSetTheorems, TLAPS

-----------------------------------------------------------------------------
(* The management window.  alive r1, hooked r2, span r3, cursor r4, button r5, *)
(* session r6, stage r7, cancelled r8, seen r9, grip r10, target r11.          *)

\* A step of the behaviour is one of the window.
LEMMA WindowStep ==
    ASSUME part = "window", [PartsNext]_<<part, registers>>
    PROVE  part' = "window" /\ [Window!Next]_(Window!vars)
BY DEF PartsNext, registers, from7, from8, from9, from11, from12, from13, from14,
       Window!vars, Window!windowVars, Window!pointerVars, Window!trackerVars

\* What a tracker makes of the window is no smaller than the least size.
LEMMA ResizedIsSpan ==
    ASSUME PartsAssumption,
           NEW g \in [side : Window!Sides, span : Window!Spans, start : Int], NEW x \in Int
    PROVE  Window!Resized(g, x) \in Window!Spans
<1> DEFINE delta == x - g.start
           near == IF g.side = "near" THEN g.span[1] + delta ELSE g.span[1]
           far == IF g.side = "far" THEN g.span[2] + delta ELSE g.span[2]
<1>1. near \in Int /\ far \in Int /\ Minimum \in Nat
    BY DEF PartsAssumption, Window!WindowConstants, Window!Spans
<1> QED BY <1>1 DEF Window!Resized, Window!Spans

\* The types: a grab records what the drag starts from, and each resize of the
\* tracker gives a span again (resize_target_rect, native_window.py).
LEMMA WindowTypes ==
    ASSUME Window!TypeOK, [Window!Next]_(Window!vars) PROVE Window!TypeOK'
<1> USE PartsAssumption DEF Window!WindowConstants, Window!TypeOK, Window!Goes, Window!Stages
<1> USE DEF Window!windowVars, Window!pointerVars, Window!trackerVars
<1>1. CASE UNCHANGED Window!vars
    BY <1>1 DEF Window!vars
<1>2. ASSUME NEW k \in Trackers, NEW side \in Window!Sides, Window!Grab(k, side)
      PROVE  Window!TypeOK'
    BY <1>2 DEF Window!Grab
<1>3. ASSUME NEW k \in Trackers, Window!Register(k) PROVE Window!TypeOK'
    BY <1>3 DEF Window!Register
<1>4. ASSUME NEW k \in Trackers, Window!LooksAtEvent(k) PROVE Window!TypeOK'
    BY <1>4 DEF Window!LooksAtEvent
<1>5. ASSUME NEW k \in Trackers, Window!LooksAtButton(k) PROVE Window!TypeOK'
    <2>1. Window!Resized(r10[k], r4) \in Window!Spans
        BY ResizedIsSpan
    <2>2. CASE r5
        <3>1. /\ r9' = [r9 EXCEPT ![k] = TRUE]
              /\ r11' = [r11 EXCEPT ![k] = Window!Resized(r10[k], r4)]
              /\ \E place \in {"going", "moving"} : Window!Goes(k, place)
              /\ UNCHANGED <<Window!windowVars, r3, Window!pointerVars, r6, r8, r10>>
            BY <1>5, <2>2, Zenon DEF Window!LooksAtButton
        <3>2. r11' \in [Trackers -> Window!Spans]
            BY <2>1, <3>1
        <3>3. r7' \in [Trackers -> Window!Stages] /\ r9' \in [Trackers -> BOOLEAN]
            BY <3>1
        <3> QED BY <3>1, <3>2, <3>3
    <2>3. CASE ~r5
        BY <1>5, <2>3 DEF Window!LooksAtButton
    <2> QED BY <2>2, <2>3
<1>6. ASSUME NEW k \in Trackers, Window!Moves(k) PROVE Window!TypeOK'
    BY <1>6 DEF Window!Moves
<1>7. ASSUME NEW k \in Trackers, Window!Leaves(k) PROVE Window!TypeOK'
    BY <1>7 DEF Window!Leaves
<1>8. CASE Window!EnableResize \/ Window!Destroyed
    BY <1>8 DEF Window!EnableResize, Window!Destroyed
<1>9. CASE Window!Point
    BY <1>9 DEF Window!Point
<1> QED BY <1>1, <1>2, <1>3, <1>4, <1>5, <1>6, <1>7, <1>8, <1>9 DEF Window!Next, Window!TrackerStep

\* No tracker clears the table of a session that is not its own, and one whose
\* session is replaced has been cancelled before (_track_window_resize,
\* begin_window_resize).
LEMMA WindowDrags ==
    ASSUME Window!TypeOK, Window!OneDragGoesOn, [Window!Next]_(Window!vars)
    PROVE  Window!OneDragGoesOn'
<1> USE PartsAssumption DEF Window!WindowConstants, Window!TypeOK, Window!Goes, Window!Stages
<1> USE DEF Window!OneDragGoesOn, Window!Tracking
<1>1. CASE UNCHANGED Window!vars \/ Window!EnableResize \/ Window!Point
    BY <1>1 DEF Window!vars, Window!windowVars, Window!pointerVars, Window!trackerVars,
                Window!EnableResize, Window!Point
<1>2. ASSUME NEW k \in Trackers, NEW side \in Window!Sides, Window!Grab(k, side)
      PROVE  Window!OneDragGoesOn'
    BY <1>2 DEF Window!Grab
<1>3. ASSUME NEW k \in Trackers, Window!Register(k) PROVE Window!OneDragGoesOn'
    BY <1>3 DEF Window!Register
<1>4. ASSUME NEW k \in Trackers,
             Window!LooksAtEvent(k) \/ Window!LooksAtButton(k) \/ Window!Moves(k)
      PROVE  Window!OneDragGoesOn'
    BY <1>4 DEF Window!LooksAtEvent, Window!LooksAtButton, Window!Moves
<1>5. ASSUME NEW k \in Trackers, Window!Leaves(k) PROVE Window!OneDragGoesOn'
    BY <1>5 DEF Window!Leaves
<1>6. CASE Window!Destroyed
    BY <1>6 DEF Window!Destroyed, Window!Idle, Window!trackerVars
<1> QED BY <1>1, <1>2, <1>3, <1>4, <1>5, <1>6 DEF Window!Next, Window!TrackerStep

\* At first nothing is dragged.
LEMMA WindowInit == ASSUME Window!Init PROVE Window!TypeOK /\ Window!OneDragGoesOn
<1> USE PartsAssumption DEF Window!WindowConstants
<1>1. First \in Window!Spans
    BY DEF Window!Spans
<1>2. Window!NoGrip \in [side : Window!Sides, span : Window!Spans, start : Int]
    BY <1>1 DEF Window!NoGrip, Window!Sides
<1> QED BY <1>1, <1>2 DEF Window!Init, Window!TypeOK, Window!OneDragGoesOn,
                          Window!Tracking, Window!Stages

\* The inductive invariant: the property is inductive as it stands, given the types.
WindowInv == part = "window" => Window!TypeOK /\ Window!OneDragGoesOn

\* Types and table hold of the window at all times.
LEMMA WindowInvAlways == PartsSpec => []WindowInv
<1>1. PartsInit => WindowInv
    BY WindowInit DEF PartsInit, WindowInv
<1>2. WindowInv /\ [PartsNext]_<<part, registers>> => WindowInv'
    BY WindowStep, WindowTypes, WindowDrags DEF WindowInv, PartsNext, registers
<1> QED BY <1>1, <1>2, PTL DEF PartsSpec

\* The table of drags reaches every drag that goes on, however presses, releases,
\* lost captures and tracker threads interleave: a drag the table has lost could
\* not be cancelled.
THEOREM OneDrag == PartsSpec => []OneDragGoesOn
<1>1. WindowInv => OneDragGoesOn
    BY DEF WindowInv, OneDragGoesOn
<1> QED BY <1>1, WindowInvAlways, PTL

-----------------------------------------------------------------------------
(* The circuit breaker.  state r1, failures r2, sinceOpened r3, waiting r4,    *)
(* row r5, quiet r6.                                                           *)

\* A step of the behaviour is one of the breaker.
LEMMA BreakerStep ==
    ASSUME part = "breaker", [PartsNext]_<<part, registers>>
    PROVE  part' = "breaker" /\ [Breaker!Next]_(Breaker!vars)
BY DEF PartsNext, registers, from7, from8, from9, from11, from12, from13, from14, Breaker!vars

\* At first no call has failed.
LEMMA BreakerInit == ASSUME Breaker!Init PROVE Breaker!BreakerInv
BY PartsAssumption DEF PartsAssumption, Breaker!BreakerConstants, Breaker!Init,
   Breaker!BreakerInv, Breaker!TypeOK

\* The count of failures is that of the calls that failed in a row, and from the
\* threshold on the circuit was opened when the last one did (failure).
LEMMA BreakerNext ==
    ASSUME Breaker!BreakerInv, [Breaker!Next]_(Breaker!vars) PROVE Breaker!BreakerInv'
<1> USE PartsAssumption DEF PartsAssumption, Breaker!BreakerConstants, Breaker!BreakerInv,
        Breaker!TypeOK, Breaker!Upto
<1>1. CASE UNCHANGED Breaker!vars
    BY <1>1 DEF Breaker!vars
<1>2. CASE Breaker!Tick
    BY <1>2 DEF Breaker!Tick
<1>3. ASSUME NEW c \in Calls, Breaker!Pass(c) PROVE Breaker!BreakerInv'
    BY <1>3 DEF Breaker!Pass
<1>4. ASSUME NEW c \in Calls, Breaker!Success(c) PROVE Breaker!BreakerInv'
    BY <1>4 DEF Breaker!Success
<1>5. ASSUME NEW c \in Calls, Breaker!Failure(c) PROVE Breaker!BreakerInv'
    BY <1>5 DEF Breaker!Failure
<1>6. ASSUME NEW c \in Calls, Breaker!Drop(c) PROVE Breaker!BreakerInv'
    BY <1>6 DEF Breaker!Drop
<1> QED BY <1>1, <1>2, <1>3, <1>4, <1>5, <1>6 DEF Breaker!Next

\* The inductive invariant of the breaker's behaviours.
BreakerPart == part = "breaker" => Breaker!BreakerInv

\* It holds of the breaker at all times.
LEMMA BreakerAlways == PartsSpec => []BreakerPart
<1>1. PartsInit => BreakerPart
    BY BreakerInit DEF PartsInit, BreakerPart
<1>2. BreakerPart /\ [PartsNext]_<<part, registers>> => BreakerPart'
    BY BreakerStep, BreakerNext DEF BreakerPart, PartsNext, registers
<1> QED BY <1>1, <1>2, PTL DEF PartsSpec

\* However many calls are under way and in whatever order they end, no call is let
\* through to a dependency that has failed Threshold times in a row before Recovery
\* has passed since the last failure (before_call, failure).
THEOREM SickLeftAlone == PartsSpec => SickIsLeftAlone
<1>1. ASSUME BreakerPart, part = "breaker", NEW c \in Calls, Breaker!Pass(c)
      PROVE  r5 < Threshold \/ r6 = Recovery
    BY <1>1, PartsAssumption DEF PartsAssumption, Breaker!BreakerConstants, BreakerPart,
       Breaker!BreakerInv, Breaker!TypeOK, Breaker!Pass
<1>2. BreakerPart => (part = "breaker" => Breaker!LeftAlone)
    BY <1>1 DEF Breaker!LeftAlone
<1>3. BreakerPart /\ [PartsNext]_<<part, registers>>
          => [part = "breaker" => Breaker!LeftAlone]_registers
    BY <1>2
<1> QED BY <1>3, BreakerAlways, PTL DEF PartsSpec, SickIsLeftAlone

-----------------------------------------------------------------------------

-----------------------------------------------------------------------------
(* The idempotency store.  clock r1, record r2, claimPc r3, payload r4,        *)
(* began r5, inserted r6, given r7, overrun r8.                                *)

\* A step of the behaviour is one of the store.
LEMMA ClaimStep ==
    ASSUME part = "claim", [PartsNext]_<<part, registers>>
    PROVE  part' = "claim" /\ [Claim!Next]_(Claim!vars)
BY DEF PartsNext, registers, from7, from8, from9, from11, from12, from13, from14, Claim!vars

\* At first there is no row and nobody claims.
LEMMA ClaimInit == ASSUME Claim!Init PROVE Claim!ClaimInv
<1>1. Claim!NoRow \in Claim!Rows /\ 0 \in 0 .. MaxTime
    BY PartsAssumption DEF PartsAssumption, Claim!ClaimConstants, Claim!NoRow,
       Claim!Rows, Claim!MaybePayload
<1>2. r1 = 0 /\ r2 = Claim!NoRow /\ r8 \in BOOLEAN
    BY DEF Claim!Init
<1>3. r4 \in [Claimants -> Claim!MaybePayload] /\ r7 \in [Claimants -> Claim!MaybePayload]
    BY DEF Claim!Init, Claim!MaybePayload
<1>4. /\ r3 \in [Claimants -> {"idle", "delete", "insert", "select", "work"}]
      /\ r6 \in [Claimants -> BOOLEAN]
    BY DEF Claim!Init
<1>5. r5 \in [Claimants -> 0 .. r1]
    BY DEF Claim!Init
<1>6. Claim!TypeOK
    BY <1>1, <1>2, <1>3, <1>4, <1>5 DEF Claim!TypeOK
<1> QED BY <1>6 DEF Claim!Init, Claim!NoRow, Claim!ClaimInv, Claim!Inserters,
                    Claim!RowIsKept, Claim!Owners, Claim!ClaimIsExclusive

\* The types, step by step.
LEMMA ClaimTypes ==
    ASSUME Claim!TypeOK, [Claim!Next]_(Claim!vars) PROVE Claim!TypeOK'
<1> USE PartsAssumption DEF PartsAssumption, Claim!ClaimConstants, Claim!TypeOK, Claim!NoRow,
        Claim!Rows, Claim!MaybePayload, Claim!Goes
<1>1. CASE UNCHANGED Claim!vars
    BY <1>1 DEF Claim!vars
<1>2. CASE Claim!Tick
    BY <1>2 DEF Claim!Tick
<1>3. ASSUME NEW c \in Claimants, NEW p \in Payloads, Claim!Claim(c, p) PROVE Claim!TypeOK'
    BY <1>3 DEF Claim!Claim
<1>4. ASSUME NEW c \in Claimants, Claim!DeleteExpired(c) PROVE Claim!TypeOK'
    BY <1>4 DEF Claim!DeleteExpired
<1>5. ASSUME NEW c \in Claimants, Claim!InsertOrIgnore(c) PROVE Claim!TypeOK'
    <2>1. r2' = r2 \/ r2' = [hash |-> r4[c], status |-> "in_progress",
                            result |-> NoPayload, expires |-> r5[c] + ClaimTtl]
        BY <1>5 DEF Claim!InsertOrIgnore
    <2>2. r2' \in Claim!Rows
        BY <2>1
    <2> QED BY <1>5, <2>2 DEF Claim!InsertOrIgnore, Claim!Overrunning
<1>6. ASSUME NEW c \in Claimants, Claim!Select(c) PROVE Claim!TypeOK'
    <2>1. r3' \in [Claimants -> {"idle", "delete", "insert", "select", "work"}]
        BY <1>6 DEF Claim!Select, Claim!Answered
    <2>2. r7' \in [Claimants -> Claim!MaybePayload]
        BY <1>6 DEF Claim!Select, Claim!Answered
    <2>3. r6' \in [Claimants -> BOOLEAN]
        BY <1>6 DEF Claim!Select, Claim!Answered
    <2> QED BY <1>6, <2>1, <2>2, <2>3 DEF Claim!Select
<1>7. ASSUME NEW c \in Claimants, Claim!Abandon(c) PROVE Claim!TypeOK'
    BY <1>7 DEF Claim!Abandon
<1>8. ASSUME NEW c \in Claimants, NEW status \in {"completed", "failed"},
             Claim!Finish(c, status)
      PROVE  Claim!TypeOK'
    BY <1>8 DEF Claim!Finish
<1> QED BY <1>1, <1>2, <1>3, <1>4, <1>5, <1>6, <1>7, <1>8 DEF Claim!Next

\* While nobody has overrun its claim, the row is that of the one who inserted it:
\* a claim that finds it conflicts or waits, the sweep of expired rows leaves it,
\* and only its owner completes it or deletes it.
LEMMA ClaimNext ==
    ASSUME Claim!ClaimInv, [Claim!Next]_(Claim!vars) PROVE Claim!ClaimInv'
<1>0. Claim!TypeOK /\ Claim!TypeOK'
    BY ClaimTypes DEF Claim!ClaimInv
<1> USE <1>0, PartsAssumption DEF PartsAssumption, Claim!ClaimConstants, Claim!TypeOK,
        Claim!Rows, Claim!MaybePayload, Claim!NoRow, Claim!Goes
<1>1. Claim!Inserters'
    <2>0. Claim!Inserters
        BY DEF Claim!ClaimInv
    <2> USE <2>0 DEF Claim!Inserters, Claim!Owners
    <2>1. CASE UNCHANGED Claim!vars \/ Claim!Tick
        BY <2>1 DEF Claim!vars, Claim!Tick
    <2>2. ASSUME NEW c \in Claimants, NEW p \in Payloads, Claim!Claim(c, p)
          PROVE  Claim!Inserters'
        BY <2>2 DEF Claim!Claim
    <2>3. ASSUME NEW c \in Claimants, Claim!DeleteExpired(c) \/ Claim!InsertOrIgnore(c)
          PROVE  Claim!Inserters'
        BY <2>3 DEF Claim!DeleteExpired, Claim!InsertOrIgnore
    <2>4. ASSUME NEW c \in Claimants, Claim!Select(c) PROVE Claim!Inserters'
        BY <2>4 DEF Claim!Select, Claim!Answered
    <2>5. ASSUME NEW c \in Claimants,
                 Claim!Abandon(c) \/ \E s \in {"completed", "failed"} : Claim!Finish(c, s)
          PROVE  Claim!Inserters'
        BY <2>5 DEF Claim!Abandon, Claim!Finish
    <2> QED BY <2>1, <2>2, <2>3, <2>4, <2>5 DEF Claim!Next
<1>2. Claim!RowIsKept'
    <2>0. Claim!Inserters /\ Claim!RowIsKept
        BY DEF Claim!ClaimInv
    <2> USE <2>0 DEF Claim!RowIsKept, Claim!Inserters, Claim!Owners
    <2>1. CASE UNCHANGED Claim!vars
        BY <2>1 DEF Claim!vars
    <2>2. CASE Claim!Tick
        BY <2>2 DEF Claim!Tick, Claim!Overrunning
    <2>3. ASSUME NEW c \in Claimants, NEW p \in Payloads, Claim!Claim(c, p)
          PROVE  Claim!RowIsKept'
        BY <2>3 DEF Claim!Claim
    <2>4. ASSUME NEW c \in Claimants, Claim!DeleteExpired(c) PROVE Claim!RowIsKept'
        BY <2>4 DEF Claim!DeleteExpired
    <2>5. ASSUME NEW c \in Claimants, Claim!InsertOrIgnore(c) PROVE Claim!RowIsKept'
        BY <2>5 DEF Claim!InsertOrIgnore, Claim!Overrunning
    <2>6. ASSUME NEW c \in Claimants, Claim!Select(c) PROVE Claim!RowIsKept'
        BY <2>6 DEF Claim!Select, Claim!Answered
    <2>7. ASSUME NEW c \in Claimants, Claim!Abandon(c) PROVE Claim!RowIsKept'
        BY <2>7 DEF Claim!Abandon
    <2>8. ASSUME NEW c \in Claimants, NEW status \in {"completed", "failed"},
                 Claim!Finish(c, status)
          PROVE  Claim!RowIsKept'
        BY <2>8 DEF Claim!Finish
    <2> QED BY <2>1, <2>2, <2>3, <2>4, <2>5, <2>6, <2>7, <2>8 DEF Claim!Next
<1>3. Claim!ClaimIsExclusive'
    <2>0. Claim!Inserters /\ Claim!RowIsKept /\ Claim!ClaimIsExclusive
        BY DEF Claim!ClaimInv
    <2>1. r8' \/ \A c, d \in Claim!Owners' : c = d
        BY <1>1, <1>2 DEF Claim!Inserters, Claim!RowIsKept, Claim!Owners
    <2>2. ASSUME NEW c \in Claimants, ~r8', r3'[c] = "idle"
          PROVE  r7'[c] \in {r4'[c], NoPayload}
        <3> USE <2>0, <2>2 DEF Claim!ClaimIsExclusive, Claim!RowIsKept, Claim!Inserters,
                Claim!Owners
        <3>1. ASSUME NEW d \in Claimants, Claim!Select(d)
              PROVE  r7'[c] \in {r4'[c], NoPayload}
            <4>1. CASE c = d
                BY <3>1, <4>1 DEF Claim!Select, Claim!Answered
            <4>2. CASE c # d
                BY <3>1, <4>2 DEF Claim!Select, Claim!Answered
            <4> QED BY <4>1, <4>2
        <3>2. CASE UNCHANGED Claim!vars \/ Claim!Tick
            BY <3>2 DEF Claim!vars, Claim!Tick
        <3>3. ASSUME NEW d \in Claimants, NEW p \in Payloads, Claim!Claim(d, p)
              PROVE  r7'[c] \in {r4'[c], NoPayload}
            BY <3>3 DEF Claim!Claim
        <3>4. ASSUME NEW d \in Claimants,
                     \/ Claim!DeleteExpired(d) \/ Claim!InsertOrIgnore(d) \/ Claim!Abandon(d)
                     \/ \E status \in {"completed", "failed"} : Claim!Finish(d, status)
              PROVE  r7'[c] \in {r4'[c], NoPayload}
            BY <3>4 DEF Claim!DeleteExpired, Claim!InsertOrIgnore, Claim!Abandon, Claim!Finish
        <3> QED BY <3>1, <3>2, <3>3, <3>4 DEF Claim!Next
    <2> QED BY <2>1, <2>2 DEF Claim!ClaimIsExclusive
<1> QED BY <1>1, <1>2, <1>3 DEF Claim!ClaimInv

\* The inductive invariant of the store's behaviours.
ClaimPart == part = "claim" => Claim!ClaimInv

\* It holds of the store at all times.
LEMMA ClaimAlways == PartsSpec => []ClaimPart
<1>1. PartsInit => ClaimPart
    BY ClaimInit DEF PartsInit, ClaimPart
<1>2. ClaimPart /\ [PartsNext]_<<part, registers>> => ClaimPart'
    BY ClaimStep, ClaimNext DEF ClaimPart, PartsNext, registers
<1> QED BY <1>1, <1>2, PTL DEF PartsSpec

\* However the SELECT, INSERT, sweep, completion and release of several claimants
\* interleave, one at a time does the work of a key as long as none outlives its
\* claim, and no claimant is given the result of another payload.
THEOREM ClaimExclusive == PartsSpec => []ClaimIsExclusive
<1>1. ClaimPart => ClaimIsExclusive
    BY DEF ClaimPart, Claim!ClaimInv, ClaimIsExclusive
<1> QED BY <1>1, ClaimAlways, PTL

-----------------------------------------------------------------------------
(* The lifecycle of the gateway's modules: GatewayLifecycleProofs says it all, *)
(* of variables that are registers here.                                       *)

\* The proofs about the lifecycle, of the registers.
LifecycleProofs == INSTANCE GatewayLifecycleProofs WITH
    at <- r1, lock <- r2, users <- r3, ready <- r4, remaining <- r5, running <- r6,
    loadErrors <- r7, calling <- r8, restarting <- r9, restartPc <- r10,
    leaked <- r11, astray <- r12

\* A step of the behaviour is one of the lifecycle.
LEMMA LifecycleStep ==
    ASSUME part = "lifecycle", [PartsNext]_<<part, registers>>
    PROVE  part' = "lifecycle" /\ (Lifecycle!Next \/ UNCHANGED LifecycleProofs!vars)
BY DEF PartsNext, registers, from7, from8, from9, from11, from12, from13, from14,
       LifecycleProofs!vars, LifecycleProofs!sessionVars, LifecycleProofs!moduleVars,
       LifecycleProofs!restartVars

\* The two instances of the lifecycle, MCParts' and that of its proofs, are the same.
LEMMA SameConstants == LifecycleProofs!LifecycleConstants
BY PartsAssumption
   DEF PartsAssumption, Lifecycle!LifecycleConstants, LifecycleProofs!LifecycleConstants,
       Lifecycle!IsFiniteSet, LifecycleProofs!IsFiniteSet

LEMMA SameInit == Lifecycle!Init => LifecycleProofs!Init
BY DEF Lifecycle!Init, LifecycleProofs!Init

LEMMA SameNext == Lifecycle!Next => LifecycleProofs!Next
BY DEF
       Lifecycle!Next, LifecycleProofs!Next, Lifecycle!AskStart,
       LifecycleProofs!AskStart, Lifecycle!Start, LifecycleProofs!Start,
       Lifecycle!StartFails, LifecycleProofs!StartFails, Lifecycle!Migrated,
       LifecycleProofs!Migrated, Lifecycle!StartModule,
       LifecycleProofs!StartModule, Lifecycle!Started, LifecycleProofs!Started,
       Lifecycle!AskStop, LifecycleProofs!AskStop, Lifecycle!Stop,
       LifecycleProofs!Stop, Lifecycle!StopModule, LifecycleProofs!StopModule,
       Lifecycle!Stopped, LifecycleProofs!Stopped, Lifecycle!Cancel,
       LifecycleProofs!Cancel, Lifecycle!CallEnds, LifecycleProofs!CallEnds,
       Lifecycle!Invoke, LifecycleProofs!Invoke, Lifecycle!Restart,
       LifecycleProofs!Restart, Lifecycle!RestartStops,
       LifecycleProofs!RestartStops, Lifecycle!RestartStarts,
       LifecycleProofs!RestartStarts, Lifecycle!RestartFails,
       LifecycleProofs!RestartFails, Lifecycle!Goes, LifecycleProofs!Goes,
       Lifecycle!sessionVars, LifecycleProofs!sessionVars, Lifecycle!moduleVars,
       LifecycleProofs!moduleVars, Lifecycle!restartVars,
       LifecycleProofs!restartVars

\* The inductive invariant of the lifecycle's behaviours.
LifecyclePart == part = "lifecycle" => LifecycleProofs!LInv

\* It holds of the lifecycle at all times.
LEMMA LifecycleAlways == PartsSpec => []LifecyclePart
<1>1. PartsInit => LifecyclePart
    BY SameConstants, SameInit, LifecycleProofs!InitLInv DEF PartsInit, LifecyclePart
<1>2. LifecyclePart /\ [PartsNext]_<<part, registers>> => LifecyclePart'
    <2>1. ASSUME part = "lifecycle", LifecycleProofs!LInv, [PartsNext]_<<part, registers>>
          PROVE  LifecycleProofs!LInv'
        <3>1. [LifecycleProofs!Next]_(LifecycleProofs!vars)
            BY <2>1, LifecycleStep, SameNext
        <3> QED BY <2>1, <3>1, SameConstants, LifecycleProofs!NextLInv
    <2> QED BY <2>1 DEF LifecyclePart, PartsNext, registers
<1> QED BY <1>1, <1>2, PTL DEF PartsSpec

\* A tool call is only ever inside a module whose start has returned, however
\* sessions come and go, are cancelled, or modules are restarted under them.
THEOREM CallsReach == PartsSpec => []CallsReachStarted
<1>1. LifecyclePart => CallsReachStarted
    BY DEF LifecyclePart, LifecycleProofs!LInv, LifecycleProofs!CallsReachStarted,
           CallsReachStarted, Lifecycle!CallsReachStarted
<1> QED BY <1>1, LifecycleAlways, PTL

\* When the last session's stop has run, no module is left running but those a
\* cancelled stop or a failed start leaked.
THEOREM LastStops == PartsSpec => []LastOneStops
<1>1. LifecyclePart => LastOneStops
    BY SameConstants, LifecycleProofs!LInvStops
       DEF LifecyclePart, LifecycleProofs!LastOneStops, LastOneStops, Lifecycle!LastOneStops
<1> QED BY <1>1, LifecycleAlways, PTL

\* The types of the lifecycle.
LEMMA LifecycleTypes == LifecycleProofs!LInv => Lifecycle!TypeOK
<1>1. LifecycleProofs!LInv => LifecycleProofs!TypeOK
    BY SameConstants, LifecycleProofs!LInvTypes
<1>2. LifecycleProofs!TypeOK => Lifecycle!TypeOK
    BY DEF LifecycleProofs!TypeOK, Lifecycle!TypeOK, LifecycleProofs!Stations,
           Lifecycle!Stations, LifecycleProofs!Counted, Lifecycle!Counted,
           LifecycleProofs!Cardinality, Lifecycle!Cardinality
<1> QED BY <1>1, <1>2

-----------------------------------------------------------------------------
(* Cloud sync.  syncPc r1, snapshots r5, attempted r6, synced r7, statuses r8, *)
(* file r9, cloud r10, and the tools a pass is to ask r4, of those wanted r3   *)
(* from the position r2 on.                                                    *)

\* A step of the behaviour is one of the sync agent.
LEMMA SyncStep ==
    ASSUME part = "sync", [PartsNext]_<<part, registers>>
    PROVE  part' = "sync" /\ [Sync!Next]_(Sync!vars)
BY DEF PartsNext, registers, from7, from8, from9, from11, from12, from13, from14, Sync!vars

\* The order of the projects is not empty and has projects only.
LEMMA SyncOrder ==
    /\ Len(Order) \in Nat \ {0} /\ 1 \in 1 .. Len(Order)
    /\ \A i \in 1 .. Len(Order) : Order[i] \in Sync!Projects
    /\ StaleAfter \in Nat
BY PartsAssumption DEF PartsAssumption, Sync!SyncConstants, Sync!Projects

\* What is known of a project at first is a status.
LEMMA NoStatusIsStatus == Sync!Status(Sync!NoStatus) /\ DOMAIN Sync!NoStatus.items = {}
BY DEF Sync!Status, Sync!NoStatus

\* A stamp is a stamp a tick later.
LEMMA LaterStamp ==
    ASSUME NEW a \in Sync!Stamps
    PROVE  /\ Sync!Later(a) \in Sync!Stamps
           /\ a \in Sync!Ages => Sync!Later(a) \in Sync!Ages
           /\ a \in Sync!Ages \cup {Sync!Never} => Sync!Later(a) \in Sync!Ages \cup {Sync!Never}
BY SyncOrder DEF Sync!Stamps, Sync!Ages, Sync!Never, Sync!Malformed, Sync!Later

\* A status is a status a tick later.
LEMMA LaterIsStatus ==
    ASSUME NEW o, Sync!Status(o) PROVE Sync!Status(Sync!LaterStatus(o))
BY LaterStamp DEF Sync!Status, Sync!LaterStatus

\* What a pass writes down of a project is a status.
LEMMA ObservationIsStatus ==
    ASSUME Sync!TypeOK, NEW pushed, NEW stamp \in Sync!Stamps,
           NEW names \in SUBSET {"success", "complete"}
    PROVE  Sync!Status(Sync!Observation(pushed, stamp, names))
<1>1. Sync!Project \in Sync!Projects
    BY SyncOrder DEF Sync!TypeOK, Sync!Project
<1>2. ASSUME NEW t PROVE Sync!PriorItem(t) \in Sync!Stamps
    BY <1>1 DEF Sync!PriorItem, Sync!TypeOK, Sync!Status, Sync!Stamps
<1>3. ASSUME NEW t, NEW s \in Sync!Stamps PROVE Sync!ItemObservation(t, s) \in Sync!Stamps
    BY <1>2 DEF Sync!ItemObservation, Sync!Stamp
<1>4. Sync!Never \in Sync!Stamps
    BY DEF Sync!Stamps
<1>5. Sync!Observation(pushed, stamp, names).bad \subseteq {"success", "complete"}
    BY <1>1 DEF Sync!Observation, Sync!TypeOK, Sync!Status
<1>6. DOMAIN Sync!Observation(pushed, stamp, names).items = r3
    BY DEF Sync!Observation
<1>7. ASSUME NEW t \in r3
      PROVE  Sync!Observation(pushed, stamp, names).items[t] \in Sync!Stamps
    BY <1>3, <1>4 DEF Sync!Observation
<1> QED BY <1>5, <1>6, <1>7 DEF Sync!Status, Sync!TypeOK

\* Recording a status keeps the types (main, cloud_sync.py).
LEMMA RecordTypes ==
    ASSUME Sync!TypeOK, NEW o, Sync!Status(o), Sync!Record(o) PROVE Sync!TypeOK'
<1>1. Sync!Project \in Sync!Projects
    BY SyncOrder DEF Sync!TypeOK, Sync!Project
<1>2. DOMAIN r8' = Sync!Projects /\ \A p \in Sync!Projects : Sync!Status(r8'[p])
    BY <1>1 DEF Sync!TypeOK, Sync!Record
<1>3. r2' \in 1 .. Len(Order) /\ r1' \in {"project", "write"}
    BY SyncOrder DEF Sync!TypeOK, Sync!Record
<1>4. r6' \in Sync!Ages /\ r7' \in Sync!Stamps
    BY SyncOrder DEF Sync!Record, Sync!Ages, Sync!Stamps
<1> QED BY <1>2, <1>3, <1>4 DEF Sync!TypeOK, Sync!Record

\* At first no project has been synced, and the mirror is empty.
LEMMA SyncInit == ASSUME Sync!Init PROVE Sync!SyncInv
<1>1. 0 \in Sync!Ages /\ Sync!Never \in Sync!Stamps
    BY SyncOrder DEF Sync!Ages, Sync!Stamps
<1>2. r8 = Sync!NoStatuses /\ r9 = Sync!NoStatuses /\ DOMAIN Sync!NoStatuses = Sync!Projects
    BY DEF Sync!Init, Sync!NoStatuses
<1>3. \A p \in Sync!Projects : Sync!NoStatuses[p] = Sync!NoStatus
    BY DEF Sync!NoStatuses
<1>4. Sync!TypeOK
    BY <1>1, <1>2, <1>3, SyncOrder, NoStatusIsStatus DEF Sync!Init, Sync!TypeOK
<1>5. Sync!StampsAreHeld
    BY <1>2, <1>3, NoStatusIsStatus DEF Sync!Init, Sync!StampsAreHeld
<1> QED BY <1>4, <1>5 DEF Sync!SyncInv

\* The types, step by step.
LEMMA SyncTypes ==
    ASSUME Sync!TypeOK, [Sync!Next]_(Sync!vars) PROVE Sync!TypeOK'
<1> USE SyncOrder
<1>1. CASE UNCHANGED Sync!vars
    BY <1>1 DEF Sync!vars, Sync!TypeOK
<1>2. CASE Sync!Tick
    <2>1. r6' \in Sync!Ages /\ r7' \in Sync!Stamps
        BY <1>2, LaterStamp DEF Sync!Tick, Sync!TypeOK, Sync!Stamps
    <2>2. /\ DOMAIN r8' = Sync!Projects /\ DOMAIN r9' = Sync!Projects
          /\ \A p \in Sync!Projects : Sync!Status(r8'[p]) /\ Sync!Status(r9'[p])
        BY <1>2, LaterIsStatus DEF Sync!Tick, Sync!TypeOK
    <2>3. r10' \in [Sync!Projects -> [Tools -> Sync!Ages \cup {Sync!Never}]]
        BY <1>2, LaterStamp DEF Sync!Tick, Sync!TypeOK, Sync!Stamps
    <2>4. r1 = "off" => r8' = Sync!NoStatuses
        <3>1. Sync!LaterStatus(Sync!NoStatus) = Sync!NoStatus
            BY DEF Sync!NoStatus, Sync!LaterStatus
        <3>2. ASSUME NEW p \in Sync!Projects PROVE Sync!NoStatuses[p] = Sync!NoStatus
            BY DEF Sync!NoStatuses
        <3> QED BY <1>2, <3>1, <3>2 DEF Sync!Tick, Sync!TypeOK, Sync!NoStatuses
    <2> QED BY <1>2, <2>1, <2>2, <2>3, <2>4 DEF Sync!Tick, Sync!TypeOK
<1>3. CASE Sync!StartPass
    <2>1. Sync!NoStatuses = [p \in Sync!Projects |-> Sync!NoStatus]
        BY DEF Sync!NoStatuses
    <2> QED BY <1>3, <2>1, NoStatusIsStatus DEF Sync!StartPass, Sync!TypeOK
<1>4. CASE Sync!BeginProject
    <2>1. 0 \in Sync!Ages
        BY DEF Sync!Ages
    <2> QED BY <1>4, <2>1 DEF Sync!BeginProject, Sync!TypeOK
<1>5. CASE Sync!Connect \/ Sync!NothingRead \/ Sync!PushFails
    <2>1. CASE Sync!Record(Sync!Failure)
        BY <2>1, ObservationIsStatus, RecordTypes DEF Sync!Failure, Sync!Stamps
    <2> QED BY <1>5, <2>1
            DEF Sync!Connect, Sync!NothingRead, Sync!PushFails, Sync!progress, Sync!TypeOK
<1>6. ASSUME NEW t \in Tools, Sync!CallTool(t) PROVE Sync!TypeOK'
    BY <1>6 DEF Sync!CallTool, Sync!TypeOK
<1>7. CASE Sync!CloudStores
    <2>1. Sync!Project \in Sync!Projects /\ 0 \in Sync!Ages
        BY DEF Sync!TypeOK, Sync!Project, Sync!Ages
    <2>2. r10' \in [Sync!Projects -> [Tools -> Sync!Ages \cup {Sync!Never}]]
        BY <1>7, <2>1 DEF Sync!CloudStores, Sync!TypeOK
    <2>3. r7' \in Sync!Stamps
        BY <1>7, <2>1 DEF Sync!CloudStores, Sync!Stamps
    <2> QED BY <1>7, <2>2, <2>3 DEF Sync!CloudStores, Sync!TypeOK
<1>8. CASE Sync!PushAnswered
    <2> DEFINE stamp == IF r7 = Sync!Never THEN r6 ELSE r7
    <2>1. stamp \in Sync!Stamps
        BY DEF Sync!TypeOK, Sync!Stamps
    <2> QED BY <1>8, <2>1, ObservationIsStatus, RecordTypes DEF Sync!PushAnswered
<1>9. CASE Sync!SyncJournal
    <2>1. 0 \in Sync!Stamps /\ Sync!Never \in Sync!Stamps
        BY DEF Sync!Stamps, Sync!Ages
    <2> QED BY <1>9, <2>1, ObservationIsStatus, RecordTypes DEF Sync!SyncJournal, Sync!Failure
<1>10. CASE Sync!WriteStatus \/ Sync!EndsEarly
    <2>1. Sync!NoStatuses = [p \in Sync!Projects |-> Sync!NoStatus]
        BY DEF Sync!NoStatuses
    <2>2. 0 \in Sync!Ages /\ Sync!Never \in Sync!Stamps
        BY DEF Sync!Ages, Sync!Stamps
    <2> QED BY <1>10, <2>1, <2>2, NoStatusIsStatus
            DEF Sync!WriteStatus, Sync!EndsEarly, Sync!PassOver, Sync!TypeOK
<1> QED BY <1>1, <1>2, <1>3, <1>4, <1>5, <1>6, <1>7, <1>8, <1>9, <1>10 DEF Sync!Next

\* Time passes for a stamp and for what the mirror has alike.
LEMMA YoungerLater ==
    ASSUME NEW a \in Sync!Stamps, NEW b \in Sync!Ages \cup {Sync!Never},
           a \in Sync!Ages => b \in 0 .. a, Sync!Later(a) \in Sync!Ages
    PROVE  Sync!Later(b) \in 0 .. Sync!Later(a)
BY SyncOrder DEF Sync!Stamps, Sync!Ages, Sync!Never, Sync!Malformed, Sync!Later

\* What is recorded of a project is held, if what its push is stamped with is.
LEMMA RecordHeld ==
    ASSUME Sync!SyncInv, NEW pushed, NEW stamp, NEW names,
           \A t \in pushed : t \in r3 => Sync!Younger(Sync!Project, t, stamp),
           Sync!Record(Sync!Observation(pushed, stamp, names))
    PROVE  Sync!StampsAreHeld'
<1>1. Sync!Project \in Sync!Projects /\ DOMAIN r8 = Sync!Projects
    BY SyncOrder DEF Sync!SyncInv, Sync!TypeOK, Sync!Project
<1>2. r9' = r9 /\ r10' = r10 /\ r1' # "stored"
    BY DEF Sync!Record
<1>3. ASSUME NEW t \in r3
      PROVE  Sync!Younger(Sync!Project, t, Sync!Observation(pushed, stamp, names).items[t])
    <2>1. Sync!Younger(Sync!Project, t, Sync!PriorItem(t))
        BY <1>1 DEF Sync!SyncInv, Sync!StampsAreHeld, Sync!PriorItem, Sync!Younger, Sync!Ages,
                Sync!Never
    <2>2. Sync!Younger(Sync!Project, t, Sync!ItemObservation(t, Sync!Never))
        BY <2>1 DEF Sync!ItemObservation, Sync!Stamp
    <2>3. t \in pushed => Sync!Younger(Sync!Project, t, Sync!ItemObservation(t, stamp))
        BY <2>1 DEF Sync!ItemObservation, Sync!Stamp
    <2> QED BY <2>2, <2>3 DEF Sync!Observation
<1>4. ASSUME NEW p \in Sync!Projects, NEW t \in DOMAIN r8'[p].items
      PROVE  Sync!Younger(p, t, r8'[p].items[t])
    <2>1. CASE p = Sync!Project
        BY <1>1, <1>3, <2>1 DEF Sync!Record, Sync!Observation
    <2>2. CASE p # Sync!Project
        BY <1>1, <1>4, <2>2 DEF Sync!Record, Sync!SyncInv, Sync!StampsAreHeld
    <2> QED BY <2>1, <2>2
<1> QED BY <1>2, <1>4 DEF Sync!SyncInv, Sync!StampsAreHeld, Sync!Younger

\* Each step keeps the stamps true of the mirror: a push stores before it is
\* recorded, a crash falls back to a file that says no more, and time passes for
\* both alike.
LEMMA SyncHeld ==
    ASSUME Sync!SyncInv, [Sync!Next]_(Sync!vars) PROVE Sync!StampsAreHeld'
<1>0. Sync!TypeOK /\ Sync!TypeOK' /\ Sync!StampsAreHeld
    BY SyncTypes DEF Sync!SyncInv
<1> USE SyncOrder
<1>1. CASE UNCHANGED Sync!vars
    BY <1>0, <1>1 DEF Sync!vars, Sync!StampsAreHeld, Sync!Younger, Sync!Project
<1>2. CASE Sync!Tick
    <2>1. ASSUME NEW p \in Sync!Projects, NEW t \in Tools, NEW a \in Sync!Stamps,
                 Sync!Younger(p, t, a)
          PROVE  Sync!Later(a) \in Sync!Ages => r10'[p][t] \in 0 .. Sync!Later(a)
        <3>1. r10[p][t] \in Sync!Ages \cup {Sync!Never} /\ r10'[p][t] = Sync!Later(r10[p][t])
            BY <1>0, <1>2 DEF Sync!TypeOK, Sync!Tick
        <3> QED BY <2>1, <3>1, YoungerLater DEF Sync!Younger
    <2>2. ASSUME NEW p \in Sync!Projects, NEW o \in {r8[p], r9[p]}
          PROVE  \A t \in DOMAIN Sync!LaterStatus(o).items :
                    Sync!Younger(p, t, Sync!LaterStatus(o).items[t])'
        BY <1>0, <2>1 DEF Sync!TypeOK, Sync!Status, Sync!StampsAreHeld, Sync!LaterStatus,
                      Sync!Younger
    <2>3. \A p \in Sync!Projects : \A o \in {r8'[p], r9'[p]} : \A t \in DOMAIN o.items :
              Sync!Younger(p, t, o.items[t])'
        BY <1>0, <1>2, <2>2 DEF Sync!TypeOK, Sync!Tick
    <2>4. ASSUME r1' = "stored", NEW t \in r5'
          PROVE  (Sync!Younger(Sync!Project, t, r6) /\ Sync!Younger(Sync!Project, t, r7))'
        <3>1. /\ r2' = r2 /\ r1 = "stored" /\ t \in r5 /\ r6 \in Sync!Stamps /\ r7 \in Sync!Stamps
              /\ r6' = Sync!Later(r6) /\ r7' = Sync!Later(r7) /\ t \in Tools
            BY <1>0, <1>2, <2>4 DEF Sync!TypeOK, Sync!Tick, Sync!Stamps
        <3>2. Sync!Project \in Sync!Projects /\ Sync!Project' = Sync!Project
            BY <1>0, <3>1 DEF Sync!TypeOK, Sync!Project
        <3>3. Sync!Younger(Sync!Project, t, r6) /\ Sync!Younger(Sync!Project, t, r7)
            BY <1>0, <3>1 DEF Sync!StampsAreHeld
        <3> QED BY <2>1, <3>1, <3>2, <3>3 DEF Sync!Younger
    <2> QED BY <2>3, <2>4 DEF Sync!StampsAreHeld
<1>3. CASE Sync!StartPass
    BY <1>0, <1>3, NoStatusIsStatus
       DEF Sync!StartPass, Sync!StampsAreHeld, Sync!Younger, Sync!NoStatuses
<1>4. CASE Sync!BeginProject \/ \E t \in Tools : Sync!CallTool(t)
    BY <1>0, <1>4 DEF Sync!BeginProject, Sync!CallTool, Sync!StampsAreHeld, Sync!Younger
<1>5. CASE Sync!Connect \/ Sync!NothingRead \/ Sync!PushFails
    <2>1. CASE Sync!Record(Sync!Failure)
        BY <2>1, RecordHeld DEF Sync!Failure
    <2>2. CASE UNCHANGED <<Sync!progress, r8, r9, r10>> /\ r1' = "call"
        BY <1>0, <2>2 DEF Sync!progress, Sync!StampsAreHeld, Sync!Younger
    <2> QED BY <1>5, <2>1, <2>2 DEF Sync!Connect, Sync!NothingRead, Sync!PushFails
<1>6. CASE Sync!CloudStores
    <2>1. Sync!Project \in Sync!Projects /\ Sync!Project' = Sync!Project
        BY <1>0, <1>6 DEF Sync!TypeOK, Sync!Project, Sync!CloudStores
    <2>2. ASSUME NEW p \in Sync!Projects, NEW t \in Tools
          PROVE  r10'[p][t] = r10[p][t] \/ r10'[p][t] = 0
        BY <1>0, <1>6 DEF Sync!TypeOK, Sync!CloudStores
    <2>3. \A t \in r5 : r10'[Sync!Project][t] = 0
        BY <1>0, <1>6, <2>1 DEF Sync!TypeOK, Sync!CloudStores
    <2>4. ASSUME NEW p \in Sync!Projects, NEW t \in Tools, NEW a, Sync!Younger(p, t, a)
          PROVE  Sync!Younger(p, t, a)'
        BY <2>2, <2>4 DEF Sync!Younger, Sync!Ages
    <2>5. \A p \in Sync!Projects : \A o \in {r8'[p], r9'[p]} : \A t \in DOMAIN o.items :
              Sync!Younger(p, t, o.items[t])'
        BY <1>0, <1>6, <2>4 DEF Sync!StampsAreHeld, Sync!CloudStores, Sync!TypeOK, Sync!Status
    <2>6. ASSUME NEW t \in r5
          PROVE  (Sync!Younger(Sync!Project, t, r6) /\ Sync!Younger(Sync!Project, t, r7))'
        BY <2>1, <2>3 DEF Sync!Younger, Sync!Ages
    <2> QED BY <1>6, <2>5, <2>6 DEF Sync!StampsAreHeld, Sync!CloudStores
<1>7. CASE Sync!PushAnswered
    <2>1. \A t \in r5 : Sync!Younger(Sync!Project, t, r6) /\ Sync!Younger(Sync!Project, t, r7)
        BY <1>0, <1>7 DEF Sync!StampsAreHeld, Sync!PushAnswered
    <2> QED BY <1>7, <2>1, RecordHeld DEF Sync!PushAnswered
<1>8. CASE Sync!SyncJournal
    BY <1>8, RecordHeld DEF Sync!SyncJournal, Sync!Failure
<1>9. CASE Sync!WriteStatus \/ Sync!EndsEarly
    BY <1>0, <1>9, NoStatusIsStatus
       DEF Sync!WriteStatus, Sync!EndsEarly, Sync!PassOver, Sync!StampsAreHeld, Sync!Younger,
           Sync!NoStatuses
<1> QED BY <1>1, <1>2, <1>3, <1>4, <1>5, <1>6, <1>7, <1>8, <1>9 DEF Sync!Next

\* The inductive invariant of the agent's behaviours.
SyncPart == part = "sync" => Sync!SyncInv

\* It holds of the agent at all times.
LEMMA SyncAlways == PartsSpec => []SyncPart
<1>1. PartsInit => SyncPart
    BY SyncInit DEF PartsInit, SyncPart
<1>2. SyncPart /\ [PartsNext]_<<part, registers>> => SyncPart'
    BY SyncStep, SyncTypes, SyncHeld DEF SyncPart, Sync!SyncInv, PartsNext, registers
<1> QED BY <1>1, <1>2, PTL DEF PartsSpec

\* Whatever fails, crashes or is restarted in the middle of a pass, a project that
\* the status file calls fresh is one whose tools the mirror holds, none of them
\* older than what makes it stale.
THEOREM FreshHeld == PartsSpec => []FreshIsHeld
<1>1. ASSUME Sync!SyncInv, NEW p \in Sync!Projects,
             Sync!SnapshotState(Sync!Observed(p)) = "fresh",
             NEW t \in DOMAIN r9[p].items
      PROVE  r10[p][t] \in 0 .. StaleAfter
    <2> DEFINE o == r9[p]
               pushed == {u \in DOMAIN o.items : o.items[u] # Sync!Never}
    <2>1. Sync!Readable(o) /\ Sync!Observed(p) = o
        BY <1>1 DEF Sync!SnapshotState, Sync!Observed
    <2>2. ~(Sync!Cardinality(DOMAIN o.items) > Sync!Cardinality(pushed))
        BY <1>1, <2>1 DEF Sync!SnapshotState
    <2>3. \A u \in pushed : ~(o.items[u] > StaleAfter)
        BY <1>1, <2>1 DEF Sync!SnapshotState
    <2>4. pushed = DOMAIN o.items
        <3>1. IsFiniteSet(DOMAIN o.items)
            <4>1. IsFiniteSet(Tools) /\ DOMAIN o.items \subseteq Tools
                BY <1>1, PartsAssumption
                   DEF PartsAssumption, Sync!SyncConstants, Sync!IsFiniteSet, IsFiniteSet,
                       Sync!SyncInv, Sync!TypeOK, Sync!Status
            <4> QED BY <4>1, FS_Subset
        <3>2. pushed \subseteq DOMAIN o.items /\ IsFiniteSet(pushed)
            BY <3>1, FS_Subset
        <3>3. Cardinality(pushed) \in Nat /\ Cardinality(DOMAIN o.items) \in Nat
            BY <3>1, <3>2, FS_CardinalityType
        <3>4. ~(Cardinality(DOMAIN o.items) > Cardinality(pushed))
            BY <2>2 DEF Sync!Cardinality, Cardinality
        <3> QED BY <3>1, <3>2, <3>3, <3>4, FS_Subset
    <2>5. o.items[t] \in Sync!Ages /\ o.items[t] <= StaleAfter
        BY <1>1, <2>1, <2>3, <2>4, SyncOrder
           DEF Sync!Readable, Sync!SyncInv, Sync!TypeOK, Sync!Status, Sync!Stamps, Sync!Ages
    <2>6. Sync!Younger(p, t, o.items[t])
        BY <1>1 DEF Sync!SyncInv, Sync!StampsAreHeld
    <2> QED BY <2>5, <2>6, SyncOrder DEF Sync!Younger, Sync!Ages
<1>2. SyncPart => FreshIsHeld
    BY <1>1 DEF SyncPart, FreshIsHeld, Sync!FreshIsHeld
<1> QED BY <1>2, SyncAlways, PTL

-----------------------------------------------------------------------------
(* The widgets.  config r1, cache r2, runs r3, awaited r4, answer r5,          *)
(* asked r6, unrest r7.                                                        *)

\* A step of the behaviour is one of the widgets.
LEMMA HubStep ==
    ASSUME part = "hub", [PartsNext]_<<part, registers>>
    PROVE  part' = "hub" /\ [Hub!Next]_(Hub!vars)
BY DEF PartsNext, registers, from7, from8, from9, from11, from12, from13, from14,
       Hub!vars

\* What a run of an entry may say.
LEMMA SaysSomething ==
    ASSUME NEW c
    PROVE  /\ Hub!Says(c) \subseteq {"plain", "current", "stale", "unknown", "failed"}
           /\ ~Hub!AtOnce(c) => "failed" \in Hub!Says(c)
BY DEF Hub!Says, Hub!TextSays, Hub!AgendaSays, Hub!ProjectsSays, Hub!RemoteSays, Hub!McpSays,
       Hub!Presented, Hub!AtOnce

\* The numbers of the constants.
LEMMA HubNumbers ==
    /\ \A c \in Configs : Hub!TimeToLive(c) \in Nat /\ Budget[c.type] \in Nat
    /\ \A c \in Configs : \A says : Hub!Keeps(c, says) \in Nat
    /\ Missing \notin Configs /\ Missing \notin Slots /\ Missing \notin Hub!Runs
    /\ Missing \notin Hub!Results
    /\ MaxUnrest \in Nat /\ ScanMax \in Nat
    /\ Budget["projects"] \in Nat \ {0} /\ FailTtl \in Nat \ {0}
    /\ Hub!Spacing \in Nat \ {0} /\ Hub!Spacing = Budget["projects"] + FailTtl
    /\ \A c \in Configs : Hub!InThread(c) => Budget[c.type] = Budget["projects"]
BY PartsAssumption
   DEF PartsAssumption, Hub!HubConstants, Hub!TimeToLive, Hub!Keeps, Hub!Spacing

\* A payload that may be shown at the end of a run.
Sound(p, c) == p \in Hub!CardPayloads /\ p.config = c /\ p.says \in Hub!Says(c)

\* What a run puts in the cache is recent for as long as it is kept (_run).
LEMMA KeptIsRecent ==
    ASSUME NEW c \in Configs, NEW p, Sound(p, c), p.age <= Budget[c.type], Hub!Kept(p)
    PROVE  /\ r2' \in Hub!Results
           /\ Hub!CachedIsRecent'
<1>1. r2' = [payload |-> p, left |-> Hub!Keeps(c, p.says)] /\ Hub!Keeps(c, p.says) \in Nat
    BY HubNumbers DEF Hub!Kept, Sound
<1>2. p \in Hub!CardPayloads /\ p.config = c /\ p.says \in Hub!Says(c) /\ p.age \in Nat
    BY DEF Sound, Hub!CardPayloads
<1>3. r2' \in Hub!Results
    BY <1>1, <1>2 DEF Hub!Results
<1> QED BY <1>1, <1>2, <1>3, HubNumbers DEF Hub!CachedIsRecent

\* A run that ends with such a payload keeps the invariant, whether it leaves its
\* thread behind or not.
LEMMA RunEndsSound ==
    ASSUME Hub!HubInv, NEW s \in Slots, Hub!UnderWay(s), NEW p, Sound(p, r3[s].config),
           p.age <= Budget[r3[s].config.type], NEW rest, Hub!RunEnds(s, p, rest),
           \/ rest = Missing
           \/ /\ rest = [r3[s] EXCEPT !.abandoned = TRUE] /\ Hub!InThread(r3[s].config)
              /\ r3[s].spent = Budget[r3[s].config.type]
    PROVE  Hub!HubInv'
<1> DEFINE c == r3[s].config
<1>1. c \in Configs /\ r3[s] \in Hub!Runs
    BY DEF Hub!HubInv, Hub!TypeOK, Hub!Runs, Hub!UnderWay
<1>2. r2' \in Hub!Results /\ Hub!CachedIsRecent'
    BY <1>1, KeptIsRecent DEF Hub!RunEnds
<1>3. rest \in Hub!Runs \cup {Missing}
    BY <1>1 DEF Hub!Runs
<1>4. /\ r3' \in [Slots -> Hub!Runs \cup {Missing}]
      /\ r3'[s] = rest /\ \A t \in Slots : t # s => r3'[t] = r3[t]
    BY <1>3 DEF Hub!RunEnds, Hub!HubInv, Hub!TypeOK
<1>5. Hub!RunsInTime'
    <2>1. rest # Missing => /\ rest.abandoned /\ Hub!InThread(rest.config)
                            /\ rest.spent = Budget["projects"]
        BY <1>1, HubNumbers DEF Hub!Runs
    <2> QED BY <1>4, <2>1, HubNumbers DEF Hub!HubInv, Hub!RunsInTime
<1>6. r5' # Missing => r5' \in Hub!CardPayloads /\ r6' \in Configs
    BY <1>1 DEF Hub!RunEnds, Hub!Answered, Hub!HubInv, Hub!TypeOK, Sound
<1>7. Hub!ShownIsRecent'
    <2>1. CASE r4 = s
        <3>1. r5' = p /\ r6' = c
            BY <2>1 DEF Hub!RunEnds, Hub!Answered
        <3>2. p.age \in Nat /\ p.config = c /\ p.says \in Hub!Says(c) /\ Hub!Keeps(c, p.says) \in Nat
            BY <1>1, HubNumbers DEF Sound, Hub!CardPayloads
        <3> QED BY <1>1, <3>1, <3>2, HubNumbers DEF Hub!ShownIsRecent
    <2>2. CASE r4 # s
        BY <2>2 DEF Hub!RunEnds, Hub!HubInv, Hub!ShownIsRecent
    <2> QED BY <2>1, <2>2
<1>8. r4' # Missing => r4' \in Slots /\ Hub!UnderWay(r4)' /\ r4' = r4
    BY <1>4 DEF Hub!RunEnds, Hub!HubInv, Hub!TypeOK, Hub!UnderWay
<1>9. Hub!TypeOK'
    BY <1>2, <1>4, <1>6, <1>8 DEF Hub!RunEnds, Hub!HubInv, Hub!TypeOK, Hub!UnderWay
<1> QED BY <1>2, <1>5, <1>7, <1>9 DEF Hub!HubInv

\* At first nothing is cached, asked or run.
LEMMA HubInit == ASSUME Hub!Init PROVE Hub!HubInv
<1>1. r3 \in [Slots -> Hub!Runs \cup {Missing}] /\ \A s \in Slots : r3[s] = Missing
    BY DEF Hub!Init
<1>2. r7 \in 0 .. MaxUnrest
    BY HubNumbers DEF Hub!Init
<1> QED BY <1>1, <1>2 DEF Hub!Init, Hub!HubInv, Hub!TypeOK, Hub!CachedIsRecent, Hub!RunsInTime,
                    Hub!ShownIsRecent

\* Every step keeps it: requests that join a run, one that ends or is cut off at
\* its budget, an edit or a refresh under a run, and the passing of time.
LEMMA HubNext ==
    ASSUME Hub!HubInv, [Hub!Next]_(Hub!vars) PROVE Hub!HubInv'
<1>1. CASE UNCHANGED Hub!vars
    BY <1>1 DEF Hub!vars, Hub!HubInv, Hub!TypeOK, Hub!CachedIsRecent, Hub!RunsInTime,
                Hub!ShownIsRecent, Hub!UnderWay
<1>2. ASSUME NEW s \in Slots, Hub!Ask(s) PROVE Hub!HubInv'
    <2> DEFINE c == r1
    <2>0. c \in Configs
        BY <1>2 DEF Hub!Ask, Hub!HubInv, Hub!TypeOK
    <2>1. CASE Hub!Hit(c)
        <3>1. /\ r5' = r2.payload /\ r6' = c /\ r2 # Missing /\ r2.payload.config = c
              /\ r2.left > 0 /\ UNCHANGED <<r1, r2, r3, r4, r7>>
            BY <1>2, <2>1 DEF Hub!Ask, Hub!Hit, Hub!Answered
        <3>2. /\ r2.payload \in Hub!CardPayloads /\ r2.left \in Nat /\ r2.payload.age \in Nat
            BY <3>1 DEF Hub!HubInv, Hub!TypeOK, Hub!Results, Hub!CardPayloads
        <3>3. Hub!ShownIsRecent'
            BY <2>0, <3>1, <3>2, HubNumbers DEF Hub!HubInv, Hub!CachedIsRecent, Hub!ShownIsRecent
        <3> QED BY <2>0, <3>1, <3>2, <3>3
                DEF Hub!HubInv, Hub!TypeOK, Hub!CachedIsRecent, Hub!RunsInTime, Hub!UnderWay
    <2>2. CASE ~Hub!Hit(c) /\ Hub!AtOnce(c)
        <3>1. PICK says \in Hub!Says(c) :
                  Hub!Answered(Hub!Payload(c, says, 0), c) /\ Hub!Kept(Hub!Payload(c, says, 0))
            BY <1>2, <2>2 DEF Hub!Ask
        <3> DEFINE p == Hub!Payload(c, says, 0)
        <3>2. Sound(p, c) /\ p.age = 0 /\ p.says = says
            BY <2>0, SaysSomething DEF Sound, Hub!Payload, Hub!CardPayloads
        <3>3. r2' \in Hub!Results /\ Hub!CachedIsRecent'
            BY <2>0, <3>1, <3>2, HubNumbers, KeptIsRecent
        <3>4. r5' = p /\ r6' = c /\ UNCHANGED <<r1, r3, r4, r7>>
            BY <1>2, <2>2, <3>1 DEF Hub!Ask, Hub!Answered
        <3>5. Hub!ShownIsRecent'
            BY <2>0, <3>2, <3>4, HubNumbers DEF Hub!ShownIsRecent, Sound
        <3> QED BY <2>0, <3>2, <3>3, <3>4, <3>5
                DEF Hub!HubInv, Hub!TypeOK, Hub!RunsInTime, Hub!UnderWay, Sound
    <2>3. CASE ~Hub!Hit(c) /\ ~Hub!AtOnce(c)
        <3> DEFINE new == [config |-> c, spent |-> 0, abandoned |-> FALSE]
        <3>1. /\ r3' = [r3 EXCEPT ![s] = new] /\ r4' = s
              /\ UNCHANGED <<r1, r2, r5, r6, r7>>
            BY <1>2, <2>3 DEF Hub!Ask
        <3>2. new \in Hub!Runs
            BY <2>0 DEF Hub!Runs
        <3>3. r3' \in [Slots -> Hub!Runs \cup {Missing}] /\ r3'[s] = new /\ Hub!UnderWay(s)'
            BY <3>1, <3>2, HubNumbers DEF Hub!HubInv, Hub!TypeOK, Hub!UnderWay
        <3>4. Hub!RunsInTime'
            BY <2>0, <2>3, <3>1, HubNumbers DEF Hub!HubInv, Hub!TypeOK, Hub!RunsInTime
        <3> QED BY <3>1, <3>3, <3>4
                DEF Hub!HubInv, Hub!TypeOK, Hub!CachedIsRecent, Hub!ShownIsRecent, Hub!UnderWay
    <2> QED BY <2>1, <2>2, <2>3
<1>3. ASSUME NEW s \in Slots, Hub!Provide(s) PROVE Hub!HubInv'
    <2>1. PICK says \in Hub!Says(r3[s].config), age \in 0 .. r3[s].spent :
              Hub!RunEnds(s, Hub!Payload(r3[s].config, says, age), Missing)
        BY <1>3 DEF Hub!Provide
    <2>2. Hub!UnderWay(s) /\ r3[s].config \in Configs /\ r3[s].spent \in Nat
        BY <1>3 DEF Hub!Provide, Hub!HubInv, Hub!TypeOK, Hub!Runs, Hub!UnderWay
    <2> DEFINE p == Hub!Payload(r3[s].config, says, age)
    <2>3. Sound(p, r3[s].config) /\ p.age = age
        BY <2>2, SaysSomething DEF Sound, Hub!Payload, Hub!CardPayloads
    <2>4. age <= Budget[r3[s].config.type]
        BY <2>2, HubNumbers DEF Hub!HubInv, Hub!RunsInTime, Hub!UnderWay
    <2>5. Hub!RunEnds(s, p, Missing) /\ p.age <= Budget[r3[s].config.type]
        BY <2>1, <2>2, <2>3, <2>4
    <2> HIDE DEF p
    <2> QED BY <2>2, <2>3, <2>5, RunEndsSound
<1>4. ASSUME NEW s \in Slots, Hub!TimeOut(s) PROVE Hub!HubInv'
    <2> DEFINE p == Hub!Payload(r3[s].config, "failed", 0)
               rest == IF Hub!InThread(r3[s].config) THEN [r3[s] EXCEPT !.abandoned = TRUE]
                       ELSE Missing
    <2>1. /\ Hub!UnderWay(s) /\ r3[s].config \in Configs /\ Hub!RunEnds(s, p, rest)
          /\ r3[s].spent = Budget[r3[s].config.type]
        BY <1>4 DEF Hub!TimeOut, Hub!HubInv, Hub!TypeOK, Hub!Runs, Hub!UnderWay
    <2>2. "failed" \in Hub!Says(r3[s].config)
        BY <2>1, SaysSomething DEF Hub!HubInv, Hub!RunsInTime, Hub!UnderWay
    <2>3. Sound(p, r3[s].config) /\ p.age = 0
        BY <2>1, <2>2 DEF Sound, Hub!Payload, Hub!CardPayloads
    <2>4. \/ rest = Missing
          \/ rest = [r3[s] EXCEPT !.abandoned = TRUE] /\ Hub!InThread(r3[s].config)
        OBVIOUS
    <2> HIDE DEF p, rest
    <2> QED BY <2>1, <2>3, <2>4, HubNumbers, RunEndsSound
<1>5. CASE Hub!BuildFails \/ \E c \in Configs \cup {Missing} : Hub!Edit(c)
    BY <1>5, HubNumbers DEF Hub!BuildFails, Hub!Edit, Hub!HubInv, Hub!TypeOK,
                Hub!CachedIsRecent, Hub!RunsInTime, Hub!ShownIsRecent, Hub!UnderWay
<1>6. ASSUME NEW s \in Slots, Hub!ScanEnds(s) PROVE Hub!HubInv'
    <2>1. /\ r3' \in [Slots -> Hub!Runs \cup {Missing}] /\ r3'[s] = Missing
          /\ \A t \in Slots : t # s => r3'[t] = r3[t]
        BY <1>6 DEF Hub!ScanEnds, Hub!HubInv, Hub!TypeOK
    <2>2. Hub!RunsInTime'
        BY <2>1 DEF Hub!HubInv, Hub!RunsInTime
    <2>3. r4' # Missing => r4' = r4 /\ r4 # s /\ Hub!UnderWay(r4)'
        BY <1>6, <2>1 DEF Hub!ScanEnds, Hub!HubInv, Hub!TypeOK, Hub!UnderWay
    <2> QED BY <1>6, <2>1, <2>2, <2>3 DEF Hub!ScanEnds, Hub!HubInv, Hub!TypeOK,
                Hub!CachedIsRecent, Hub!ShownIsRecent, Hub!UnderWay
<1>7. CASE Hub!Tick
    <2>1. ASSUME NEW s \in Slots, r3'[s] # Missing
          PROVE  /\ r3[s] \in Hub!Runs /\ r3'[s] = [r3[s] EXCEPT !.spent = @ + 1]
                 /\ Hub!UnderWay(s) \/ r3[s].spent < ScanMax
        BY <1>7, <2>1, HubNumbers DEF Hub!Tick, Hub!HubInv, Hub!TypeOK, Hub!Runs, Hub!UnderWay
    <2>2. ASSUME NEW s \in Slots, r3'[s] # Missing
          PROVE  /\ r3'[s] \in Hub!Runs /\ r3'[s].config = r3[s].config
                 /\ r3'[s].spent = r3[s].spent + 1 /\ r3'[s].abandoned = r3[s].abandoned
        <3>1. r3[s] \in Hub!Runs /\ r3'[s] = [r3[s] EXCEPT !.spent = @ + 1]
            BY <2>1, <2>2
        <3> QED BY <3>1 DEF Hub!Runs
    <2>3. Hub!RunsInTime'
        <3> SUFFICES ASSUME NEW s \in Slots, r3'[s] # Missing
                     PROVE  IF r3'[s].abandoned
                            THEN /\ Hub!InThread(r3'[s].config) /\ r3'[s].spent >= Budget["projects"]
                                 /\ r3'[s].spent \in {Budget["projects"]} \cup 0 .. ScanMax
                            ELSE /\ ~Hub!AtOnce(r3'[s].config)
                                 /\ r3'[s].spent <= Budget[r3'[s].config.type]
            BY DEF Hub!RunsInTime
        <3>1. r3[s] # Missing /\ r3[s].spent \in Nat /\ r3[s].config \in Configs
            BY <2>1, HubNumbers DEF Hub!Runs
        <3>2. Hub!UnderWay(s) => r3[s].spent < Budget[r3[s].config.type]
            BY <1>7 DEF Hub!Tick
        <3>3. IF r3[s].abandoned
              THEN Hub!InThread(r3[s].config) /\ r3[s].spent >= Budget["projects"]
              ELSE ~Hub!AtOnce(r3[s].config)
            BY <3>1 DEF Hub!HubInv, Hub!RunsInTime
        <3>4. /\ r3'[s].config = r3[s].config /\ r3'[s].spent = r3[s].spent + 1
              /\ r3'[s].abandoned = r3[s].abandoned
            BY <2>2
        <3>5. ~r3[s].abandoned \/ r3[s].spent < ScanMax
            BY <2>1 DEF Hub!UnderWay
        <3> QED BY <3>1, <3>2, <3>3, <3>4, <3>5, HubNumbers DEF Hub!UnderWay
    <2>4. r3' \in [Slots -> Hub!Runs \cup {Missing}]
        <3>1. r3' = [s \in Slots |-> r3'[s]]
            BY <1>7 DEF Hub!Tick
        <3>2. \A s \in Slots : r3'[s] \in Hub!Runs \cup {Missing}
            BY <2>2
        <3> QED BY <3>1, <3>2
    <2>5. r2' \in Hub!Results \cup {Missing}
        <3>1. r2' = IF r2 = Missing \/ r2.left = 0 THEN r2
                    ELSE [payload |-> [r2.payload EXCEPT !.age = @ + 1], left |-> r2.left - 1]
            BY <1>7 DEF Hub!Tick
        <3>2. r2 \in Hub!Results \cup {Missing}
            BY DEF Hub!HubInv, Hub!TypeOK
        <3> QED BY <3>1, <3>2 DEF Hub!Results, Hub!CardPayloads
    <2>6. Hub!CachedIsRecent'
        BY <1>7, HubNumbers DEF Hub!Tick, Hub!HubInv, Hub!TypeOK, Hub!Results, Hub!CardPayloads,
                                Hub!CachedIsRecent
    <2>7. r4' # Missing => r4' = r4 /\ r4 \in Slots /\ Hub!UnderWay(r4)'
        <3>1. r4 # Missing => r4 \in Slots /\ Hub!UnderWay(r4) /\ r3[r4] \in Hub!Runs
            BY DEF Hub!HubInv, Hub!TypeOK, Hub!UnderWay
        <3>2. r4 # Missing => r3'[r4] = [r3[r4] EXCEPT !.spent = @ + 1]
            BY <1>7, <3>1 DEF Hub!Tick, Hub!UnderWay
        <3>3. r4 # Missing => r3'[r4] \in Hub!Runs /\ ~r3'[r4].abandoned
            BY <3>1, <3>2 DEF Hub!Runs, Hub!UnderWay
        <3> QED BY <1>7, <3>1, <3>3, HubNumbers DEF Hub!Tick, Hub!UnderWay
    <2> QED BY <1>7, <2>3, <2>4, <2>5, <2>6, <2>7
            DEF Hub!Tick, Hub!HubInv, Hub!TypeOK, Hub!ShownIsRecent, Hub!UnderWay
<1> QED BY <1>1, <1>2, <1>3, <1>4, <1>5, <1>6, <1>7 DEF Hub!Next

\* Multiples of d keep their order.
LEMMA TimesMonotone ==
    ASSUME NEW d \in Nat \ {0}, NEW p \in Nat, NEW q \in Nat, p <= q
    PROVE  d * p <= d * q
OBVIOUS

\* What \div is.
LEMMA Quotient ==
    ASSUME NEW a \in Nat, NEW d \in Nat \ {0}
    PROVE  /\ a \div d \in Nat
           /\ d * (a \div d) <= a /\ a < d * (a \div d) + d
OBVIOUS

\* \div keeps the order of numbers, and tells those apart that are d apart.
LEMMA QuotientOrder ==
    ASSUME NEW a \in Nat, NEW b \in Nat, NEW d \in Nat \ {0}
    PROVE  /\ a <= b => a \div d <= b \div d
           /\ a + d <= b => a \div d < b \div d
           /\ a < d => a \div d = 0
<1> DEFINE p == a \div d
           q == b \div d
<1>1. /\ p \in Nat /\ q \in Nat
      /\ d * p <= a /\ a < d * p + d
      /\ d * q <= b /\ b < d * q + d
    BY Quotient
<1> HIDE DEF p, q
<1>2. d * (p + 1) = d * p + d /\ d * (q + 1) = d * q + d
    BY <1>1
<1>3. a <= b => p <= q
    <2> SUFFICES ASSUME a <= b, q + 1 <= p PROVE FALSE
        BY <1>1
    <2>1. d * (q + 1) <= d * p
        BY <1>1, TimesMonotone
    <2> QED BY <1>1, <1>2, <2>1
<1>4. a + d <= b => p < q
    <2> SUFFICES ASSUME a + d <= b, q <= p PROVE FALSE
        BY <1>1
    <2>1. d * q <= d * p
        BY <1>1, TimesMonotone
    <2> QED BY <1>1, <1>2, <2>1
<1>5. a < d => p = 0
    <2> SUFFICES ASSUME a < d, 1 <= p PROVE FALSE
        BY <1>1
    <2>1. d * 1 <= d * p
        BY <1>1, TimesMonotone
    <2> QED BY <1>1, <2>1
<1> QED BY <1>3, <1>4, <1>5 DEF p, q

\* No more numbers are d apart, up to m but for those below d, than d fits into m.
LEMMA SpreadOut ==
    ASSUME NEW S, NEW age \in [S -> Nat], NEW m \in Nat, NEW d \in Nat \ {0},
           \A s \in S : age[s] <= m \/ age[s] < d,
           \A s, t \in S : s = t \/ age[s] + d <= age[t] \/ age[t] + d <= age[s]
    PROVE  IsFiniteSet(S) /\ Cardinality(S) \in Nat /\ Cardinality(S) <= m \div d + 1
<1> DEFINE q == m \div d
           f == [s \in S |-> age[s] \div d]
<1>1. q \in Nat
    BY Quotient
<1>2. ASSUME NEW s \in S PROVE f[s] \in 0 .. q
    BY <1>1, <1>2, Quotient, QuotientOrder
<1>3. ASSUME NEW s \in S, NEW t \in S, f[s] = f[t] PROVE s = t
    <2>1. /\ age[s] + d <= age[t] => f[s] < f[t]
          /\ age[t] + d <= age[s] => f[t] < f[s]
        BY QuotientOrder
    <2>2. f[s] \in Nat /\ f[t] \in Nat
        BY <1>1, <1>2
    <2> QED BY <1>3, <2>1, <2>2
<1> HIDE DEF f
<1>4. f \in Injection(S, 0 .. q)
    <2>1. f \in [S -> 0 .. q]
        BY <1>2 DEF f
    <2> QED BY <1>3, <2>1 DEF Injection, IsInjective
<1> HIDE DEF q
<1>5. IsFiniteSet(0 .. q) /\ Cardinality(0 .. q) = q + 1
    BY <1>1, FS_Interval
<1>6. IsFiniteSet(S) /\ Cardinality(S) <= Cardinality(0 .. q)
    BY <1>4, <1>5, FS_Injection
<1> QED BY <1>1, <1>5, <1>6, FS_CardinalityType DEF q

\* Sets with an element more, or one in place of another.
LEMMA OneMore ==
    ASSUME NEW S, IsFiniteSet(S), NEW x
    PROVE  /\ IsFiniteSet(S \cup {x}) /\ Cardinality(S) \in Nat /\ Cardinality(S \cup {x}) \in Nat
           /\ Cardinality(S \cup {x}) <= Cardinality(S) + 1
<1>1. /\ IsFiniteSet(S \cup {x})
      /\ Cardinality(S \cup {x}) = IF x \in S THEN Cardinality(S) ELSE Cardinality(S) + 1
    BY FS_AddElement
<1>2. Cardinality(S) \in Nat
    BY FS_CardinalityType
<1> QED BY <1>1, <1>2

LEMMA Replaced ==
    ASSUME NEW S, IsFiniteSet(S), NEW s \in S, NEW x
    PROVE  /\ IsFiniteSet((S \ {s}) \cup {x}) /\ Cardinality((S \ {s}) \cup {x}) \in Nat
           /\ Cardinality((S \ {s}) \cup {x}) <= Cardinality(S)
<1> DEFINE T == S \ {s}
<1>1. IsFiniteSet(T) /\ Cardinality(T) = Cardinality(S) - 1
    BY FS_RemoveElement
<1>2. Cardinality(S) \in Nat
    BY FS_CardinalityType
<1> HIDE DEF T
<1>3. /\ IsFiniteSet(T \cup {x}) /\ Cardinality(T \cup {x}) \in Nat
      /\ Cardinality(T \cup {x}) <= Cardinality(T) + 1
    BY <1>1, OneMore
<1> QED BY <1>1, <1>2, <1>3 DEF T

\* What a thread that scans is like.
LEMMA ScanIs ==
    ASSUME Hub!HubInv, NEW s \in Hub!Scanning
    PROVE  /\ s \in Slots /\ r3[s] # Missing /\ r3[s].spent \in Nat /\ r3[s].config \in Configs
           /\ Hub!InThread(r3[s].config) /\ r3[s].abandoned \in BOOLEAN
           /\ Hub!UnderWay(s) => r3[s].spent <= Budget["projects"]
           /\ r3[s].abandoned => /\ Budget["projects"] <= r3[s].spent
                                 /\ r3[s].spent <= ScanMax \/ r3[s].spent < Hub!Spacing
           /\ r3[s].spent <= ScanMax \/ r3[s].spent < Hub!Spacing
<1>1. s \in Slots /\ r3[s] \in Hub!Runs /\ r3[s] # Missing /\ Hub!InThread(r3[s].config)
    BY HubNumbers DEF Hub!Scanning, Hub!HubInv, Hub!TypeOK
<1>2. r3[s].spent \in Nat /\ r3[s].config \in Configs /\ r3[s].abandoned \in BOOLEAN
    BY <1>1 DEF Hub!Runs
<1>3. Budget[r3[s].config.type] = Budget["projects"]
    BY <1>1, <1>2, HubNumbers
<1>4. /\ r3[s].abandoned => /\ Budget["projects"] <= r3[s].spent
                            /\ r3[s].spent = Budget["projects"] \/ r3[s].spent <= ScanMax
      /\ ~r3[s].abandoned => r3[s].spent <= Budget["projects"]
    BY <1>1, <1>2, <1>3, HubNumbers DEF Hub!HubInv, Hub!RunsInTime
<1> QED BY <1>1, <1>2, <1>4, HubNumbers DEF Hub!UnderWay

\* The widgets' module counts as this one does.
LEMMA CountsAlike ==
    \A S : (Hub!IsFiniteSet(S) <=> IsFiniteSet(S)) /\ Hub!Cardinality(S) = Cardinality(S)
<1>1. \A S : Hub!IsFiniteSet(S) <=> IsFiniteSet(S)
    BY DEF Hub!IsFiniteSet, IsFiniteSet
<1>2. \A S : Hub!Cardinality(S) = Cardinality(S)
    BY DEF Hub!Cardinality, Cardinality
<1> QED BY <1>1, <1>2

\* The bound: what is paid for, and what is spread out over the life of a thread.
LEMMA PaidIsBounded ==
    ASSUME Hub!HubInv, Hub!ScansInv PROVE Hub!ScansBounded
<1>1. PICK extra \in SUBSET Slots, credit \in {0, 1} : Hub!ScansPaidFor(extra, credit)
    BY DEF Hub!ScansInv
<1> DEFINE rest == Hub!Scanning \ extra
           age == [s \in rest |-> r3[s].spent]
<1>2. age \in [rest -> Nat]
    BY ScanIs
<1>3. \A s \in rest : age[s] <= ScanMax \/ age[s] < Hub!Spacing
    BY ScanIs
<1>4. \A s, t \in rest : s = t \/ age[s] + Hub!Spacing <= age[t]
                               \/ age[t] + Hub!Spacing <= age[s]
    BY <1>1 DEF Hub!ScansPaidFor, Hub!Apart
<1> HIDE DEF age, rest
<1>5. /\ IsFiniteSet(rest) /\ Cardinality(rest) \in Nat
      /\ Cardinality(rest) <= ScanMax \div Hub!Spacing + 1
    BY <1>2, <1>3, <1>4, HubNumbers, SpreadOut
<1>6. IsFiniteSet(extra) /\ Cardinality(extra) + credit <= r7
    BY <1>1, CountsAlike DEF Hub!ScansPaidFor, Hub!PaidFor
<1>7. IsFiniteSet(extra \cup rest) /\ Cardinality(extra \cup rest) = Cardinality(extra) + Cardinality(rest)
    <2>1. extra \cap rest = {}
        BY DEF rest
    <2>2. /\ IsFiniteSet(extra \cup rest)
          /\ Cardinality(extra \cup rest)
                 = Cardinality(extra) + Cardinality(rest) - Cardinality(extra \cap rest)
        BY <1>5, <1>6, FS_Union
    <2>3. Cardinality(extra \cap rest) = 0
        BY <2>1, FS_EmptySet
    <2>4. Cardinality(extra) \in Nat
        BY <1>6, FS_CardinalityType
    <2> QED BY <1>5, <2>2, <2>3, <2>4
<1>8. Cardinality(Hub!Scanning) <= Cardinality(extra \cup rest) /\ IsFiniteSet(Hub!Scanning)
    <2>1. Hub!Scanning \in SUBSET (extra \cup rest)
        BY DEF rest
    <2> QED BY <2>1, <1>7, FS_Subset
<1>9. Cardinality(extra) \in Nat /\ Cardinality(Hub!Scanning) \in Nat
    BY <1>6, <1>8, FS_CardinalityType
<1>10. r7 \in Nat /\ ScanMax \div Hub!Spacing \in Nat
    BY HubNumbers, Quotient DEF Hub!HubInv, Hub!TypeOK
<1> QED BY <1>5, <1>6, <1>7, <1>8, <1>9, <1>10, CountsAlike DEF Hub!ScansBounded

\* Two young scans would have started too close to each other.
LEMMA OneYoung ==
    ASSUME Hub!HubInv, NEW extra, NEW credit, Hub!ScansPaidFor(extra, credit),
           NEW s \in Hub!Young(extra), NEW t \in Hub!Young(extra)
    PROVE  s = t
<1>1. /\ r3[s].spent \in Nat /\ r3[t].spent \in Nat
      /\ r3[s].spent < Hub!Spacing /\ r3[t].spent < Hub!Spacing
    BY ScanIs DEF Hub!Young
<1>2. s = t \/ Hub!Apart(s, t)
    BY DEF Hub!ScansPaidFor, Hub!Young
<1> QED BY <1>1, <1>2, HubNumbers DEF Hub!Apart

\* While a build waits for a run, that run is the only young one.
LEMMA YoungIsAwaited ==
    ASSUME NEW extra, NEW credit, Hub!ScansPaidFor(extra, credit),
           r4 # Missing, NEW s \in Hub!Young(extra)
    PROVE  s = r4
BY DEF Hub!ScansPaidFor, Hub!Guarded

\* When none does, a young scan has left its failure in the cache.
LEMMA YoungIsCached ==
    ASSUME Hub!HubInv, NEW extra, NEW credit, Hub!ScansPaidFor(extra, credit),
           r4 = Missing, NEW s \in Hub!Young(extra)
    PROVE  /\ r3[s].abandoned /\ Hub!Hit(r1)
           /\ r2.left + r3[s].spent >= Hub!Spacing
<1>1. s \in Slots /\ s # Missing /\ s \in Hub!Scanning
    BY HubNumbers DEF Hub!Young, Hub!Scanning
<1>2. /\ r3[s].abandoned /\ r2 # Missing /\ r2.payload.config = r1
      /\ r2.left + r3[s].spent >= Hub!Spacing
    BY <1>1 DEF Hub!ScansPaidFor, Hub!Guarded
<1>3. r2.left \in Nat /\ r3[s].spent \in Nat /\ r3[s].spent < Hub!Spacing
    BY <1>1, <1>2, ScanIs DEF Hub!HubInv, Hub!TypeOK, Hub!Results, Hub!Young
<1> QED BY <1>2, <1>3, HubNumbers DEF Hub!Hit

\* Without a young scan there is nothing to guard.
LEMMA Settled ==
    ASSUME NEW extra \in SUBSET Slots, NEW credit \in {0, 1}, Hub!PaidFor(extra, credit)',
           \A s, t \in Hub!Scanning' \ extra : s = t \/ Hub!Apart(s, t)',
           Hub!Young(extra)' = {},
           \A s \in Hub!Scanning' : Hub!UnderWay(s)' =>
               r3'[s].config = r1' \/ credit = 1 \/ r3'[s].spent > 0
    PROVE  Hub!ScansInv'
<1>1. Hub!ScansPaidFor(extra, credit)'
    BY DEF Hub!ScansPaidFor, Hub!Overtaken
<1> QED BY <1>1 DEF Hub!ScansInv

\* A slot that is freed leaves the others as they are.
LEMMA Freed ==
    ASSUME NEW s \in Slots, r3'[s] = Missing, \A t \in Slots : t # s => r3'[t] = r3[t]
    PROVE  /\ \A t \in Slots : Hub!UnderWay(t)' <=> t # s /\ Hub!UnderWay(t)
           /\ Hub!Scanning' = Hub!Scanning \ {s}
           /\ \A t \in Hub!Scanning' : r3'[t] = r3[t]
<1>1. \A t \in Slots : Hub!UnderWay(t)' <=> t # s /\ Hub!UnderWay(t)
    BY DEF Hub!UnderWay
<1>2. Hub!Scanning' = Hub!Scanning \ {s}
    BY DEF Hub!Scanning
<1>3. \A t \in Hub!Scanning' : r3'[t] = r3[t]
    BY <1>2 DEF Hub!Scanning
<1> QED BY <1>1, <1>2, <1>3

\* A scan that ends disturbs nobody.
LEMMA ScansEnd ==
    ASSUME Hub!HubInv, Hub!ScansInv, NEW s \in Slots, Hub!ScanEnds(s)
    PROVE  Hub!ScansInv'
<1>1. PICK extra \in SUBSET Slots, credit \in {0, 1} : Hub!ScansPaidFor(extra, credit)
    BY DEF Hub!ScansInv
<1>2. /\ r3'[s] = Missing /\ \A t \in Slots : t # s => r3'[t] = r3[t]
      /\ UNCHANGED <<r1, r2, r4, r7>>
    BY DEF Hub!ScanEnds, Hub!HubInv, Hub!TypeOK
<1>3. /\ \A t \in Slots : Hub!UnderWay(t)' <=> t # s /\ Hub!UnderWay(t)
      /\ Hub!Scanning' = Hub!Scanning \ {s}
      /\ \A t \in Hub!Scanning' : r3'[t] = r3[t] /\ t \in Slots
    BY <1>2, Freed DEF Hub!Scanning
<1>4. Hub!PaidFor(extra, credit)'
    BY <1>1, <1>2, <1>3 DEF Hub!ScansPaidFor, Hub!PaidFor
<1>5. \A t, u \in Hub!Scanning' \ extra : t = u \/ Hub!Apart(t, u)'
    BY <1>1, <1>3 DEF Hub!ScansPaidFor, Hub!Apart
<1>6. Hub!Young(extra)' = Hub!Young(extra) \ {s}
    BY <1>3 DEF Hub!Young
<1>7. \A t \in Hub!Young(extra)' : Hub!Guarded(t)'
    BY <1>1, <1>2, <1>3, <1>6 DEF Hub!ScansPaidFor, Hub!Guarded, Hub!Young
<1>8. \A t \in Hub!Scanning' : Hub!UnderWay(t)' => Hub!Overtaken(t, extra, credit)'
    <2> SUFFICES ASSUME NEW t \in Hub!Scanning', Hub!UnderWay(t)'
                 PROVE  Hub!Overtaken(t, extra, credit)'
        OBVIOUS
    <2>1. r3'[t] = r3[t] /\ Hub!Overtaken(t, extra, credit)
        BY <1>1, <1>3 DEF Hub!ScansPaidFor
    <2>2. \A u \in Hub!Young(extra)' : u \in Hub!Young(extra) /\ r3'[u] = r3[u]
        BY <1>3, <1>6 DEF Hub!Young
    <2> QED BY <1>2, <2>1, <2>2 DEF Hub!Overtaken
<1> QED BY <1>4, <1>5, <1>7, <1>8 DEF Hub!ScansPaidFor, Hub!ScansInv

\* A run that ends for good: who is young and has relied on the cache takes the
\* place of the run that has overwritten it.
LEMMA ScansFreed ==
    ASSUME Hub!HubInv, Hub!ScansInv, NEW s \in Slots, Hub!UnderWay(s), NEW p,
           Hub!RunEnds(s, p, Missing)
    PROVE  Hub!ScansInv'
<1>1. PICK extra \in SUBSET Slots, credit \in {0, 1} : Hub!ScansPaidFor(extra, credit)
    BY DEF Hub!ScansInv
<1>2. /\ r3'[s] = Missing /\ \A t \in Slots : t # s => r3'[t] = r3[t]
      /\ UNCHANGED <<r1, r7>> /\ r4' = IF r4 = s THEN Missing ELSE r4
    BY DEF Hub!RunEnds, Hub!HubInv, Hub!TypeOK
<1>3. /\ \A t \in Slots : Hub!UnderWay(t)' <=> t # s /\ Hub!UnderWay(t)
      /\ Hub!Scanning' = Hub!Scanning \ {s}
      /\ \A t \in Hub!Scanning' : r3'[t] = r3[t] /\ t \in Slots
    BY <1>2, Freed DEF Hub!Scanning
<1>4. Hub!PaidFor(extra, credit)'
    BY <1>1, <1>2, <1>3 DEF Hub!ScansPaidFor, Hub!PaidFor
<1>5. \A t, u \in Hub!Scanning' \ extra : t = u \/ Hub!Apart(t, u)'
    BY <1>1, <1>3 DEF Hub!ScansPaidFor, Hub!Apart
<1>6. Hub!Young(extra)' = Hub!Young(extra) \ {s}
    BY <1>3 DEF Hub!Young
<1>7. \A t \in Hub!Scanning' : Hub!UnderWay(t)' => Hub!Overtaken(t, extra, credit)'
    <2> SUFFICES ASSUME NEW t \in Hub!Scanning', Hub!UnderWay(t)'
                 PROVE  Hub!Overtaken(t, extra, credit)'
        OBVIOUS
    <2>1. r3'[t] = r3[t] /\ Hub!Overtaken(t, extra, credit)
        BY <1>1, <1>3 DEF Hub!ScansPaidFor
    <2>2. \A u \in Hub!Young(extra)' : u \in Hub!Young(extra) /\ r3'[u] = r3[u]
        BY <1>3, <1>6 DEF Hub!Young
    <2> QED BY <1>2, <2>1, <2>2 DEF Hub!Overtaken
<1>8. CASE \A t \in Hub!Young(extra)' : Hub!Guarded(t)'
    BY <1>4, <1>5, <1>7, <1>8 DEF Hub!ScansPaidFor, Hub!ScansInv
<1>9. ASSUME NEW t \in Hub!Young(extra)', ~Hub!Guarded(t)' PROVE Hub!ScansInv'
    <2>1. /\ t \in Hub!Young(extra) /\ t # s /\ t \in Slots /\ t \notin extra /\ t # Missing
          /\ r3'[t] = r3[t]
        BY <1>3, <1>6, <1>9, HubNumbers DEF Hub!Young
    <2>2. r4 = Missing
        <3>1. r4 # t
            BY <1>2, <1>9, <2>1 DEF Hub!Guarded
        <3> QED BY <1>1, <2>1, <3>1, YoungIsAwaited
    <2>3. s \in extra /\ r4' = Missing /\ s # Missing
        BY <1>1, <1>2, <2>2, HubNumbers DEF Hub!ScansPaidFor, Hub!PaidFor
    <2> DEFINE more == (extra \ {s}) \cup {t}
    <2>4. more \in SUBSET Slots
        BY <2>1
    <2>5. /\ IsFiniteSet(extra) /\ Cardinality(extra) + credit <= r7
          /\ \A u \in Slots : Hub!UnderWay(u) => u = r4 \/ u \in extra
        BY <1>1, CountsAlike DEF Hub!ScansPaidFor, Hub!PaidFor
    <2>6. /\ IsFiniteSet(more) /\ Cardinality(more) \in Nat /\ Cardinality(more) <= Cardinality(extra)
        BY <2>3, <2>5, Replaced
    <2>7. Cardinality(extra) \in Nat /\ r7 \in Nat
        BY <2>5, FS_CardinalityType, HubNumbers DEF Hub!HubInv, Hub!TypeOK
    <2>8. Cardinality(more) + credit <= r7'
        BY <1>2, <2>5, <2>6, <2>7
    <2>9. \A u \in Slots : Hub!UnderWay(u)' => u = r4' \/ u \in more
        BY <1>2, <1>3, <2>2, <2>5
    <2>10. Hub!PaidFor(more, credit)'
        BY <2>6, <2>8, <2>9, CountsAlike DEF Hub!PaidFor
    <2>11. Hub!Scanning' \ more \subseteq Hub!Scanning' \ extra
        BY <1>3
    <2>12. Hub!Young(more)' = {}
        <3>1. ASSUME NEW u \in Hub!Young(more)' PROVE FALSE
            <4>1. u \in Hub!Young(extra)' /\ u # t
                BY <2>11 DEF Hub!Young
            <4> QED BY <1>1, <1>6, <2>1, <4>1, OneYoung
        <3> QED BY <3>1
    <2>13. \A u \in Hub!Scanning' : Hub!UnderWay(u)' =>
               r3'[u].config = r1' \/ credit = 1 \/ r3'[u].spent > 0
        BY <1>7 DEF Hub!Overtaken
    <2>14. \A u, v \in Hub!Scanning' \ more : u = v \/ Hub!Apart(u, v)'
        BY <1>5, <2>11
    <2> HIDE DEF more
    <2> QED BY <2>4, <2>10, <2>12, <2>13, <2>14, Settled
<1> QED BY <1>8, <1>9

\* One more slot is paid for by unrest or from the credit.
LEMMA OneMorePaid ==
    ASSUME Hub!HubInv, NEW extra, NEW credit \in Nat, Hub!PaidFor(extra, credit),
           NEW x, NEW left \in Nat, NEW paid \in Nat, r7 + 1 + left <= paid + credit
    PROVE  Hub!IsFiniteSet(extra \cup {x}) /\ Hub!Cardinality(extra \cup {x}) + left <= paid
<1>1. IsFiniteSet(extra) /\ Cardinality(extra) + credit <= r7
    BY CountsAlike DEF Hub!PaidFor
<1>2. /\ IsFiniteSet(extra \cup {x}) /\ Cardinality(extra \cup {x}) \in Nat
      /\ Cardinality(extra \cup {x}) <= Cardinality(extra) + 1 /\ Cardinality(extra) \in Nat
    BY <1>1, OneMore
<1>3. r7 \in Nat
    BY HubNumbers DEF Hub!HubInv, Hub!TypeOK
<1>4. Cardinality(extra \cup {x}) + left <= paid
    BY <1>1, <1>2, <1>3
<1> QED BY <1>2, <1>4, CountsAlike

\* A build that fails pays for the run it had waited for.
LEMMA ScansFail ==
    ASSUME Hub!HubInv, Hub!ScansInv, Hub!BuildFails
    PROVE  Hub!ScansInv'
<1>1. PICK extra \in SUBSET Slots, credit \in {0, 1} : Hub!ScansPaidFor(extra, credit)
    BY DEF Hub!ScansInv
<1>2. /\ r4 # Missing /\ r4 \in Slots /\ r4' = Missing /\ r7' = r7 + 1 /\ r7 \in Nat
      /\ UNCHANGED <<r1, r2, r3>>
    BY HubNumbers DEF Hub!BuildFails, Hub!HubInv, Hub!TypeOK
<1>3. /\ Hub!Scanning' = Hub!Scanning
      /\ \A t \in Slots : Hub!UnderWay(t)' <=> Hub!UnderWay(t)
    BY <1>2 DEF Hub!Scanning, Hub!UnderWay
<1>0. PICK w \in Slots : w = r4
    BY <1>2
<1> DEFINE more == extra \cup {w}
<1>4. Hub!PaidFor(extra, credit)
    BY <1>1 DEF Hub!ScansPaidFor
<1>5. Hub!IsFiniteSet(more) /\ Hub!Cardinality(more) + credit <= r7'
    <2>1. credit \in Nat /\ r7 + 1 \in Nat /\ r7 + 1 + credit <= r7 + 1 + credit
        BY <1>2
    <2> HIDE DEF more
    <2>2. Hub!IsFiniteSet(more) /\ Hub!Cardinality(more) + credit <= r7 + 1
        BY <1>4, <2>1, OneMorePaid DEF more
    <2> QED BY <1>2, <2>2
<1>6. Hub!PaidFor(more, credit)'
    BY <1>0, <1>3, <1>4, <1>5 DEF Hub!PaidFor
<1>7. \A u, v \in Hub!Scanning' \ more : u = v \/ Hub!Apart(u, v)'
    BY <1>1, <1>2, <1>3 DEF Hub!ScansPaidFor, Hub!Apart
<1>8. Hub!Young(more)' = {}
    <2>1. ASSUME NEW u \in Hub!Young(more)' PROVE FALSE
        <3>1. u \in Hub!Young(extra) /\ u # r4
            BY <1>0, <1>2, <1>3 DEF Hub!Young
        <3> QED BY <1>1, <1>2, <3>1, YoungIsAwaited
    <2> QED BY <2>1
<1>9. \A u \in Hub!Scanning' : Hub!UnderWay(u)' =>
          r3'[u].config = r1' \/ credit = 1 \/ r3'[u].spent > 0
    BY <1>1, <1>2, <1>3 DEF Hub!ScansPaidFor, Hub!Overtaken, Hub!Scanning
<1>10. more \in SUBSET Slots
    BY <1>2
<1> HIDE DEF more
<1> QED BY <1>6, <1>7, <1>8, <1>9, <1>10, Settled

\* An edit pays for the young scan that had relied on the cache, or is to the credit
\* of the one a build still waits for.
LEMMA ScansEdit ==
    ASSUME Hub!HubInv, Hub!ScansInv, NEW c, Hub!Edit(c)
    PROVE  Hub!ScansInv'
<1>1. PICK extra \in SUBSET Slots, credit \in {0, 1} : Hub!ScansPaidFor(extra, credit)
    BY DEF Hub!ScansInv
<1>2. /\ r7' = r7 + 1 /\ r7 \in Nat /\ UNCHANGED <<r2, r3, r4>>
    BY HubNumbers DEF Hub!Edit, Hub!HubInv, Hub!TypeOK
<1>3. /\ Hub!Scanning' = Hub!Scanning
      /\ \A t \in Slots : Hub!UnderWay(t)' <=> Hub!UnderWay(t)
      /\ \A t \in Hub!Scanning : t \in Slots
    BY <1>2 DEF Hub!Scanning, Hub!UnderWay
<1>4. Hub!PaidFor(extra, credit)
    BY <1>1 DEF Hub!ScansPaidFor
<1>5. \A u, v \in Hub!Scanning' \ extra : u = v \/ Hub!Apart(u, v)'
    BY <1>1, <1>2, <1>3 DEF Hub!ScansPaidFor, Hub!Apart
<1>6. Hub!Young(extra)' = Hub!Young(extra)
    BY <1>2, <1>3 DEF Hub!Young
<1>7. CASE r4 = Missing /\ Hub!Young(extra) # {}
    <2>1. PICK t : t \in Hub!Young(extra)
        BY <1>7
    <2>2. /\ t \in Hub!Scanning \ extra /\ r3[t].abandoned
          /\ r3[t].spent \in Nat /\ Budget["projects"] <= r3[t].spent
        BY <1>1, <1>7, <2>1, YoungIsCached, ScanIs DEF Hub!Young
    <2> DEFINE more == extra \cup {t}
    <2>3. Hub!IsFiniteSet(more) /\ Hub!Cardinality(more) + credit <= r7'
        <3>1. credit \in Nat /\ r7 + 1 \in Nat /\ r7 + 1 + credit <= r7 + 1 + credit
            BY <1>2
        <3> HIDE DEF more
        <3>2. Hub!IsFiniteSet(more) /\ Hub!Cardinality(more) + credit <= r7 + 1
            BY <1>4, <3>1, OneMorePaid DEF more
        <3> QED BY <1>2, <3>2
    <2>4. Hub!PaidFor(more, credit)'
        BY <1>2, <1>3, <1>4, <2>3 DEF Hub!PaidFor
    <2>5. Hub!Young(more)' = {}
        <3>1. ASSUME NEW u \in Hub!Young(more)' PROVE FALSE
            <4>1. u \in Hub!Young(extra) /\ u # t
                BY <1>2, <1>3 DEF Hub!Young
            <4> QED BY <1>1, <2>1, <4>1, OneYoung
        <3> QED BY <3>1
    <2>6. \A u \in Hub!Scanning' : Hub!UnderWay(u)' => r3'[u].spent > 0
        <3> SUFFICES ASSUME NEW u \in Hub!Scanning, Hub!UnderWay(u) PROVE r3[u].spent > 0
            BY <1>2, <1>3
        <3>1. r3[t].spent <= r3[u].spent
            BY <1>1, <2>1 DEF Hub!ScansPaidFor, Hub!Overtaken
        <3>2. r3[u].spent \in Nat
            BY ScanIs
        <3> QED BY <2>2, <3>1, <3>2, HubNumbers
    <2>7. /\ more \in SUBSET Slots
          /\ \A u, v \in Hub!Scanning' \ more : u = v \/ Hub!Apart(u, v)'
        BY <1>3, <1>5, <2>2
    <2> HIDE DEF more
    <2> QED BY <2>4, <2>5, <2>6, <2>7, Settled
<1>8. CASE ~(r4 = Missing /\ Hub!Young(extra) # {})
    <2>1. Hub!PaidFor(extra, 1)'
        <3>1. IsFiniteSet(extra) /\ Cardinality(extra) + credit <= r7
            BY <1>4, CountsAlike DEF Hub!PaidFor
        <3>2. Cardinality(extra) + 1 <= r7'
            BY <1>2, <3>1, FS_CardinalityType
        <3>3. \A u \in Slots : Hub!UnderWay(u)' => u = r4' \/ u \in extra
            BY <1>2, <1>3, <1>4 DEF Hub!PaidFor
        <3> QED BY <3>1, <3>2, <3>3, CountsAlike DEF Hub!PaidFor
    <2>2. \A t \in Hub!Young(extra)' : Hub!Guarded(t)'
        <3> SUFFICES ASSUME NEW t \in Hub!Young(extra) PROVE Hub!Guarded(t)'
            BY <1>6
        <3>1. t = r4
            BY <1>1, <1>8, YoungIsAwaited
        <3> QED BY <1>2, <3>1 DEF Hub!Guarded
    <2>3. \A t \in Hub!Scanning' : Hub!UnderWay(t)' => Hub!Overtaken(t, extra, 1)'
        BY <1>1, <1>2, <1>3, <1>6 DEF Hub!ScansPaidFor, Hub!Overtaken
    <2>4. Hub!ScansPaidFor(extra, 1)'
        BY <1>5, <2>1, <2>2, <2>3 DEF Hub!ScansPaidFor
    <2> QED BY <2>4 DEF Hub!ScansInv
<1> QED BY <1>7, <1>8

\* A run that is cut off and leaves its thread: its failure guards the young scan, or
\* the credit of an edit pays for that.
LEMMA ScansTimeOut ==
    ASSUME Hub!HubInv, Hub!ScansInv, NEW s \in Slots, Hub!TimeOut(s),
           Hub!InThread(r3[s].config)
    PROVE  Hub!ScansInv'
<1>1. PICK extra \in SUBSET Slots, credit \in {0, 1} : Hub!ScansPaidFor(extra, credit)
    BY DEF Hub!ScansInv
<1> DEFINE c == r3[s].config
<1>2. /\ s \in Hub!Scanning /\ Hub!UnderWay(s) /\ c \in Configs
      /\ r3[s].spent = Budget["projects"] /\ s # Missing
    <2>1. s \in Hub!Scanning /\ Hub!UnderWay(s)
        BY DEF Hub!TimeOut, Hub!Scanning, Hub!UnderWay
    <2> QED BY <2>1, ScanIs, HubNumbers DEF Hub!TimeOut
<1>3. /\ r3' = [r3 EXCEPT ![s] = [@ EXCEPT !.abandoned = TRUE]] /\ r3 \in [Slots -> Hub!Runs \cup {Missing}]
      /\ UNCHANGED <<r1, r7>> /\ r4' = IF r4 = s THEN Missing ELSE r4
    BY DEF Hub!TimeOut, Hub!RunEnds, Hub!HubInv, Hub!TypeOK
<1>4. /\ r3'[s] # Missing /\ r3'[s].abandoned /\ r3'[s].config = c
      /\ r3'[s].spent = r3[s].spent
      /\ \A t \in Slots : t # s => r3'[t] = r3[t]
    <2>1. r3[s] \in Hub!Runs
        BY <1>2, <1>3 DEF Hub!UnderWay
    <2>2. r3'[s] = [r3[s] EXCEPT !.abandoned = TRUE] /\ r3'[s] \in Hub!Runs
        BY <1>3, <2>1 DEF Hub!Runs
    <2> QED BY <1>3, <2>1, <2>2, HubNumbers DEF Hub!Runs
<1>5. /\ r2' # Missing /\ r2'.payload.config = c /\ r2'.left \in Nat /\ r2'.left >= FailTtl
    <2>1. Hub!Kept(Hub!Payload(c, "failed", 0))
        BY DEF Hub!TimeOut, Hub!RunEnds
    <2>2. r2' = [payload |-> Hub!Payload(c, "failed", 0), left |-> Hub!Keeps(c, "failed")]
        BY <2>1 DEF Hub!Kept, Hub!Payload
    <2>3. Hub!Keeps(c, "failed") \in Nat /\ Hub!Keeps(c, "failed") >= FailTtl
        BY <1>2, HubNumbers DEF Hub!Keeps
    <2>4. Hub!Payload(c, "failed", 0) \in Hub!CardPayloads
        BY <1>2 DEF Hub!Payload, Hub!CardPayloads
    <2>5. r2' \in Hub!Results
        BY <2>2, <2>3, <2>4 DEF Hub!Results
    <2> QED BY <2>2, <2>3, <2>5, HubNumbers DEF Hub!Payload
<1>6. /\ \A t \in Slots : Hub!UnderWay(t)' <=> t # s /\ Hub!UnderWay(t)
      /\ Hub!Scanning' = Hub!Scanning
      /\ \A t \in Hub!Scanning : /\ t \in Slots /\ r3'[t].spent = r3[t].spent
                                 /\ r3'[t].config = r3[t].config
    <2>1. \A t \in Slots : Hub!UnderWay(t)' <=> t # s /\ Hub!UnderWay(t)
        BY <1>2, <1>4 DEF Hub!UnderWay
    <2>2. Hub!Scanning' = Hub!Scanning
        BY <1>2, <1>4 DEF Hub!Scanning
    <2> QED BY <1>4, <2>1, <2>2 DEF Hub!Scanning
<1>7. Hub!PaidFor(extra, credit)
    BY <1>1 DEF Hub!ScansPaidFor
<1>8. Hub!PaidFor(extra, credit)'
    BY <1>3, <1>6, <1>7 DEF Hub!PaidFor
<1>9. \A t, u \in Hub!Scanning' \ extra : t = u \/ Hub!Apart(t, u)'
    BY <1>1, <1>6 DEF Hub!ScansPaidFor, Hub!Apart
<1>10. Hub!Young(extra)' = Hub!Young(extra)
    BY <1>6 DEF Hub!Young
<1>11. \A t \in Hub!Scanning' : Hub!UnderWay(t)' => Hub!Overtaken(t, extra, credit)'
    <2> SUFFICES ASSUME NEW t \in Hub!Scanning, Hub!UnderWay(t)'
                 PROVE  Hub!Overtaken(t, extra, credit)'
        BY <1>6
    <2>1. Hub!Overtaken(t, extra, credit)
        BY <1>1, <1>6 DEF Hub!ScansPaidFor
    <2>2. \A u \in Hub!Young(extra) : r3'[u].spent = r3[u].spent
        BY <1>6 DEF Hub!Young
    <2> QED BY <1>3, <1>6, <1>10, <2>1, <2>2 DEF Hub!Overtaken
<1>12. CASE \A t \in Hub!Young(extra)' : Hub!Guarded(t)'
    BY <1>8, <1>9, <1>11, <1>12 DEF Hub!ScansPaidFor, Hub!ScansInv
<1>13. ASSUME NEW t \in Hub!Young(extra)', ~Hub!Guarded(t)' PROVE Hub!ScansInv'
    <2>1. t \in Hub!Young(extra) /\ t \in Hub!Scanning \ extra /\ t \in Slots /\ t # Missing
        BY <1>6, <1>10, HubNumbers DEF Hub!Young
    <2>2. /\ r3[t].spent \in Nat /\ Budget["projects"] <= r3[t].spent
          /\ r3[t].spent <= r3[s].spent /\ r4' = Missing /\ r3'[t].abandoned
        <3>1. CASE t = s
            <4>1. r4 = s
                BY <1>2, <1>7, <2>1, <3>1 DEF Hub!PaidFor
            <4>2. r3[t].spent = Budget["projects"] /\ r3'[t].abandoned /\ r4' = Missing
                BY <1>2, <1>3, <1>4, <3>1, <4>1
            <4> QED BY <1>2, <3>1, <4>2, HubNumbers
        <3>2. CASE t # s
            <4>1. r4 # t
                BY <1>3, <1>13, <3>2 DEF Hub!Guarded
            <4>2. r4 = Missing
                BY <1>1, <2>1, <4>1, YoungIsAwaited
            <4>3. r3[t].abandoned /\ Budget["projects"] <= r3[t].spent
                BY <1>1, <2>1, <4>2, YoungIsCached, ScanIs
            <4>4. r3[t].spent \in Nat /\ r3[t].spent <= r3[s].spent
                BY <1>1, <1>2, <2>1, ScanIs DEF Hub!ScansPaidFor, Hub!Overtaken
            <4> QED BY <1>3, <1>4, <2>1, <3>2, <4>2, <4>3, <4>4, HubNumbers
        <3> QED BY <3>1, <3>2
    <2>3. c # r1
        BY <1>3, <1>5, <1>6, <1>13, <2>1, <2>2, HubNumbers DEF Hub!Guarded
    <2>4. credit = 1
        <3>1. Hub!Overtaken(s, extra, credit)
            BY <1>1, <1>2 DEF Hub!ScansPaidFor
        <3> QED BY <1>2, <2>1, <2>2, <2>3, <3>1, HubNumbers DEF Hub!Overtaken
    <2> DEFINE more == extra \cup {t}
    <2>5. Hub!IsFiniteSet(more) /\ Hub!Cardinality(more) + 0 <= r7
        <3>1. r7 \in Nat /\ r7 + 1 + 0 <= r7 + credit /\ credit \in Nat
            BY <2>4, HubNumbers DEF Hub!HubInv, Hub!TypeOK
        <3> QED BY <1>7, <3>1, OneMorePaid
    <2>6. Hub!PaidFor(more, 0)'
        BY <1>3, <1>6, <1>7, <2>5 DEF Hub!PaidFor
    <2>7. Hub!Young(more)' = {}
        <3>1. ASSUME NEW u \in Hub!Young(more)' PROVE FALSE
            <4>1. u \in Hub!Young(extra)' /\ u # t
                BY DEF Hub!Young
            <4> QED BY <1>1, <1>10, <2>1, <4>1, OneYoung
        <3> QED BY <3>1
    <2>8. \A u \in Hub!Scanning' : Hub!UnderWay(u)' => r3'[u].spent > 0
        <3> SUFFICES ASSUME NEW u \in Hub!Scanning, Hub!UnderWay(u) PROVE r3[u].spent > 0
            BY <1>6
        <3>1. r3[t].spent <= r3[u].spent
            BY <1>1, <2>1 DEF Hub!ScansPaidFor, Hub!Overtaken
        <3>2. r3[u].spent \in Nat
            BY ScanIs
        <3> QED BY <2>2, <3>1, <3>2, HubNumbers
    <2>9. /\ more \in SUBSET Slots /\ 0 \in {0, 1}
          /\ \A u, v \in Hub!Scanning' \ more : u = v \/ Hub!Apart(u, v)'
        BY <1>9, <2>1
    <2> HIDE DEF more
    <2> QED BY <2>6, <2>7, <2>8, <2>9, Settled
<1> QED BY <1>12, <1>13

\* A build that is answered from the cache or at once has nothing young to disturb, and
\* a new scan starts when no young one is left.
LEMMA ScansAsk ==
    ASSUME Hub!HubInv, Hub!ScansInv, NEW s \in Slots, Hub!Ask(s)
    PROVE  Hub!ScansInv'
<1>1. PICK extra \in SUBSET Slots, credit \in {0, 1} : Hub!ScansPaidFor(extra, credit)
    BY DEF Hub!ScansInv
<1>2. r4 = Missing /\ r3[s] = Missing /\ r1 \in Configs /\ UNCHANGED <<r1, r7>>
    BY DEF Hub!Ask, Hub!HubInv, Hub!TypeOK
<1>3. /\ \A t, u \in Hub!Scanning \ extra : t = u \/ Hub!Apart(t, u)
      /\ Hub!PaidFor(extra, credit)
      /\ \A t \in Hub!Scanning : Hub!UnderWay(t) => Hub!Overtaken(t, extra, credit)
    BY <1>1 DEF Hub!ScansPaidFor
<1>4. CASE Hub!Hit(r1)
    BY <1>1, <1>2, <1>4 DEF Hub!Ask, Hub!ScansInv, Hub!ScansPaidFor, Hub!PaidFor, Hub!Scanning,
            Hub!Apart, Hub!Young, Hub!Guarded, Hub!Overtaken, Hub!UnderWay
<1>5. CASE ~Hub!Hit(r1)
    <2>1. Hub!Young(extra) = {}
        BY <1>1, <1>2, <1>5, YoungIsCached
    <2>2. CASE Hub!AtOnce(r1)
        <3>1. UNCHANGED <<r1, r3, r4, r7>>
            BY <1>2, <1>5, <2>2 DEF Hub!Ask
        <3>2. /\ Hub!Scanning' = Hub!Scanning /\ Hub!Young(extra)' = {}
              /\ Hub!PaidFor(extra, credit)'
            BY <1>3, <2>1, <3>1 DEF Hub!Scanning, Hub!Young, Hub!PaidFor, Hub!UnderWay
        <3>3. /\ \A t, u \in Hub!Scanning' \ extra : t = u \/ Hub!Apart(t, u)'
              /\ \A t \in Hub!Scanning' : Hub!UnderWay(t)' =>
                     r3'[t].config = r1' \/ credit = 1 \/ r3'[t].spent > 0
            BY <1>3, <3>1, <3>2 DEF Hub!Apart, Hub!Overtaken, Hub!UnderWay
        <3> QED BY <3>2, <3>3, Settled
    <2>3. CASE ~Hub!AtOnce(r1)
        <3> DEFINE new == [config |-> r1, spent |-> 0, abandoned |-> FALSE]
        <3>1. r3' = [r3 EXCEPT ![s] = new] /\ r4' = s
            BY <1>2, <1>5, <2>3 DEF Hub!Ask
        <3>2. /\ r3'[s] = new /\ \A t \in Slots : t # s => r3'[t] = r3[t]
            BY <3>1 DEF Hub!HubInv, Hub!TypeOK
        <3>3. /\ r3'[s].config = r1 /\ r3'[s].spent = 0
              /\ \A t \in Hub!Scanning : t \in Slots /\ t # s /\ r3'[t] = r3[t]
              /\ Hub!Scanning' \subseteq Hub!Scanning \cup {s}
              /\ \A t \in Slots : Hub!UnderWay(t)' => t = s \/ Hub!UnderWay(t)
            BY <1>2, <3>2 DEF Hub!Scanning, Hub!UnderWay
        <3>4. Hub!PaidFor(extra, credit)'
            BY <1>2, <1>3, <3>1, <3>3, HubNumbers DEF Hub!PaidFor
        <3>5. ASSUME NEW t \in Hub!Scanning \ extra PROVE r3[t].spent >= Hub!Spacing
            <4>1. ~(r3[t].spent < Hub!Spacing)
                BY <2>1, <3>5 DEF Hub!Young
            <4> QED BY <3>5, <4>1, ScanIs, HubNumbers
        <3>6. Hub!Young(extra)' \subseteq {s}
            <4> SUFFICES ASSUME NEW t \in Hub!Young(extra)', t # s PROVE FALSE
                OBVIOUS
            <4>1. t \in Hub!Scanning \ extra /\ r3[t].spent < Hub!Spacing
                BY <3>3 DEF Hub!Young
            <4> QED BY <2>1, <4>1 DEF Hub!Young
        <3>7. \A t, u \in Hub!Scanning' \ extra : t = u \/ Hub!Apart(t, u)'
            <4> SUFFICES ASSUME NEW t \in Hub!Scanning' \ extra, NEW u \in Hub!Scanning' \ extra, t # u
                         PROVE  Hub!Apart(t, u)'
                OBVIOUS
            <4>1. CASE t # s /\ u # s
                BY <1>3, <3>3, <4>1 DEF Hub!Apart
            <4>2. CASE t = s
                BY <3>3, <3>5, <4>2, HubNumbers DEF Hub!Apart
            <4>3. CASE u = s
                BY <3>3, <3>5, <4>3, HubNumbers DEF Hub!Apart
            <4> QED BY <4>1, <4>2, <4>3
        <3>8. \A t \in Hub!Young(extra)' : Hub!Guarded(t)'
            BY <3>1, <3>6 DEF Hub!Guarded
        <3>9. \A t \in Hub!Scanning' : Hub!UnderWay(t)' => Hub!Overtaken(t, extra, credit)'
            <4> SUFFICES ASSUME NEW t \in Hub!Scanning', Hub!UnderWay(t)'
                         PROVE  Hub!Overtaken(t, extra, credit)'
                OBVIOUS
            <4>1. CASE t = s
                BY <1>2, <3>3, <3>6, <4>1 DEF Hub!Overtaken
            <4>2. CASE t # s
                <5>1. /\ t \in Hub!Scanning /\ r3'[t] = r3[t] /\ r3[t].spent \in Nat
                      /\ Hub!Overtaken(t, extra, credit)
                    BY <1>3, <3>3, <4>2, ScanIs
                <5>2. \A u \in Hub!Young(extra)' : r3'[u].spent = 0
                    BY <3>3, <3>6
                <5> QED BY <1>2, <5>1, <5>2 DEF Hub!Overtaken
            <4> QED BY <4>1, <4>2
        <3> QED BY <3>4, <3>7, <3>8, <3>9 DEF Hub!ScansPaidFor, Hub!ScansInv
    <2> QED BY <2>2, <2>3
<1> QED BY <1>4, <1>5

\* All grow older together, and the cache by as much.
LEMMA ScansTick ==
    ASSUME Hub!HubInv, Hub!ScansInv, Hub!Tick
    PROVE  Hub!ScansInv'
<1>1. PICK extra \in SUBSET Slots, credit \in {0, 1} : Hub!ScansPaidFor(extra, credit)
    BY DEF Hub!ScansInv
<1>2. UNCHANGED <<r1, r4, r7>>
    BY DEF Hub!Tick
<1>3. ASSUME NEW t \in Slots, r3'[t] # Missing
      PROVE  /\ r3[t] # Missing /\ r3'[t].config = r3[t].config
             /\ r3'[t].abandoned = r3[t].abandoned /\ r3'[t].spent = r3[t].spent + 1
    <2>1. r3[t] \in Hub!Runs /\ r3'[t] = [r3[t] EXCEPT !.spent = @ + 1]
        BY <1>3, HubNumbers DEF Hub!Tick, Hub!HubInv, Hub!TypeOK
    <2> QED BY <2>1, HubNumbers DEF Hub!Runs
<1>4. \A t \in Slots : Hub!UnderWay(t)' => Hub!UnderWay(t)
    BY <1>3 DEF Hub!UnderWay
<1>5. ASSUME NEW t \in Hub!Scanning'
      PROVE  /\ t \in Hub!Scanning /\ t \in Slots /\ r3'[t].config = r3[t].config
             /\ r3'[t].abandoned = r3[t].abandoned
             /\ r3'[t].spent = r3[t].spent + 1 /\ r3[t].spent \in Nat
    BY <1>3, ScanIs DEF Hub!Scanning
<1>6. Hub!PaidFor(extra, credit)'
    BY <1>1, <1>2, <1>4 DEF Hub!ScansPaidFor, Hub!PaidFor
<1>7. \A t, u \in Hub!Scanning' \ extra : t = u \/ Hub!Apart(t, u)'
    <2> SUFFICES ASSUME NEW t \in Hub!Scanning' \ extra, NEW u \in Hub!Scanning' \ extra, t # u
                 PROVE  Hub!Apart(t, u)'
        OBVIOUS
    <2>1. Hub!Apart(t, u)
        BY <1>1, <1>5 DEF Hub!ScansPaidFor
    <2> QED BY <1>5, <2>1, HubNumbers DEF Hub!Apart
<1>8. ASSUME NEW t \in Hub!Young(extra)' PROVE t \in Hub!Young(extra) /\ t \in Hub!Scanning'
    BY <1>5, HubNumbers DEF Hub!Young
<1>9. ASSUME NEW t \in Hub!Young(extra)' PROVE Hub!Guarded(t)'
    <2>1. CASE t = r4
        BY <1>2, <2>1 DEF Hub!Guarded
    <2>2. CASE t # r4
        <3>1. r3[t].abandoned /\ r4 = Missing /\ r2 # Missing /\ r2.payload.config = r1
              /\ r2.left + r3[t].spent >= Hub!Spacing
            BY <1>1, <1>8, <2>2 DEF Hub!ScansPaidFor, Hub!Guarded
        <3>2. r2 \in Hub!Results /\ r2.left \in Nat
            BY <3>1 DEF Hub!HubInv, Hub!TypeOK, Hub!Results
        <3>3. r2.left # 0
            BY <1>5, <1>8, <3>1, <3>2, HubNumbers DEF Hub!Young
        <3>4. r2' = [payload |-> [r2.payload EXCEPT !.age = @ + 1], left |-> r2.left - 1]
            BY <3>1, <3>3 DEF Hub!Tick
        <3>5. r2' \in Hub!Results /\ r2'.payload.config = r2.payload.config /\ r2'.left = r2.left - 1
            BY <3>2, <3>3, <3>4 DEF Hub!Results, Hub!CardPayloads
        <3> QED BY <1>2, <1>5, <1>8, <3>1, <3>2, <3>5, HubNumbers DEF Hub!Guarded
    <2> QED BY <2>1, <2>2
<1>10. \A t \in Hub!Scanning' : Hub!UnderWay(t)' => Hub!Overtaken(t, extra, credit)'
    <2> SUFFICES ASSUME NEW t \in Hub!Scanning', Hub!UnderWay(t)'
                 PROVE  Hub!Overtaken(t, extra, credit)'
        OBVIOUS
    <2>1. Hub!Overtaken(t, extra, credit) /\ r3'[t].spent = r3[t].spent + 1 /\ r3[t].spent \in Nat
          /\ r3'[t].config = r3[t].config
        BY <1>1, <1>4, <1>5 DEF Hub!ScansPaidFor
    <2>2. \A u \in Hub!Young(extra)' : /\ u \in Hub!Young(extra) /\ r3[u].spent \in Nat
                                       /\ r3'[u].spent = r3[u].spent + 1
        BY <1>5, <1>8
    <2> QED BY <1>2, <2>1, <2>2 DEF Hub!Overtaken
<1> QED BY <1>6, <1>7, <1>9, <1>10 DEF Hub!ScansPaidFor, Hub!ScansInv

LEMMA ScansInit == ASSUME Hub!Init PROVE Hub!ScansInv
<1>1. Hub!Scanning = {} /\ r7 = 0 /\ \A s \in Slots : ~Hub!UnderWay(s)
    BY DEF Hub!Init, Hub!Scanning, Hub!UnderWay
<1>2. Hub!PaidFor({}, 0)
    BY <1>1, FS_EmptySet, CountsAlike DEF Hub!PaidFor
<1>3. Hub!ScansPaidFor({}, 0)
    BY <1>1, <1>2 DEF Hub!ScansPaidFor, Hub!Young
<1>4. {} \in SUBSET Slots /\ 0 \in {0, 1}
    OBVIOUS
<1> QED BY <1>3, <1>4 DEF Hub!ScansInv

LEMMA ScansNext ==
    ASSUME Hub!HubInv, Hub!ScansInv, [Hub!Next]_(Hub!vars) PROVE Hub!ScansInv'
<1>1. CASE UNCHANGED Hub!vars
    BY <1>1 DEF Hub!vars, Hub!ScansInv, Hub!ScansPaidFor, Hub!PaidFor, Hub!Scanning,
            Hub!Apart, Hub!Young, Hub!Guarded, Hub!Overtaken, Hub!UnderWay
<1>2. ASSUME NEW s \in Slots, Hub!Provide(s) PROVE Hub!ScansInv'
    BY <1>2, ScansFreed DEF Hub!Provide
<1>3. ASSUME NEW s \in Slots, Hub!TimeOut(s) PROVE Hub!ScansInv'
    <2>1. CASE Hub!InThread(r3[s].config)
        BY <1>3, <2>1, ScansTimeOut
    <2>2. CASE ~Hub!InThread(r3[s].config)
        BY <1>3, <2>2, ScansFreed DEF Hub!TimeOut
    <2> QED BY <2>1, <2>2
<1> QED BY <1>1, <1>2, <1>3, ScansAsk, ScansEnd, ScansFail, ScansEdit, ScansTick DEF Hub!Next

\* The inductive invariant of the widgets' behaviours.
HubPart == part = "hub" => Hub!HubInv /\ Hub!ScansInv

\* It holds of the widgets at all times.
LEMMA HubAlways == PartsSpec => []HubPart
<1>1. PartsInit => HubPart
    BY HubInit, ScansInit DEF PartsInit, HubPart
<1>2. HubPart /\ [PartsNext]_<<part, registers>> => HubPart'
    BY HubStep, HubNext, ScansNext DEF HubPart, PartsNext, registers
<1> QED BY <1>1, <1>2, PTL DEF PartsSpec

\* Whatever runs are shared, cut off or overtaken by edits, what a card is answered
\* is of the entry as it was asked for, says what that entry can say, and is no
\* older than the budget of a run and its time to live.
THEOREM ShownRecent == PartsSpec => []ShownIsRecent
<1>1. HubPart => ShownIsRecent
    BY DEF HubPart, Hub!HubInv, ShownIsRecent
<1> QED BY <1>1, HubAlways, PTL

\* The threads that scan for a widget at one time are never more than their longest
\* life makes of a budget and the time a failure is kept, one, and the edits and
\* failed builds there have been, whatever is shared, overtaken or overwritten.
THEOREM ScansAreFew == PartsSpec => []ScansBounded
<1>1. HubPart => ScansBounded
    BY PaidIsBounded DEF HubPart, ScansBounded
<1> QED BY <1>1, HubAlways, PTL

-----------------------------------------------------------------------------
(* The dashboard's profile.  key r1, cursor r2, entity r3, outbox r4, boot r5, *)
(* pc r6, had r7, call r8, authority r9, accepted r10, made r11, crossed r12,  *)
(* doubled r13.                                                                *)

\* A step of the behaviour is one of the profile store.
LEMMA ProfileStep ==
    ASSUME part = "profile", [PartsNext]_<<part, registers>>
    PROVE  part' = "profile" /\ [Profile!Next]_(Profile!vars)
BY DEF PartsNext, registers, from7, from8, from9, from11, from12, from13, from14, Profile!vars,
       Profile!dbVars, Profile!tabVars, Profile!cloudVars, Profile!historyVars

\* The limits are numbers, and no tab is a key.
LEMMA ProfileNumbers == NoKey \notin Tabs /\ MaxUpdates \in Nat /\ MaxRevision \in Nat
BY PartsAssumption DEF PartsAssumption, Profile!ProfileConstants

\* What stands for no profile, no read and no call is of their types.
LEMMA NothingTypes ==
    /\ Profile!Nothing \in Profile!Authorized /\ Profile!Nothing.rev = 0
    /\ Profile!NoRead \in Profile!Reads
    /\ Profile!NoCall \in Profile!Exchanges /\ Profile!NoCall.stage = "none"
<1> USE ProfileNumbers
<1>1. Profile!Nothing \in Profile!Authorized /\ Profile!Nothing.rev = 0
    BY DEF Profile!Nothing, Profile!Authorized, Profile!Profiles
<1>2. Profile!NoRead \in Profile!Reads
    BY DEF Profile!NoRead, Profile!Reads
<1>3. Profile!NoCall \in Profile!Exchanges /\ Profile!NoCall.stage = "none"
    BY <1>1 DEF Profile!NoCall, Profile!Exchanges
<1> QED BY <1>1, <1>2, <1>3

\* At first the database is empty and no tab has begun.
LEMMA ProfileInit == ASSUME Profile!Init PROVE Profile!ProfileInv
<1> USE NothingTypes, ProfileNumbers
<1>1. Profile!TypeOK
    <2>1. r3 \in Profile!Profiles /\ r9 \in Profile!Authorized
        BY DEF Profile!Init, Profile!Authorized
    <2>2. r7 \in [Tabs -> Profile!Reads] /\ r8 \in [Tabs -> Profile!Exchanges]
        BY DEF Profile!Init
    <2>3. /\ r5 \in [Tabs -> {"new", "making", "done"}]
          /\ r6 \in [Tabs -> {"idle", "update", "encrypted", "apply"}]
        BY DEF Profile!Init
    <2>4. r12 \in BOOLEAN /\ r13 \in BOOLEAN
        BY DEF Profile!Init
    <2> QED BY <2>1, <2>2, <2>3, <2>4 DEF Profile!Init, Profile!TypeOK
<1>2. Profile!AnswersAreTaken
    BY DEF Profile!Init, Profile!AnswersAreTaken, Profile!Known, Profile!Taken, Profile!Nothing,
           Profile!NoCall, Profile!Elsewhere
<1>3. Profile!CursorsBehind /\ Profile!OneKey /\ Profile!OutboxPreserved
    BY DEF Profile!Init, Profile!CursorsBehind, Profile!OneKey, Profile!OutboxPreserved,
           Profile!Taken, Profile!Nothing, Profile!NoCall, Profile!NoRead
<1> QED BY <1>1, <1>2, <1>3 DEF Profile!ProfileInv

\* An exchange with the authority keeps the types, and what it has taken it keeps.
LEMMA ExchangeTypes ==
    ASSUME Profile!TypeOK, NEW t \in Tabs, Profile!Exchange(t)
    PROVE  Profile!TypeOK' /\ r10 \subseteq r10'
<1> DEFINE known == {m \in r8[t].batch : \E a \in r10 : a.op = m.op}
           fresh == {m \in r8[t].batch \ known : m.base = r9.rev}
<1>1. r8[t] \in Profile!Exchanges /\ r8[t].batch \subseteq Profile!Mutations
    BY DEF Profile!TypeOK, Profile!Exchanges
<1>2. r9' \in Profile!Authorized
    <2>1. CASE fresh = {}
        BY <2>1 DEF Profile!Exchange, Profile!TypeOK
    <2>2. CASE fresh # {}
        <3>1. PICK m \in fresh : r9' = [rev |-> m.base + 1, by |-> m.op, key |-> m.key]
            BY <2>2 DEF Profile!Exchange
        <3>2. m \in Profile!Mutations /\ m.base = r9.rev /\ r9.rev < MaxRevision
            BY <1>1, <2>2 DEF Profile!Exchange
        <3> QED BY <3>1, <3>2, ProfileNumbers
                DEF Profile!TypeOK, Profile!Mutations, Profile!Authorized, Profile!Profiles
    <2> QED BY <2>1, <2>2
<1>3. r10 \subseteq r10' /\ r10' \subseteq Profile!Acks
    <2>1. ASSUME NEW m \in fresh PROVE [op |-> m.op, rev |-> m.base + 1] \in Profile!Acks
        BY <1>1 DEF Profile!Mutations, Profile!Acks
    <2>2. r10' = r10 \cup {[op |-> m.op, rev |-> m.base + 1] : m \in fresh}
        BY DEF Profile!Exchange
    <2> HIDE DEF fresh
    <2> QED BY <2>1, <2>2 DEF Profile!TypeOK
<1>4. r8' \in [Tabs -> Profile!Exchanges]
    <2>1. r8' = [r8 EXCEPT ![t] = [r8[t] EXCEPT !.stage = "answered", !.batch = {},
              !.acks = {a \in r10' : \E m \in r8[t].batch : a.op = m.op}, !.change = r9']]
        BY <1>1 DEF Profile!Exchange, Profile!TypeOK, Profile!Exchanges
    <2>2. [r8[t] EXCEPT !.stage = "answered", !.batch = {},
              !.acks = {a \in r10' : \E m \in r8[t].batch : a.op = m.op}, !.change = r9']
          \in Profile!Exchanges
        BY <1>1, <1>2, <1>3 DEF Profile!Exchanges
    <2> QED BY <2>1, <2>2 DEF Profile!TypeOK
<1>5. \A u \in Tabs : r5[u] = "done" \/ (r8'[u] = Profile!NoCall /\ r6[u] = "idle")
    <2>1. r5[t] = "done"
        BY NothingTypes DEF Profile!Exchange, Profile!TypeOK
    <2>2. \A u \in Tabs : u # t => r8'[u] = r8[u]
        BY DEF Profile!Exchange, Profile!TypeOK
    <2> QED BY <2>1, <2>2 DEF Profile!TypeOK
<1>6. \A u \in Tabs : r6[u] = "apply" => r8'[u].stage = "answered"
    BY DEF Profile!Exchange, Profile!TypeOK
<1> QED BY <1>2, <1>3, <1>4, <1>5, <1>6
        DEF Profile!Exchange, Profile!TypeOK, Profile!dbVars, Profile!historyVars

\* The types, step by step.
LEMMA ProfileTypes ==
    ASSUME Profile!TypeOK, [Profile!Next]_(Profile!vars) PROVE Profile!TypeOK'
<1> USE NothingTypes, ProfileNumbers
        DEF Profile!dbVars, Profile!tabVars, Profile!cloudVars, Profile!historyVars
<1>1. CASE UNCHANGED Profile!vars
    BY <1>1 DEF Profile!vars, Profile!TypeOK
<1>2. ASSUME NEW t \in Tabs, Profile!BootLooks(t) \/ Profile!BootMakes(t) PROVE Profile!TypeOK'
    <2>1. CASE Profile!BootLooks(t)
        BY <2>1 DEF Profile!BootLooks, Profile!TypeOK
    <2>2. CASE Profile!BootMakes(t)
        <3>1. r13' \in BOOLEAN /\ r12' \in BOOLEAN
            BY <2>2, Zenon DEF Profile!BootMakes, Profile!TypeOK
        <3> QED BY <2>2, <3>1 DEF Profile!BootMakes, Profile!TypeOK
    <2> QED BY <1>2, <2>1, <2>2
<1>3. ASSUME NEW t \in Tabs, NEW task \in {"update", "apply"}, Profile!Identity(t, task)
      PROVE  Profile!TypeOK'
    <2>1. [key |-> r1, cursor |-> r2, rev |-> 0] \in Profile!Reads
        BY DEF Profile!TypeOK, Profile!Reads
    <2>2. r7' = [r7 EXCEPT ![t] = [key |-> r1, cursor |-> r2, rev |-> 0]] /\ r1 # NoKey
        BY <1>3 DEF Profile!Identity, Profile!TypeOK
    <2> QED BY <1>3, <2>1, <2>2 DEF Profile!Identity, Profile!TypeOK
<1>4. ASSUME NEW t \in Tabs, Profile!ReadEntity(t) PROVE Profile!TypeOK'
    <2> DEFINE h == [r7[t] EXCEPT !.rev = r3.rev]
    <2>1. h \in Profile!Reads /\ h.key = r7[t].key
        BY DEF Profile!TypeOK, Profile!Reads, Profile!Profiles
    <2>2. r7' = [r7 EXCEPT ![t] = h]
        BY <1>4 DEF Profile!ReadEntity
    <2> HIDE DEF h
    <2> QED BY <1>4, <2>1, <2>2 DEF Profile!ReadEntity, Profile!TypeOK
<1>5. ASSUME NEW t \in Tabs, Profile!Unchanged(t) PROVE Profile!TypeOK'
    BY <1>5 DEF Profile!Unchanged, Profile!TypeOK
<1>6. ASSUME NEW t \in Tabs, Profile!CommitUpdate(t) PROVE Profile!TypeOK'
    <2>1. r7[t].key \in Tabs /\ r7[t].rev \in Nat /\ r7[t].cursor \in 0 .. MaxRevision
        BY <1>6 DEF Profile!CommitUpdate, Profile!TypeOK, Profile!Reads
    <2>2. r11 + 1 \in 1 .. MaxUpdates
        BY <1>6 DEF Profile!CommitUpdate, Profile!TypeOK
    <2>3. r3' \in Profile!Profiles
        BY <1>6, <2>1, <2>2 DEF Profile!CommitUpdate, Profile!Updated, Profile!Profiles,
                               Profile!Operations, Profile!Keys
    <2>4. r4' \subseteq Profile!Mutations /\ \A m \in r4' : m.op = r11'
        BY <1>6, <2>1, <2>2 DEF Profile!CommitUpdate, Profile!UpdateOver, Profile!Mutation,
                               Profile!Mutations, Profile!Operations, Profile!Keys
    <2> QED BY <1>6, <2>1, <2>2, <2>3, <2>4
            DEF Profile!CommitUpdate, Profile!UpdateOver, Profile!TypeOK
<1>7. ASSUME NEW t \in Tabs, Profile!Prepare(t) \/ Profile!ReadOutbox(t) PROVE Profile!TypeOK'
    <2>1. PICK c \in Profile!Exchanges : r8' = [r8 EXCEPT ![t] = c]
        <3>1. CASE Profile!Prepare(t)
            <4>1. [r8[t] EXCEPT !.stage = "prepared", !.cursor = r2] \in Profile!Exchanges
                BY DEF Profile!TypeOK, Profile!Exchanges
            <4> QED BY <3>1, <4>1 DEF Profile!Prepare
        <3>2. CASE Profile!ReadOutbox(t)
            <4>1. [r8[t] EXCEPT !.stage = "sent", !.batch = r4] \in Profile!Exchanges
                BY DEF Profile!TypeOK, Profile!Exchanges
            <4> QED BY <3>2, <4>1 DEF Profile!ReadOutbox
        <3> QED BY <1>7, <3>1, <3>2
    <2>2. r5[t] = "done" /\ r6[t] # "apply"
        BY <1>7 DEF Profile!Prepare, Profile!ReadOutbox, Profile!TypeOK
    <2> QED BY <1>7, <2>1, <2>2 DEF Profile!Prepare, Profile!ReadOutbox, Profile!TypeOK
<1>8. ASSUME NEW t \in Tabs, Profile!Exchange(t) PROVE Profile!TypeOK'
    BY <1>8, ExchangeTypes
<1>9. CASE Profile!ElsewhereWrites
    BY <1>9 DEF Profile!ElsewhereWrites, Profile!TypeOK, Profile!Authorized, Profile!Profiles,
                Profile!Keys
<1>10. ASSUME NEW t \in Tabs, Profile!RefuseExchange(t) \/ Profile!ApplyExchange(t)
       PROVE  Profile!TypeOK'
    <2>1. r8[t].change \in Profile!Authorized
        BY DEF Profile!TypeOK, Profile!Exchanges
    <2>2. r3' \in Profile!Profiles /\ r4' \subseteq r4 /\ r2' \in 0 .. MaxRevision
        BY <1>10, <2>1 DEF Profile!RefuseExchange, Profile!ApplyExchange, Profile!Kept,
                           Profile!TypeOK, Profile!Authorized, Profile!Profiles
    <2> QED BY <1>10, <2>2
            DEF Profile!RefuseExchange, Profile!ApplyExchange, Profile!Answer, Profile!TypeOK
<1>11. ASSUME NEW t \in Tabs, Profile!Reload(t) PROVE Profile!TypeOK'
    BY <1>11 DEF Profile!Reload, Profile!TypeOK
<1> QED BY <1>1, <1>2, <1>3, <1>4, <1>5, <1>6, <1>7, <1>8, <1>9, <1>10, <1>11 DEF Profile!Next

\* Where there is nothing, nothing is missing.
LEMMA NothingIsTaken ==
    /\ Profile!NoCall.change.by = Profile!Elsewhere /\ Profile!NoCall.change.rev = 0
    /\ Profile!NoCall.acks = {} /\ Profile!NoCall.cursor = 0
    /\ Profile!NoRead.cursor = 0 /\ Profile!NoRead.key = NoKey
BY DEF Profile!Nothing, Profile!NoCall, Profile!NoRead

\* What a step of a sync does to its call: only the exchange brings answers.
LEMMA ProfileCalls ==
    ASSUME Profile!TypeOK, NEW t \in Tabs
    PROVE  /\ Profile!Prepare(t) \/ Profile!ReadOutbox(t) =>
              \E c : /\ r8' = [r8 EXCEPT ![t] = c]
                     /\ c.change = r8[t].change /\ c.acks = r8[t].acks
                     /\ c.cursor \in {r8[t].cursor, r2}
           /\ Profile!Exchange(t) =>
              \E c : /\ r8' = [r8 EXCEPT ![t] = c]
                     /\ c.change = r9' /\ c.acks \subseteq r10'
                     /\ c.cursor = r8[t].cursor
<1>1. r8[t] \in Profile!Exchanges
    BY DEF Profile!TypeOK
<1>2. ASSUME Profile!Prepare(t)
      PROVE  \E c : /\ r8' = [r8 EXCEPT ![t] = c]
                    /\ c.change = r8[t].change /\ c.acks = r8[t].acks /\ c.cursor = r2
    <2> DEFINE c == [r8[t] EXCEPT !.stage = "prepared", !.cursor = r2]
    <2>1. r8' = [r8 EXCEPT ![t] = c]
        BY <1>2 DEF Profile!Prepare
    <2>2. c.change = r8[t].change /\ c.acks = r8[t].acks /\ c.cursor = r2
        BY <1>1 DEF Profile!Exchanges
    <2> HIDE DEF c
    <2> QED BY <2>1, <2>2
<1>3. ASSUME Profile!ReadOutbox(t)
      PROVE  \E c : /\ r8' = [r8 EXCEPT ![t] = c]
                    /\ c.change = r8[t].change /\ c.acks = r8[t].acks
                    /\ c.cursor = r8[t].cursor
    <2> DEFINE c == [r8[t] EXCEPT !.stage = "sent", !.batch = r4]
    <2>1. r8' = [r8 EXCEPT ![t] = c]
        BY <1>3 DEF Profile!ReadOutbox
    <2>2. c.change = r8[t].change /\ c.acks = r8[t].acks /\ c.cursor = r8[t].cursor
        BY <1>1 DEF Profile!Exchanges
    <2> HIDE DEF c
    <2> QED BY <2>1, <2>2
<1>4. ASSUME Profile!Exchange(t)
      PROVE  \E c : /\ r8' = [r8 EXCEPT ![t] = c]
                    /\ c.change = r9' /\ c.acks \subseteq r10' /\ c.cursor = r8[t].cursor
    <2> DEFINE acks == {a \in r10' : \E m \in r8[t].batch : a.op = m.op}
               c == [r8[t] EXCEPT !.stage = "answered", !.batch = {}, !.acks = acks,
                                  !.change = r9']
    <2>1. r8' = [r8 EXCEPT ![t] = c]
        BY <1>4 DEF Profile!Exchange
    <2> HIDE DEF acks
    <2>2. c.change = r9' /\ c.acks = acks /\ c.cursor = r8[t].cursor
        BY <1>1 DEF Profile!Exchanges
    <2>3. acks \subseteq r10'
        BY DEF acks
    <2> HIDE DEF c
    <2> QED BY <2>1, <2>2, <2>3
<1> QED BY <1>2, <1>3, <1>4

\* A change of the authority's, and one it has made by now: of profiles and what has
\* been taken.
TakenOf(p, acks) ==
    \/ p.by = Profile!Elsewhere /\ \A a \in acks : a.rev # p.rev
    \/ [op |-> p.by, rev |-> p.rev] \in acks
KnownOf(p, acks, last) == TakenOf(p, acks) /\ p.rev <= last.rev

\* The authority's changes stay what they are: it makes new ones behind its last only.
LEMMA StillTaken ==
    ASSUME r9.rev \in Nat, r10 \subseteq r10', \A a \in r10' \ r10 : a.rev = r9.rev + 1,
           NEW p, p.rev \in Nat, p.by = Profile!Elsewhere => p.rev <= r9.rev, TakenOf(p, r10)
    PROVE  TakenOf(p, r10')
BY DEF TakenOf

\* What the authority answers it has taken, also when the answer comes late or is
\* lost and the call is made again.
LEMMA ProfileAnswers ==
    ASSUME Profile!TypeOK, Profile!AnswersAreTaken, [Profile!Next]_(Profile!vars)
    PROVE  /\ Profile!AnswersAreTaken' /\ r10 \subseteq r10'
           /\ \A a \in r10' \ r10 : a.rev = r9.rev + 1
<1> USE NothingIsTaken
        DEF Profile!dbVars, Profile!tabVars, Profile!cloudVars, Profile!historyVars
<1> DEFINE Answers ==
        /\ Profile!AnswersAreTaken' /\ r10 \subseteq r10'
        /\ \A a \in r10' \ r10 : a.rev = r9.rev + 1
<1> SUFFICES Answers
    OBVIOUS
<1>0. /\ TakenOf(r9, r10) /\ r9.rev \in Nat /\ r3.rev \in Nat
      /\ \A a \in r10 : a.rev \in 1 .. r9.rev
      /\ r3.by = Profile!Elsewhere => r3.rev <= r9.rev
      /\ \A u \in Tabs : /\ KnownOf(r8[u].change, r10, r9) /\ r8[u].acks \subseteq r10
                         /\ r8[u].change.rev \in Nat
    BY DEF Profile!AnswersAreTaken, Profile!Known, Profile!Taken, TakenOf, KnownOf,
           Profile!TypeOK, Profile!Profiles, Profile!Authorized, Profile!Exchanges
<1>1. ASSUME TakenOf(r9', r10'), \A a \in r10' : a.rev \in 1 .. r9'.rev,
             r3'.by = Profile!Elsewhere => r3'.rev <= r9'.rev,
             \A u \in Tabs : KnownOf(r8'[u].change, r10', r9') /\ r8'[u].acks \subseteq r10'
      PROVE  Profile!AnswersAreTaken'
    BY <1>1 DEF Profile!AnswersAreTaken, Profile!Known, Profile!Taken, TakenOf, KnownOf
<1>2. KnownOf(Profile!NoCall.change, r10, r9) /\ Profile!NoCall.acks \subseteq r10
    BY <1>0 DEF KnownOf, TakenOf
<1>3. ASSUME r10' = r10, r9' = r9,
             r3' = r3 \/ r3'.by # Profile!Elsewhere \/ \E u \in Tabs : r3' = r8[u].change,
             \A u \in Tabs : \/ r8'[u].change = r8[u].change /\ r8'[u].acks = r8[u].acks
                             \/ r8'[u] = Profile!NoCall
      PROVE  Answers
    <2>1. r3'.by = Profile!Elsewhere => r3'.rev <= r9'.rev
        BY <1>0, <1>3 DEF KnownOf
    <2>2. \A u \in Tabs : KnownOf(r8'[u].change, r10', r9') /\ r8'[u].acks \subseteq r10'
        BY <1>0, <1>2, <1>3
    <2>3. TakenOf(r9', r10') /\ \A a \in r10' : a.rev \in 1 .. r9'.rev
        BY <1>0, <1>3
    <2> QED BY <1>1, <1>3, <2>1, <2>2, <2>3
<1>4. CASE UNCHANGED Profile!vars
    BY <1>3, <1>4 DEF Profile!vars
<1>5. ASSUME NEW t \in Tabs,
             \/ Profile!BootLooks(t) \/ Profile!BootMakes(t) \/ Profile!ReadEntity(t)
             \/ Profile!Unchanged(t)
             \/ \E task \in {"update", "apply"} : Profile!Identity(t, task)
      PROVE  Answers
    <2>1. r3' = r3 /\ r8' = r8 /\ r9' = r9 /\ r10' = r10
        BY <1>5 DEF Profile!BootLooks, Profile!BootMakes, Profile!ReadEntity, Profile!Unchanged,
                    Profile!Identity
    <2> QED BY <1>3, <2>1
<1>6. ASSUME NEW t \in Tabs, Profile!CommitUpdate(t) PROVE Answers
    <2>1. r8' = r8 /\ r9' = r9 /\ r10' = r10 /\ r3'.by # Profile!Elsewhere
        BY <1>6, ProfileNumbers
           DEF Profile!CommitUpdate, Profile!UpdateOver, Profile!Updated, Profile!Elsewhere,
               Profile!TypeOK
    <2> QED BY <1>3, <2>1
<1>7. ASSUME NEW t \in Tabs, Profile!Prepare(t) \/ Profile!ReadOutbox(t)
      PROVE  Answers
    <2>1. \A u \in Tabs : r8'[u].change = r8[u].change /\ r8'[u].acks = r8[u].acks
        BY <1>7, ProfileCalls DEF Profile!TypeOK
    <2>2. r3' = r3 /\ r9' = r9 /\ r10' = r10
        BY <1>7 DEF Profile!Prepare, Profile!ReadOutbox
    <2> QED BY <1>3, <2>1, <2>2
<1>8. ASSUME NEW t \in Tabs, Profile!Exchange(t) PROVE Answers
    <2> DEFINE known == {m \in r8[t].batch : \E a \in r10 : a.op = m.op}
               fresh == {m \in r8[t].batch \ known : m.base = r9.rev}
    <2>1. r10 \subseteq r10' /\ r3' = r3
        BY <1>8, ExchangeTypes DEF Profile!Exchange
    <2>2. \A a \in r10' \ r10 : a.rev = r9.rev + 1
        <3>1. r10' = r10 \cup {[op |-> m.op, rev |-> m.base + 1] : m \in fresh}
            BY <1>8 DEF Profile!Exchange
        <3>2. \A m \in fresh : m.base = r9.rev
            OBVIOUS
        <3> HIDE DEF fresh
        <3> QED BY <3>1, <3>2
    <2>3. /\ TakenOf(r9', r10') /\ r9.rev <= r9'.rev /\ r9'.rev \in Nat
          /\ r10' # r10 => r9'.rev = r9.rev + 1
        <3>1. CASE fresh = {}
            <4>1. r9' = r9 /\ r10' = r10
                BY <1>8, <3>1 DEF Profile!Exchange
            <4> QED BY <1>0, <4>1
        <3>2. CASE fresh # {}
            <4>1. PICK m \in fresh : r9' = [rev |-> m.base + 1, by |-> m.op, key |-> m.key]
                BY <1>8, <3>2 DEF Profile!Exchange
            <4>2. [op |-> m.op, rev |-> m.base + 1] \in r10'
                BY <1>8, <4>1 DEF Profile!Exchange
            <4>3. m.base = r9.rev
                BY <4>1
            <4> QED BY <1>0, <4>1, <4>2, <4>3 DEF TakenOf
        <3> QED BY <3>1, <3>2
    <2>4. \A a \in r10' : a.rev \in 1 .. r9'.rev
        BY <1>0, <2>2, <2>3
    <2>5. ASSUME NEW u \in Tabs, u # t
          PROVE  KnownOf(r8'[u].change, r10', r9') /\ r8'[u].acks \subseteq r10'
        <3>1. r8'[u] = r8[u]
            BY <1>8, <2>5 DEF Profile!Exchange, Profile!TypeOK
        <3>2. TakenOf(r8[u].change, r10')
            BY <1>0, <2>1, <2>2, StillTaken DEF KnownOf
        <3> QED BY <1>0, <2>1, <2>3, <3>1, <3>2 DEF KnownOf
    <2>6. KnownOf(r8'[t].change, r10', r9') /\ r8'[t].acks \subseteq r10'
        <3>1. r8'[t].change = r9' /\ r8'[t].acks \subseteq r10'
            BY <1>8, ProfileCalls DEF Profile!TypeOK
        <3> QED BY <2>3, <3>1 DEF KnownOf
    <2>7. r3'.by = Profile!Elsewhere => r3'.rev <= r9'.rev
        BY <1>0, <2>1, <2>3
    <2> QED BY <1>1, <2>1, <2>2, <2>3, <2>4, <2>5, <2>6, <2>7
<1>9. CASE Profile!ElsewhereWrites
    <2>1. /\ r3' = r3 /\ r8' = r8 /\ r10' = r10
          /\ r9'.rev = r9.rev + 1 /\ r9'.by = Profile!Elsewhere
        BY <1>9 DEF Profile!ElsewhereWrites
    <2>2. TakenOf(r9', r10') /\ \A a \in r10' : a.rev \in 1 .. r9'.rev
        BY <1>0, <2>1 DEF TakenOf
    <2>3. \A u \in Tabs : KnownOf(r8'[u].change, r10', r9') /\ r8'[u].acks \subseteq r10'
        BY <1>0, <2>1 DEF KnownOf
    <2>4. r3'.by = Profile!Elsewhere => r3'.rev <= r9'.rev
        BY <1>0, <2>1
    <2> QED BY <1>1, <2>1, <2>2, <2>3, <2>4
<1>10. ASSUME NEW t \in Tabs,
             Profile!RefuseExchange(t) \/ Profile!ApplyExchange(t) \/ Profile!Reload(t)
      PROVE  Answers
    <2>1. \A u \in Tabs : r8'[u] = r8[u] \/ r8'[u] = Profile!NoCall
        BY <1>10 DEF Profile!RefuseExchange, Profile!ApplyExchange, Profile!Answer,
                     Profile!Reload, Profile!TypeOK
    <2>2. r9' = r9 /\ r10' = r10 /\ (r3' = r3 \/ \E u \in Tabs : r3' = r8[u].change)
        BY <1>10 DEF Profile!RefuseExchange, Profile!ApplyExchange, Profile!Reload
    <2> QED BY <1>3, <2>1, <2>2
<1> HIDE DEF Answers
<1> QED BY <1>4, <1>5, <1>6, <1>7, <1>8, <1>9, <1>10 DEF Profile!Next

\* No task has a cursor that the stored profile has not come to, unless the store
\* of an answer has been crossed by another tab's.
LEMMA ProfileCursors ==
    ASSUME Profile!TypeOK, Profile!CursorsBehind, r12 \/ r2 <= r3.rev,
           [Profile!Next]_(Profile!vars)
    PROVE  Profile!CursorsBehind' /\ (r12 \/ r2 <= r3.rev)'
<1> USE NothingIsTaken, ProfileNumbers
        DEF Profile!dbVars, Profile!tabVars, Profile!cloudVars, Profile!historyVars
<1> SUFFICES ASSUME ~r12'
             PROVE  /\ r2' <= r3'.rev
                    /\ \A u \in Tabs : r7'[u].cursor <= r3'.rev /\ r8'[u].cursor <= r3'.rev
    BY DEF Profile!CursorsBehind
<1>0. ~r12
    BY DEF Profile!Next, Profile!vars, Profile!BootLooks, Profile!BootMakes, Profile!ReadEntity,
           Profile!Unchanged, Profile!CommitUpdate, Profile!UpdateOver, Profile!Identity,
           Profile!Prepare, Profile!ReadOutbox, Profile!Exchange, Profile!RefuseExchange,
           Profile!ApplyExchange, Profile!Reload, Profile!ElsewhereWrites
<1>1. /\ r2 <= r3.rev
      /\ \A u \in Tabs : r7[u].cursor <= r3.rev /\ r8[u].cursor <= r3.rev
    BY <1>0 DEF Profile!CursorsBehind
<1>2. /\ r2 \in Nat /\ r3.rev \in Nat
      /\ \A u \in Tabs : /\ r7[u].cursor \in Nat /\ r7[u].rev \in Nat /\ r8[u].cursor \in Nat
                         /\ r8[u].change.rev \in Nat
    BY DEF Profile!TypeOK, Profile!Profiles, Profile!Reads, Profile!Exchanges,
           Profile!Authorized
<1>3. ASSUME r3'.rev \in Nat, r3'.rev >= r3.rev, r2' = r2 \/ r2' <= r3'.rev,
             \A u \in Tabs : \/ r7'[u].cursor \in {r7[u].cursor, r2}
                             \/ r7'[u] = Profile!NoRead,
             \A u \in Tabs : \/ r8'[u].cursor \in {r8[u].cursor, r2}
                             \/ r8'[u] = Profile!NoCall
      PROVE  /\ r2' <= r3'.rev
             /\ \A u \in Tabs : r7'[u].cursor <= r3'.rev /\ r8'[u].cursor <= r3'.rev
    <2>1. r2' <= r3'.rev
        BY <1>1, <1>2, <1>3
    <2>2. ASSUME NEW u \in Tabs PROVE r7'[u].cursor <= r3'.rev
        BY <1>1, <1>2, <1>3
    <2>3. ASSUME NEW u \in Tabs PROVE r8'[u].cursor <= r3'.rev
        BY <1>1, <1>2, <1>3
    <2> QED BY <2>1, <2>2, <2>3
<1>4. CASE UNCHANGED Profile!vars
    BY <1>1, <1>4 DEF Profile!vars
<1>5. ASSUME NEW t \in Tabs, Profile!BootLooks(t) \/ Profile!BootMakes(t)
      PROVE  /\ r2' <= r3'.rev
             /\ \A u \in Tabs : r7'[u].cursor <= r3'.rev /\ r8'[u].cursor <= r3'.rev
    BY <1>1, <1>2, <1>5 DEF Profile!BootLooks, Profile!BootMakes
<1>6. ASSUME NEW t \in Tabs,
             \/ Profile!ReadEntity(t) \/ Profile!Unchanged(t)
             \/ \E task \in {"update", "apply"} : Profile!Identity(t, task)
      PROVE  /\ r2' <= r3'.rev
             /\ \A u \in Tabs : r7'[u].cursor <= r3'.rev /\ r8'[u].cursor <= r3'.rev
    <2>1. r2' = r2 /\ r3' = r3 /\ r8' = r8
        BY <1>6 DEF Profile!ReadEntity, Profile!Unchanged, Profile!Identity
    <2>2. \A u \in Tabs : r7'[u].cursor \in {r7[u].cursor, r2} \/ r7'[u] = Profile!NoRead
        <3>1. r7 \in [Tabs -> Profile!Reads]
            BY DEF Profile!TypeOK
        <3>2. CASE Profile!ReadEntity(t)
            <4> DEFINE h == [r7[t] EXCEPT !.rev = r3.rev]
            <4>1. h.cursor = r7[t].cursor
                BY <3>1 DEF Profile!Reads
            <4>2. r7' = [r7 EXCEPT ![t] = h]
                BY <3>2 DEF Profile!ReadEntity
            <4> HIDE DEF h
            <4> QED BY <3>1, <4>1, <4>2
        <3>3. CASE Profile!Unchanged(t)
            BY <3>1, <3>3 DEF Profile!Unchanged
        <3>4. CASE \E task \in {"update", "apply"} : Profile!Identity(t, task)
            BY <3>1, <3>4 DEF Profile!Identity
        <3> QED BY <1>6, <3>2, <3>3, <3>4
    <2> QED BY <1>2, <1>3, <2>1, <2>2
<1>7. ASSUME NEW t \in Tabs, Profile!CommitUpdate(t)
      PROVE  /\ r2' <= r3'.rev
             /\ \A u \in Tabs : r7'[u].cursor <= r3'.rev /\ r8'[u].cursor <= r3'.rev
    <2>1. r3.rev = r7[t].rev
        BY <1>7 DEF Profile!CommitUpdate, Profile!UpdateOver
    <2>2. r3'.rev = r3.rev + 1 /\ r2' = r7[t].cursor /\ r8' = r8
        BY <1>7, <2>1 DEF Profile!CommitUpdate, Profile!UpdateOver, Profile!Updated
    <2>3. \A u \in Tabs : r7'[u] = r7[u] \/ r7'[u] = Profile!NoRead
        BY <1>7 DEF Profile!CommitUpdate, Profile!UpdateOver, Profile!TypeOK
    <2> QED BY <1>1, <1>2, <1>3, <2>2, <2>3
<1>8. ASSUME NEW t \in Tabs,
             Profile!Prepare(t) \/ Profile!ReadOutbox(t) \/ Profile!Exchange(t)
      PROVE  /\ r2' <= r3'.rev
             /\ \A u \in Tabs : r7'[u].cursor <= r3'.rev /\ r8'[u].cursor <= r3'.rev
    <2>1. r2' = r2 /\ r3' = r3 /\ r7' = r7
        BY <1>8 DEF Profile!Prepare, Profile!ReadOutbox, Profile!Exchange
    <2>2. \A u \in Tabs : r8'[u].cursor \in {r8[u].cursor, r2}
        BY <1>8, ProfileCalls DEF Profile!TypeOK
    <2> QED BY <1>2, <1>3, <2>1, <2>2
<1>9. CASE Profile!ElsewhereWrites
    BY <1>1, <1>9 DEF Profile!ElsewhereWrites
<1>10. ASSUME NEW t \in Tabs, Profile!RefuseExchange(t) \/ Profile!Reload(t)
       PROVE  /\ r2' <= r3'.rev
              /\ \A u \in Tabs : r7'[u].cursor <= r3'.rev /\ r8'[u].cursor <= r3'.rev
    <2>1. r2' = r2 /\ r3' = r3
        BY <1>10 DEF Profile!RefuseExchange, Profile!Reload
    <2>2. \A u \in Tabs : /\ r7'[u] = r7[u] \/ r7'[u] = Profile!NoRead
                          /\ r8'[u] = r8[u] \/ r8'[u] = Profile!NoCall
        BY <1>10 DEF Profile!RefuseExchange, Profile!Answer, Profile!Reload, Profile!TypeOK
    <2> QED BY <1>2, <1>3, <2>1, <2>2
<1>11. ASSUME NEW t \in Tabs, Profile!ApplyExchange(t)
       PROVE  /\ r2' <= r3'.rev
              /\ \A u \in Tabs : r7'[u].cursor <= r3'.rev /\ r8'[u].cursor <= r3'.rev
    <2>1. /\ r3' = IF Profile!Carries(r8[t]) /\ r8[t].change.rev > r3.rev
                   THEN r8[t].change ELSE r3
          /\ r2' = r8[t].change.rev
        BY <1>11 DEF Profile!ApplyExchange
    <2>2. r3'.rev \in Nat /\ r3'.rev >= r3.rev /\ r2' <= r3'.rev
        BY <1>1, <1>2, <2>1 DEF Profile!Carries
    <2>3. \A u \in Tabs : /\ r7'[u] = r7[u] \/ r7'[u] = Profile!NoRead
                          /\ r8'[u] = r8[u] \/ r8'[u] = Profile!NoCall
        BY <1>11 DEF Profile!ApplyExchange, Profile!Answer, Profile!TypeOK
    <2> QED BY <1>3, <2>2, <2>3
<1> QED BY <1>4, <1>5, <1>6, <1>7, <1>8, <1>9, <1>10, <1>11 DEF Profile!Next

\* There is one key, unless two tabs made one at their first start.
LEMMA ProfileKeys ==
    ASSUME Profile!TypeOK, Profile!OneKey, r13 \/ r3.key \in {r1, NoKey},
           [Profile!Next]_(Profile!vars)
    PROVE  Profile!OneKey' /\ (r13 \/ r3.key \in {r1, NoKey})'
<1> USE NothingIsTaken
        DEF Profile!dbVars, Profile!tabVars, Profile!cloudVars, Profile!historyVars
<1> SUFFICES ASSUME ~r13'
             PROVE  r3'.key \in {r1', NoKey} /\ \A u \in Tabs : r7'[u].key \in {r1', NoKey}
    BY DEF Profile!OneKey
<1>0. ~r13
    BY DEF Profile!Next, Profile!vars, Profile!BootLooks, Profile!BootMakes, Profile!ReadEntity,
           Profile!Unchanged, Profile!CommitUpdate, Profile!UpdateOver, Profile!Identity,
           Profile!Prepare, Profile!ReadOutbox, Profile!Exchange, Profile!RefuseExchange,
           Profile!ApplyExchange, Profile!Reload, Profile!ElsewhereWrites
<1>1. r3.key \in {r1, NoKey} /\ \A u \in Tabs : r7[u].key \in {r1, NoKey}
    BY <1>0 DEF Profile!OneKey
<1>2. ASSUME r1' = r1, r3'.key \in {r1, NoKey},
             \A u \in Tabs : r7'[u].key \in {r7[u].key, r1, NoKey}
      PROVE  r3'.key \in {r1', NoKey} /\ \A u \in Tabs : r7'[u].key \in {r1', NoKey}
    BY <1>1, <1>2
<1>3. CASE UNCHANGED Profile!vars
    BY <1>1, <1>3 DEF Profile!vars
<1>4. ASSUME NEW t \in Tabs, Profile!BootMakes(t)
      PROVE  r3'.key \in {r1', NoKey} /\ \A u \in Tabs : r7'[u].key \in {r1', NoKey}
    BY <1>1, <1>4 DEF Profile!BootMakes
<1>5. ASSUME NEW t \in Tabs,
             \/ Profile!BootLooks(t) \/ Profile!ReadEntity(t) \/ Profile!Unchanged(t)
             \/ \E task \in {"update", "apply"} : Profile!Identity(t, task)
             \/ Profile!Prepare(t) \/ Profile!ReadOutbox(t) \/ Profile!Exchange(t)
             \/ Profile!RefuseExchange(t) \/ Profile!Reload(t)
      PROVE  r3'.key \in {r1', NoKey} /\ \A u \in Tabs : r7'[u].key \in {r1', NoKey}
    <2>1. r1' = r1 /\ r3' = r3
        BY <1>5 DEF Profile!BootLooks, Profile!ReadEntity, Profile!Unchanged, Profile!Identity,
                    Profile!Prepare, Profile!ReadOutbox, Profile!Exchange,
                    Profile!RefuseExchange, Profile!Reload
    <2>2. \A u \in Tabs : r7'[u].key \in {r7[u].key, r1, NoKey}
        <3>1. r7 \in [Tabs -> Profile!Reads]
            BY DEF Profile!TypeOK
        <3>2. CASE Profile!ReadEntity(t)
            BY <3>1, <3>2 DEF Profile!ReadEntity, Profile!Reads
        <3>3. CASE \E task \in {"update", "apply"} : Profile!Identity(t, task)
            BY <3>1, <3>3 DEF Profile!Identity
        <3>4. CASE Profile!Unchanged(t) \/ Profile!RefuseExchange(t) \/ Profile!Reload(t)
            BY <3>1, <3>4 DEF Profile!Unchanged, Profile!RefuseExchange, Profile!Answer,
                              Profile!Reload
        <3>5. CASE UNCHANGED r7
            BY <3>5
        <3> QED BY <1>5, <3>2, <3>3, <3>4, <3>5
                DEF Profile!BootLooks, Profile!Prepare, Profile!ReadOutbox, Profile!Exchange
    <2> QED BY <1>1, <1>2, <2>1, <2>2
<1>6. ASSUME NEW t \in Tabs, Profile!CommitUpdate(t)
      PROVE  r3'.key \in {r1', NoKey} /\ \A u \in Tabs : r7'[u].key \in {r1', NoKey}
    <2>1. r1' = r1 /\ r3'.key = r7[t].key
        BY <1>6 DEF Profile!CommitUpdate, Profile!UpdateOver, Profile!Updated
    <2>2. \A u \in Tabs : r7'[u].key \in {r7[u].key, NoKey}
        BY <1>6 DEF Profile!CommitUpdate, Profile!UpdateOver, Profile!TypeOK
    <2> QED BY <1>1, <1>2, <2>1, <2>2
<1>7. CASE Profile!ElsewhereWrites
    BY <1>1, <1>7 DEF Profile!ElsewhereWrites
<1>8. ASSUME NEW t \in Tabs, Profile!ApplyExchange(t)
      PROVE  r3'.key \in {r1', NoKey} /\ \A u \in Tabs : r7'[u].key \in {r1', NoKey}
    <2>1. r1' = r1 /\ r3'.key \in {r3.key, r7[t].key, NoKey}
        BY <1>8 DEF Profile!ApplyExchange
    <2>2. \A u \in Tabs : r7'[u].key \in {r7[u].key, NoKey}
        BY <1>8 DEF Profile!ApplyExchange, Profile!Answer, Profile!TypeOK
    <2> QED BY <1>1, <1>2, <2>1, <2>2
<1> QED BY <1>3, <1>4, <1>5, <1>6, <1>7, <1>8 DEF Profile!Next

\* The profile as it is stored has been taken by the authority, or is in the outbox
\* still: an operation is put there in the transaction that stores the profile, and
\* only one that was acknowledged is deleted.
LEMMA ProfileOutbox ==
    ASSUME Profile!TypeOK, Profile!AnswersAreTaken,
           Profile!Taken(r3) \/ Profile!Pending(r3), [Profile!Next]_(Profile!vars)
    PROVE  (Profile!Taken(r3) \/ Profile!Pending(r3))'
<1> USE DEF Profile!dbVars, Profile!tabVars, Profile!cloudVars, Profile!historyVars
<1>0. /\ r9.rev \in Nat /\ r3.rev \in Nat /\ (r3.by = Profile!Elsewhere => r3.rev <= r9.rev)
      /\ r10 \subseteq r10' /\ \A a \in r10' \ r10 : a.rev = r9.rev + 1
    BY ProfileAnswers
       DEF Profile!AnswersAreTaken, Profile!TypeOK, Profile!Profiles, Profile!Authorized
<1>1. TakenOf(r3, r10) => TakenOf(r3, r10')
    BY <1>0, StillTaken
<1>2. Profile!Taken(r3) \/ Profile!Pending(r3)
    OBVIOUS
<1>3. ASSUME r3' = r3, r4' = r4 PROVE (Profile!Taken(r3) \/ Profile!Pending(r3))'
    BY <1>1, <1>2, <1>3 DEF Profile!Taken, Profile!Pending, TakenOf
<1>4. ASSUME NEW t \in Tabs, Profile!CommitUpdate(t)
      PROVE  (Profile!Taken(r3) \/ Profile!Pending(r3))'
    BY <1>4 DEF Profile!CommitUpdate, Profile!Updated, Profile!Mutation, Profile!Pending
<1>5. ASSUME NEW t \in Tabs, Profile!ApplyExchange(t)
      PROVE  (Profile!Taken(r3) \/ Profile!Pending(r3))'
    <2>1. r10' = r10
        BY <1>5 DEF Profile!ApplyExchange
    <2>2. CASE r3' = r8[t].change
        BY <2>1, <2>2 DEF Profile!AnswersAreTaken, Profile!Known, Profile!Taken
    <2>3. CASE r3' = r3 /\ Profile!Taken(r3)
        BY <2>1, <2>3 DEF Profile!Taken
    <2>4. ASSUME r3' = r3, NEW m \in r4, m.op = r3.by, m.base + 1 = r3.rev
          PROVE  (Profile!Taken(r3) \/ Profile!Pending(r3))'
        <3>1. m \in r4' \/ \E a \in r8[t].acks : a.op = m.op /\ a.rev = m.base + 1
            BY <1>5 DEF Profile!ApplyExchange, Profile!Kept
        <3>2. r8[t].acks \subseteq r10 /\ r10 \subseteq Profile!Acks
            BY DEF Profile!AnswersAreTaken, Profile!TypeOK
        <3>3. CASE m \in r4'
            BY <2>4, <3>3 DEF Profile!Pending
        <3>4. ASSUME NEW a \in r8[t].acks, a.op = m.op, a.rev = m.base + 1
              PROVE  (Profile!Taken(r3) \/ Profile!Pending(r3))'
            <4>1. a = [op |-> r3.by, rev |-> r3.rev] /\ a \in r10
                BY <2>4, <3>2, <3>4 DEF Profile!Acks
            <4> QED BY <2>1, <2>4, <4>1 DEF Profile!Taken
        <3> QED BY <3>1, <3>3, <3>4
    <2> QED BY <1>2, <1>5, <2>2, <2>3, <2>4 DEF Profile!ApplyExchange, Profile!Pending
<1> QED BY <1>3, <1>4, <1>5
        DEF Profile!Next, Profile!vars, Profile!BootLooks, Profile!BootMakes, Profile!ReadEntity,
            Profile!Unchanged, Profile!Identity, Profile!Prepare, Profile!ReadOutbox,
            Profile!Exchange, Profile!RefuseExchange, Profile!Reload, Profile!ElsewhereWrites

\* So is the last update, when a change has replaced it.
LastUpdateKept == r11 = 0 \/ r4 # {} \/ \E a \in r10 : a.op = r11

LEMMA ProfileLast ==
    ASSUME Profile!TypeOK, Profile!AnswersAreTaken, LastUpdateKept,
           [Profile!Next]_(Profile!vars)
    PROVE  LastUpdateKept'
<1> USE DEF Profile!dbVars, Profile!tabVars, Profile!cloudVars, Profile!historyVars
<1>1. r10 \subseteq r10'
    BY ProfileAnswers
<1>2. ASSUME r4' = r4, r11' = r11 PROVE LastUpdateKept'
    BY <1>1, <1>2 DEF LastUpdateKept
<1>3. ASSUME NEW t \in Tabs, Profile!CommitUpdate(t) PROVE LastUpdateKept'
    BY <1>3 DEF Profile!CommitUpdate, LastUpdateKept
<1>4. ASSUME NEW t \in Tabs, Profile!ApplyExchange(t) PROVE LastUpdateKept'
    <2>1. r10' = r10 /\ r11' = r11 /\ r8[t].acks \subseteq r10 /\ \A m \in r4 : m.op = r11
        BY <1>4 DEF Profile!ApplyExchange, Profile!AnswersAreTaken, Profile!TypeOK
    <2>2. \A m \in r4 : m \in r4' \/ \E a \in r8[t].acks : a.op = m.op
        BY <1>4 DEF Profile!ApplyExchange, Profile!Kept
    <2> QED BY <2>1, <2>2 DEF LastUpdateKept
<1> QED BY <1>2, <1>3, <1>4
        DEF Profile!Next, Profile!vars, Profile!BootLooks, Profile!BootMakes, Profile!ReadEntity,
            Profile!Unchanged, Profile!Identity, Profile!Prepare, Profile!ReadOutbox,
            Profile!Exchange, Profile!RefuseExchange, Profile!Reload, Profile!ElsewhereWrites

\* The inductive invariant of the profile's behaviours.
ProfilePart == part = "profile" => Profile!ProfileInv

\* It holds of the profile at all times.
LEMMA ProfileAlways == PartsSpec => []ProfilePart
<1>1. PartsInit => ProfilePart
    BY ProfileInit DEF PartsInit, ProfilePart
<1>2. ASSUME Profile!ProfileInv, [Profile!Next]_(Profile!vars) PROVE Profile!ProfileInv'
    <2>1. /\ LastUpdateKept /\ (Profile!Taken(r3) \/ Profile!Pending(r3))
          /\ r12 \/ r2 <= r3.rev
          /\ r13 \/ r3.key \in {r1, NoKey}
        BY <1>2 DEF Profile!ProfileInv, Profile!OutboxPreserved, LastUpdateKept
    <2>2. /\ Profile!TypeOK' /\ Profile!AnswersAreTaken' /\ Profile!CursorsBehind'
          /\ Profile!OneKey'
          /\ (r12 \/ r2 <= r3.rev)' /\ (r13 \/ r3.key \in {r1, NoKey})'
          /\ LastUpdateKept' /\ (Profile!Taken(r3) \/ Profile!Pending(r3))'
        BY <1>2, <2>1, ProfileTypes, ProfileAnswers, ProfileCursors, ProfileKeys, ProfileOutbox,
           ProfileLast
           DEF Profile!ProfileInv
    <2> QED BY <2>2 DEF Profile!ProfileInv, Profile!OutboxPreserved, LastUpdateKept
<1>3. ProfilePart /\ [PartsNext]_<<part, registers>> => ProfilePart'
    BY <1>2, ProfileStep DEF ProfilePart, PartsNext, registers
<1> QED BY <1>1, <1>3, PTL DEF PartsSpec

\* However tabs start, save, sync and are closed at any await, the last update stays in
\* the outbox until the authority has taken it, and what is stored is a change of the
\* authority's or waits in the outbox to become one of the same revision; it is not
\* behind the cursor, unless two tabs crossed.
THEOREM ProfilePreserved == PartsSpec => []OutboxPreserved
<1>1. ProfilePart => OutboxPreserved
    BY DEF ProfilePart, OutboxPreserved, Profile!ProfileInv
<1> QED BY <1>1, ProfileAlways, PTL

-----------------------------------------------------------------------------
(* The desktop cards.  windows r1, visible r2, layout r3, file r4, timer r5,   *)
(* armed r6, suppressed r7, shown r8, widgets r9, event r10, pc r11, job r12,  *)
(* card r13, target r14, todo r15, pass r16, running r17, wanted r18,          *)
(* raced r19, spoiled r20, failed r21, unsaved r22, ops r23.                   *)

\* A step of the behaviour is one of the cards.
LEMMA CardsStep ==
    ASSUME part = "cards", [PartsNext]_<<part, registers>>
    PROVE  part' = "cards" /\ [CardPart!Next]_(CardPart!vars)
BY DEF PartsNext, registers, from7, from8, from9, from11, from12, from13, from14, CardPart!vars,
       CardPart!stateVars, CardPart!nativeVars, CardPart!eventVars, CardPart!threadVars,
       CardPart!historyVars

\* Places, cards and threads are told apart, and the threads are finitely many.
LEMMA CardNames ==
    /\ Home \in Places /\ Nowhere \notin Places \cup Cards
    /\ IsFiniteSet(CardPart!Threads) /\ Startup \in CardPart!Threads /\ Startup \notin Users
    /\ Users \subseteq CardPart!Threads
    /\ Replays \in Nat /\ MaxOps \in Nat
<1>1. /\ Home \in Places /\ Nowhere \notin Places \cup Cards
      /\ IsFiniteSet(Users) /\ Startup \notin Users /\ Replays \in Nat /\ MaxOps \in Nat
    BY PartsAssumption DEF PartsAssumption, CardPart!CardsConstants, CardPart!IsFiniteSet,
                           IsFiniteSet
<1>2. IsFiniteSet(CardPart!Threads)
    BY <1>1, FS_Singleton, FS_Union DEF CardPart!Threads
<1> QED BY <1>1, <1>2 DEF CardPart!Threads

\* No event is an event nobody sent.
LEMMA NoEventIsEvent ==
    /\ CardPart!NoEvent \in CardPart!Events
    /\ CardPart!NoEvent.by = "none" /\ ~CardPart!NoEvent.passed
BY DEF CardPart!NoEvent, CardPart!Events

\* A save writes a state (save_state, window_state.py).
LEMMA SaveTypes ==
    ASSUME CardPart!Shapes, CardPart!Save, r2' \in [Cards -> BOOLEAN], r3' \in [Cards -> Places]
    PROVE  r4' \in CardPart!States /\ r22' \in BOOLEAN
<1>1. r22' \in BOOLEAN
    BY Zenon DEF CardPart!Shapes, CardPart!Save
<1>2. r4' \in CardPart!States
    BY DEF CardPart!Shapes, CardPart!Save, CardPart!States
<1> QED BY <1>1, <1>2

\* An app that has gone leaves states and threads of their types.
LEMMA GoneTypes ==
    ASSUME CardPart!Gone
    PROVE  /\ r1' = {} /\ r8' = {} /\ r9' = {} /\ r21' = {} /\ r6' = {} /\ r19' = {}
           /\ r7' \in [Cards -> Nat] /\ r10' \in [Cards -> CardPart!Events]
           /\ r11' \in [CardPart!Threads -> CardPart!Stations]
           /\ r12' \in [CardPart!Threads -> {"show", "hide", "place"}]
           /\ r13' \in [CardPart!Threads -> Cards \cup {Nowhere}]
           /\ r14' \in [CardPart!Threads -> Places \cup {Nowhere}]
           /\ r15' \in [CardPart!Threads -> SUBSET Cards] /\ r16' \in 0 .. Replays
           /\ r17' \in {"yes", "stopping", "ended"} /\ r23' \in 0 .. MaxOps
           /\ r5' \in BOOLEAN
<1>1. r5' \in BOOLEAN
    BY Zenon DEF CardPart!Gone
<1>2. r7' \in [Cards -> Nat] /\ r10' \in [Cards -> CardPart!Events]
    BY NoEventIsEvent DEF CardPart!Gone
<1>3. /\ r11' \in [CardPart!Threads -> CardPart!Stations]
      /\ r12' \in [CardPart!Threads -> {"show", "hide", "place"}]
      /\ r13' \in [CardPart!Threads -> Cards \cup {Nowhere}]
      /\ r14' \in [CardPart!Threads -> Places \cup {Nowhere}]
      /\ r15' \in [CardPart!Threads -> SUBSET Cards]
    BY DEF CardPart!Gone, CardPart!Stations
<1> QED BY <1>1, <1>2, <1>3, CardNames DEF CardPart!Gone

\* The steps of the user and of the window system, one by one.
LEMMA UserMoves ==
    ASSUME CardPart!UserStep
    PROVE  \/ \E t \in Users, c \in Cards, on \in BOOLEAN : CardPart!SetVisible(t, c, on)
           \/ \E t \in Users, on \in BOOLEAN : CardPart!SetAllVisible(t, on)
           \/ \E t \in Users, c \in Cards, p \in Places : CardPart!SizeCard(t, c, p)
           \/ \E t \in Users, c \in Cards : CardPart!ResetCard(t, c)
           \/ \E t \in Users : CardPart!ResetAll(t)
           \/ \E c \in Cards, p \in Places : CardPart!Drag(c, p)
           \/ \E c \in Cards : CardPart!Realize(c) \/ CardPart!LateHide(c)
           \/ \E c \in Cards : CardPart!Hears(c)
           \/ \E c \in Cards : CardPart!Remembers(c)
           \/ CardPart!Flush
BY Zenon DEF CardPart!UserStep

\* The types but for the count of placements, step by step.
LEMMA CardShapes ==
    ASSUME CardPart!Shapes, CardPart!Threading, CardPart!EventsTell, [CardPart!Next]_(CardPart!vars)
    PROVE  CardPart!Shapes'
<1> USE CardNames, NoEventIsEvent
        DEF CardPart!Shapes, CardPart!Goes, CardPart!Stations, CardPart!stateVars,
            CardPart!nativeVars, CardPart!eventVars, CardPart!threadVars, CardPart!historyVars
<1>1. CASE UNCHANGED CardPart!vars
    BY <1>1 DEF CardPart!vars
<1>2. ASSUME NEW t \in CardPart!Threads, CardPart!ShowAll(t) \/ CardPart!ListDone(t)
      PROVE  CardPart!Shapes'
    BY <1>2 DEF CardPart!ShowAll, CardPart!ListDone
<1>3. ASSUME NEW t \in CardPart!Threads, CardPart!NextCard(t) PROVE CardPart!Shapes'
    BY <1>3 DEF CardPart!NextCard
<1>4. ASSUME NEW t \in CardPart!Threads, CardPart!LookAgain(t) PROVE CardPart!Shapes'
    BY <1>4 DEF CardPart!LookAgain, CardPart!Threading, CardPart!AtCard
<1>5. ASSUME NEW t \in CardPart!Threads, CardPart!Place(t) PROVE CardPart!Shapes'
    BY <1>5 DEF CardPart!Place, CardPart!Threading, CardPart!AtCard, CardPart!Events
<1>6. ASSUME NEW t \in CardPart!Threads, CardPart!Placed(t) PROVE CardPart!Shapes'
    BY <1>6 DEF CardPart!Placed, CardPart!Threading, CardPart!AtCard
<1>7. ASSUME NEW t \in CardPart!Threads,
             \/ CardPart!Style(t) \/ CardPart!Show(t) \/ CardPart!Hide(t) \/ CardPart!Unstyle(t)
             \/ CardPart!NativeFails(t)
      PROVE CardPart!Shapes'
    BY <1>7 DEF CardPart!Style, CardPart!Show, CardPart!Hide, CardPart!Unstyle,
                CardPart!NativeFails, CardPart!Threading, CardPart!AtCard
<1>8. CASE CardPart!Replay
    BY <1>8 DEF CardPart!Replay, CardPart!Threading
<1>9. ASSUME NEW t \in Users, NEW c \in Cards, NEW on \in BOOLEAN, CardPart!SetVisible(t, c, on)
      PROVE  CardPart!Shapes'
    BY <1>9, SaveTypes DEF CardPart!SetVisible, CardPart!Asks
<1>10. ASSUME NEW t \in Users, NEW on \in BOOLEAN, CardPart!SetAllVisible(t, on)
       PROVE  CardPart!Shapes'
    BY <1>10, SaveTypes DEF CardPart!SetAllVisible, CardPart!Asks
<1>11. ASSUME NEW t \in Users, NEW c \in Cards, NEW p \in Places, CardPart!SizeCard(t, c, p)
       PROVE  CardPart!Shapes'
    <2>1. r5' \in BOOLEAN
        BY <1>11, Zenon DEF CardPart!SizeCard
    <2>2. r3' \in [Cards -> Places] /\ r18' \in [Cards -> Places]
        BY <1>11 DEF CardPart!SizeCard
    <2>3. r14' \in [CardPart!Threads -> Places \cup {Nowhere}]
        BY <1>11, <2>2 DEF CardPart!SizeCard
    <2> QED BY <1>11, <2>1, <2>2, <2>3 DEF CardPart!SizeCard, CardPart!Asks
<1>12. ASSUME NEW t \in Users, CardPart!ResetAll(t) \/ \E c \in Cards : CardPart!ResetCard(t, c)
       PROVE  CardPart!Shapes'
    <2>1. CASE CardPart!ResetAll(t)
        BY <2>1, SaveTypes DEF CardPart!ResetAll, CardPart!Asks
    <2>2. ASSUME NEW c \in Cards, CardPart!ResetCard(t, c) PROVE CardPart!Shapes'
        BY <2>2, SaveTypes DEF CardPart!ResetCard, CardPart!Asks
    <2> QED BY <1>12, <2>1, <2>2
<1>13. CASE CardPart!Flush
    BY <1>13, SaveTypes DEF CardPart!Flush
<1>14. ASSUME NEW c \in Cards, NEW p \in Places, CardPart!Drag(c, p) PROVE CardPart!Shapes'
    BY <1>14 DEF CardPart!Drag, CardPart!Events
<1>15. ASSUME NEW c \in Cards, CardPart!Realize(c) \/ CardPart!LateHide(c)
       PROVE  CardPart!Shapes'
    <2>1. [place |-> Home, by |-> "native", passed |-> FALSE] \in CardPart!Events
        BY DEF CardPart!Events
    <2>2. CASE CardPart!Realize(c)
        BY <2>1, <2>2 DEF CardPart!Realize
    <2>3. CASE CardPart!LateHide(c)
        BY <2>3 DEF CardPart!LateHide
    <2> QED BY <1>15, <2>2, <2>3
<1>16. ASSUME NEW c \in Cards, CardPart!Hears(c) PROVE CardPart!Shapes'
    <2>1. [r10[c] EXCEPT !.passed = TRUE] \in CardPart!Events
        BY DEF CardPart!Events
    <2>2. r10' \in [Cards -> CardPart!Events]
        BY <1>16, <2>1 DEF CardPart!Hears
    <2> QED BY <1>16, <2>2 DEF CardPart!Hears
<1>17. ASSUME NEW c \in Cards, CardPart!Remembers(c)
       PROVE CardPart!Shapes'
    <2>1. r5' \in BOOLEAN
        BY <1>17, Zenon DEF CardPart!Remembers
    <2>2. r10[c].place \in Places
        BY <1>17 DEF CardPart!Remembers, CardPart!EventsTell
    <2> QED BY <1>17, <2>1, <2>2 DEF CardPart!Remembers
<1>18. CASE CardPart!Stop
    BY <1>18, SaveTypes DEF CardPart!Stop
<1>19. CASE CardPart!End
    BY <1>19, SaveTypes, GoneTypes DEF CardPart!End, CardPart!Unheard
<1>20. CASE CardPart!Killed
    BY <1>20, GoneTypes DEF CardPart!Killed, CardPart!Unheard
<1>21. CASE CardPart!Launch
    <2>1. r22' \in BOOLEAN
        BY <1>21, Zenon DEF CardPart!Launch
    <2>2. r2' \in [Cards -> BOOLEAN] /\ r3' \in [Cards -> Places] /\ r18' \in [Cards -> Places]
        BY <1>21 DEF CardPart!Launch, CardPart!States
    <2>3. r11' \in [CardPart!Threads -> CardPart!Stations]
        BY <1>21 DEF CardPart!Launch
    <2>4. UNCHANGED <<r4, r5, r6, r7, r8, r9, r10, r12, r13, r14, r15, r16, r19, r21, r23>>
        BY <1>21 DEF CardPart!Launch
    <2> QED BY <1>21, <2>1, <2>2, <2>3, <2>4 DEF CardPart!Launch
<1>22. CardPart!ThreadStep => CardPart!Shapes'
    BY <1>2, <1>3, <1>4, <1>5, <1>6, <1>7, <1>8 DEF CardPart!ThreadStep
<1>23. CardPart!UserStep => CardPart!Shapes'
    BY <1>9, <1>10, <1>11, <1>12, <1>13, <1>14, <1>15, <1>16, <1>17, UserMoves
<1> QED BY <1>1, <1>18, <1>19, <1>20, <1>21, <1>22, <1>23 DEF CardPart!Next

\* The threads that are placing a card, and what the count is of.
Counted(c) == CardPart!At(c, {"placed"})
Placements == \A c \in Cards : r7[c] = Cardinality(Counted(c))

\* So much for the types.
LEMMA CardTypes == CardPart!TypeOK <=> CardPart!Shapes /\ Placements
BY DEF CardPart!TypeOK, Placements, Counted, CardPart!Cardinality, Cardinality

\* Every placement that begins is counted, and every one that ends, fails or is cut
\* off by the end of the app is taken back (_apply_card_geometry, app.py).
LEMMA CardPlacements ==
    ASSUME CardPart!Shapes, CardPart!Threading, CardPart!EndIsBlank, Placements,
           [CardPart!Next]_(CardPart!vars)
    PROVE  Placements'
<1> USE CardNames
        DEF CardPart!Goes, CardPart!stateVars, CardPart!nativeVars, CardPart!eventVars,
            CardPart!threadVars, CardPart!historyVars
<1>0. /\ r7 \in [Cards -> Nat]
      /\ r11 \in [CardPart!Threads -> CardPart!Stations]
      /\ r13 \in [CardPart!Threads -> Cards \cup {Nowhere}]
      /\ r12 \in [CardPart!Threads -> {"show", "hide", "place"}]
    BY DEF CardPart!Shapes
<1>1. ASSUME NEW c \in Cards
      PROVE  IsFiniteSet(Counted(c)) /\ Cardinality(Counted(c)) \in Nat
    <2>1. IsFiniteSet(Counted(c))
        BY FS_Subset DEF Counted, CardPart!At
    <2> QED BY <2>1, FS_CardinalityType
<1>2. ASSUME r7' = r7, \A c \in Cards : Counted(c)' = Counted(c) PROVE Placements'
    BY <1>2 DEF Placements
<1>3. ASSUME r7' = r7,
             \A t \in CardPart!Threads :
                \/ r11'[t] = r11[t] /\ r13'[t] = r13[t]
                \/ r11[t] # "placed" /\ r11'[t] # "placed"
      PROVE  Placements'
    BY <1>2, <1>3 DEF Counted, CardPart!At
<1>4. CASE UNCHANGED CardPart!vars
    BY <1>3, <1>4 DEF CardPart!vars
<1>5. ASSUME NEW t \in CardPart!Threads, NEW d \in Cards, d = r13[t], CardPart!Place(t)
      PROVE  Placements'
    <2>1. r7' = [r7 EXCEPT ![d] = r7[d] + 1]
        BY <1>5 DEF CardPart!Place
    <2>2. t \notin Counted(d) /\ Counted(d)' = Counted(d) \cup {t}
        BY <1>0, <1>5 DEF CardPart!Place, Counted, CardPart!At
    <2>3. \A c \in Cards \ {d} : Counted(c)' = Counted(c)
        BY <1>0, <1>5 DEF CardPart!Place, Counted, CardPart!At
    <2>4. Cardinality(Counted(d)') = Cardinality(Counted(d)) + 1
        BY <1>1, <2>2, FS_AddElement
    <2> QED BY <1>0, <2>1, <2>3, <2>4 DEF Placements
<1>6. ASSUME NEW t \in CardPart!Threads, NEW d \in Cards, d = r13[t], CardPart!Placed(t)
      PROVE  Placements'
    <2>1. r7' = [r7 EXCEPT ![d] = IF r7[d] > 0 THEN r7[d] - 1 ELSE 0]
        BY <1>6 DEF CardPart!Placed
    <2>2. t \in Counted(d) /\ Counted(d)' = Counted(d) \ {t}
        BY <1>0, <1>6 DEF CardPart!Placed, Counted, CardPart!At
    <2>3. \A c \in Cards \ {d} : Counted(c)' = Counted(c)
        BY <1>0, <1>6 DEF CardPart!Placed, Counted, CardPart!At
    <2>4. /\ Cardinality(Counted(d)') = Cardinality(Counted(d)) - 1
          /\ Cardinality(Counted(d)') \in Nat
        BY <1>1, <2>2, FS_RemoveElement, FS_CardinalityType
    <2>5. r7'[d] = Cardinality(Counted(d)')
        BY <1>0, <2>1, <2>4 DEF Placements
    <2>6. \A c \in Cards \ {d} : r7'[c] = Cardinality(Counted(c)')
        BY <1>0, <2>1, <2>3 DEF Placements
    <2> QED BY <2>5, <2>6 DEF Placements
<1>7. ASSUME NEW t \in CardPart!Threads,
             CardPart!ShowAll(t) \/ CardPart!NextCard(t) \/ CardPart!ListDone(t)
      PROVE  Placements'
    BY <1>0, <1>3, <1>7 DEF CardPart!ShowAll, CardPart!NextCard, CardPart!ListDone
<1>8. ASSUME NEW t \in CardPart!Threads,
             CardPart!LookAgain(t) \/ CardPart!Style(t) \/ CardPart!Show(t) \/ CardPart!Hide(t)
      PROVE  Placements'
    BY <1>0, <1>3, <1>8 DEF CardPart!LookAgain, CardPart!Style, CardPart!Show, CardPart!Hide
<1>9. ASSUME NEW t \in CardPart!Threads, CardPart!Unstyle(t) \/ CardPart!NativeFails(t)
      PROVE  Placements'
    BY <1>0, <1>3, <1>9 DEF CardPart!Unstyle, CardPart!NativeFails
<1>10. CASE CardPart!Replay
    BY <1>0, <1>3, <1>10 DEF CardPart!Replay
<1>11. CardPart!ThreadStep => Placements'
    <2>1. \A t \in CardPart!Threads : CardPart!Place(t) \/ CardPart!Placed(t) => r13[t] \in Cards
        BY DEF CardPart!Place, CardPart!Placed, CardPart!Threading, CardPart!AtCard
    <2> QED BY <1>5, <1>6, <1>7, <1>8, <1>9, <1>10, <2>1 DEF CardPart!ThreadStep
<1>12. ASSUME NEW t \in Users, NEW c \in Cards, NEW on \in BOOLEAN,
              CardPart!SetVisible(t, c, on)
       PROVE  Placements'
    BY <1>0, <1>3, <1>12 DEF CardPart!SetVisible, CardPart!Asks
<1>13. ASSUME NEW t \in Users, NEW on \in BOOLEAN, CardPart!SetAllVisible(t, on)
       PROVE  Placements'
    BY <1>0, <1>3, <1>13 DEF CardPart!SetAllVisible, CardPart!Asks
<1>14. ASSUME NEW t \in Users, NEW c \in Cards, NEW p \in Places, CardPart!SizeCard(t, c, p)
       PROVE  Placements'
    BY <1>0, <1>3, <1>14 DEF CardPart!SizeCard, CardPart!Asks
<1>15. ASSUME NEW t \in Users, CardPart!ResetAll(t) \/ \E c \in Cards : CardPart!ResetCard(t, c)
       PROVE  Placements'
    BY <1>0, <1>3, <1>15 DEF CardPart!ResetAll, CardPart!ResetCard, CardPart!Asks
<1>16. ASSUME NEW c \in Cards, NEW p \in Places,
              \/ CardPart!Drag(c, p) \/ CardPart!Realize(c) \/ CardPart!LateHide(c)
              \/ CardPart!Hears(c) \/ CardPart!Remembers(c)
       PROVE  Placements'
    <2>1. r7' = r7 /\ r11' = r11 /\ r13' = r13
        BY <1>16 DEF CardPart!Drag, CardPart!Realize, CardPart!LateHide, CardPart!Hears,
                     CardPart!Remembers
    <2> QED BY <1>3, <2>1
<1>17. CardPart!Flush \/ CardPart!Stop => Placements'
    BY <1>3 DEF CardPart!Flush, CardPart!Stop
<1>18. CardPart!UserStep => Placements'
    BY <1>12, <1>13, <1>14, <1>15, <1>16, <1>17, UserMoves
<1>19. CASE CardPart!Gone
    <2>1. \A c \in Cards : Counted(c)' = {} /\ r7'[c] = 0
        BY <1>19 DEF CardPart!Gone, Counted, CardPart!At
    <2> QED BY <2>1, FS_EmptySet DEF Placements
<1>20. CASE CardPart!Launch
    BY <1>0, <1>3, <1>20 DEF CardPart!Launch, CardPart!EndIsBlank
<1> QED BY <1>4, <1>11, <1>17, <1>18, <1>19, <1>20
        DEF CardPart!Next, CardPart!End, CardPart!Killed

\* Threads and the user do not end the app.
LEMMA StillRuns ==
    (CardPart!ThreadStep \/ CardPart!UserStep) => r17' = r17
<1> USE DEF CardPart!stateVars, CardPart!nativeVars, CardPart!eventVars, CardPart!threadVars,
            CardPart!historyVars
<1>1. CardPart!ThreadStep => r17' = r17
    BY DEF CardPart!ThreadStep, CardPart!ShowAll, CardPart!NextCard, CardPart!LookAgain,
           CardPart!Place, CardPart!Placed, CardPart!Style, CardPart!Show, CardPart!Hide,
           CardPart!Unstyle, CardPart!NativeFails, CardPart!ListDone, CardPart!Replay
<1>2. CardPart!UserStep => r17' = r17
    BY DEF CardPart!UserStep, CardPart!SetVisible, CardPart!SetAllVisible, CardPart!SizeCard,
           CardPart!ResetCard, CardPart!ResetAll, CardPart!Drag, CardPart!Realize,
           CardPart!LateHide, CardPart!Hears, CardPart!Remembers, CardPart!Flush
<1> QED BY <1>1, <1>2

\* Nothing outlives the app.
LEMMA CardEnd ==
    ASSUME CardPart!Shapes, CardPart!EndIsBlank, [CardPart!Next]_(CardPart!vars)
    PROVE  CardPart!EndIsBlank'
<1>1. CASE UNCHANGED CardPart!vars
    BY <1>1 DEF CardPart!vars, CardPart!EndIsBlank, CardPart!stateVars, CardPart!nativeVars,
                CardPart!eventVars, CardPart!threadVars, CardPart!historyVars
<1>2. CASE r17 # "ended" /\ (CardPart!ThreadStep \/ CardPart!UserStep)
    BY <1>2, StillRuns DEF CardPart!EndIsBlank
<1>3. CASE CardPart!Stop \/ CardPart!Launch
    BY <1>3 DEF CardPart!Stop, CardPart!Launch, CardPart!EndIsBlank
<1>4. CASE CardPart!Gone
    BY <1>4 DEF CardPart!Gone, CardPart!EndIsBlank
<1> QED BY <1>1, <1>2, <1>3, <1>4 DEF CardPart!Next, CardPart!End, CardPart!Killed

\* A thread does what it was asked to do, step by step.
LEMMA CardThreads ==
    ASSUME CardPart!Shapes, CardPart!Threading, CardPart!EndIsBlank,
           [CardPart!Next]_(CardPart!vars)
    PROVE  CardPart!Threading'
<1> DEFINE Does(t) ==
        /\ r11[t] \in CardPart!AtCard => r13[t] \in Cards
        /\ r11[t] = "place" => r14[t] \in Places
        /\ r11[t] \in {"look", "style", "show"} => r12[t] = "show"
        /\ r11[t] \in {"hide", "unstyle"} => r12[t] = "hide"
        /\ r11[t] \in {"idle", "asleep", "all"} => r15[t] = {}
        /\ r11[t] = "asleep" => t = Startup /\ r16 < Replays
<1>0. /\ r11 \in [CardPart!Threads -> CardPart!Stations]
      /\ r12 \in [CardPart!Threads -> {"show", "hide", "place"}]
      /\ r13 \in [CardPart!Threads -> Cards \cup {Nowhere}]
      /\ r14 \in [CardPart!Threads -> Places \cup {Nowhere}]
      /\ r15 \in [CardPart!Threads -> SUBSET Cards]
      /\ r3 \in [Cards -> Places] /\ r1 \subseteq Cards /\ r16 \in 0 .. Replays
    BY DEF CardPart!Shapes
<1>1. /\ \A t \in CardPart!Threads : Does(t)
      /\ r17 = "yes" /\ r16 < Replays => r11[Startup] # "idle"
    BY DEF CardPart!Threading
<1> USE CardNames
        DEF CardPart!Goes, CardPart!stateVars, CardPart!nativeVars, CardPart!eventVars,
            CardPart!threadVars, CardPart!historyVars
<1>2. ASSUME NEW t \in CardPart!Threads, Does(t)', r16' = r16,
             \A u \in CardPart!Threads \ {t} :
                 UNCHANGED <<r11[u], r12[u], r13[u], r14[u], r15[u]>>,
             t = Startup => (r17' = "yes" /\ r16' < Replays => r11'[t] # "idle"),
             r17' = "yes" => r17 = "yes"
      PROVE  CardPart!Threading'
    <2>1. \A u \in CardPart!Threads : Does(u)'
        BY <1>1, <1>2
    <2>2. r17' = "yes" /\ r16' < Replays => r11'[Startup] # "idle"
        BY <1>1, <1>2
    <2> HIDE DEF Does
    <2> QED BY <2>1, <2>2 DEF CardPart!Threading, Does
<1>3. CASE UNCHANGED CardPart!vars
    BY <1>3 DEF CardPart!vars, CardPart!Threading
<1>4. ASSUME NEW t \in CardPart!Threads, CardPart!ShowAll(t) \/ CardPart!ListDone(t)
      PROVE  CardPart!Threading'
    <2>1. Does(t)'
        BY <1>0, <1>4 DEF CardPart!ShowAll, CardPart!ListDone, CardPart!AtCard
    <2>2. t = Startup => (r16 < Replays => r11'[t] # "idle")
        BY <1>0, <1>4 DEF CardPart!ShowAll, CardPart!ListDone
    <2> QED BY <1>0, <1>2, <1>4, <2>1, <2>2 DEF CardPart!ShowAll, CardPart!ListDone
<1>5. ASSUME NEW t \in CardPart!Threads, CardPart!NextCard(t) PROVE CardPart!Threading'
    <2>1. Does(t)' /\ r11'[t] # "idle"
        BY <1>0, <1>1, <1>5 DEF CardPart!NextCard, CardPart!AtCard
    <2> QED BY <1>0, <1>2, <1>5, <2>1 DEF CardPart!NextCard
<1>6. ASSUME NEW t \in CardPart!Threads, CardPart!LookAgain(t) \/ CardPart!Placed(t)
      PROVE  CardPart!Threading'
    <2>1. Does(t)' /\ r11'[t] # "idle"
        BY <1>0, <1>1, <1>6 DEF CardPart!LookAgain, CardPart!Placed, CardPart!AtCard
    <2> QED BY <1>0, <1>2, <1>6, <2>1 DEF CardPart!LookAgain, CardPart!Placed
<1>7. ASSUME NEW t \in CardPart!Threads,
             \/ CardPart!Place(t) \/ CardPart!Style(t) \/ CardPart!Show(t) \/ CardPart!Hide(t)
             \/ CardPart!Unstyle(t) \/ CardPart!NativeFails(t)
      PROVE  CardPart!Threading'
    <2>1. /\ r11' = [r11 EXCEPT ![t] = r11'[t]] /\ UNCHANGED <<r12, r13, r14, r15, r16, r17>>
          /\ r11[t] \in CardPart!AtCard
          /\ r11'[t] \in {"placed", "show", "unstyle", "next", "style"}
          /\ r11'[t] \in {"show", "style"} => r12[t] = "show"
          /\ r11'[t] = "unstyle" => r12[t] = "hide"
        BY <1>0, <1>1, <1>7
           DEF CardPart!Place, CardPart!Style, CardPart!Show, CardPart!Hide, CardPart!Unstyle,
               CardPart!NativeFails, CardPart!AtCard
    <2>2. Does(t)'
        BY <1>0, <1>1, <2>1
    <2> QED BY <1>0, <1>2, <2>1, <2>2
<1>8. CASE CardPart!Replay
    <2>1. Does(Startup)'
        BY <1>0, <1>1, <1>8 DEF CardPart!Replay, CardPart!AtCard
    <2>2. \A u \in CardPart!Threads \ {Startup} : Does(u)'
        BY <1>0, <1>1, <1>8 DEF CardPart!Replay
    <2>3. r17' = "yes" => r11'[Startup] # "idle"
        BY <1>0, <1>8 DEF CardPart!Replay
    <2> QED BY <2>1, <2>2, <2>3 DEF CardPart!Threading
<1>9. CardPart!ThreadStep => CardPart!Threading'
    BY <1>4, <1>5, <1>6, <1>7, <1>8 DEF CardPart!ThreadStep
<1>10. ASSUME NEW t \in Users, NEW c \in Cards, NEW on \in BOOLEAN,
              CardPart!SetVisible(t, c, on)
       PROVE  CardPart!Threading'
    <2>1. Does(t)'
        BY <1>0, <1>1, <1>10 DEF CardPart!SetVisible, CardPart!Asks, CardPart!AtCard
    <2> QED BY <1>0, <1>2, <1>10, <2>1 DEF CardPart!SetVisible, CardPart!Asks
<1>11. ASSUME NEW t \in Users, NEW on \in BOOLEAN, CardPart!SetAllVisible(t, on)
       PROVE  CardPart!Threading'
    <2>1. Does(t)'
        BY <1>0, <1>1, <1>11 DEF CardPart!SetAllVisible, CardPart!Asks, CardPart!AtCard
    <2> QED BY <1>0, <1>2, <1>11, <2>1 DEF CardPart!SetAllVisible, CardPart!Asks
<1>12. ASSUME NEW t \in Users, NEW c \in Cards, NEW p \in Places, CardPart!SizeCard(t, c, p)
       PROVE  CardPart!Threading'
    <2>1. r3'[c] \in Places
        BY <1>0, <1>12 DEF CardPart!SizeCard
    <2>2. Does(t)'
        BY <1>0, <1>1, <1>12, <2>1 DEF CardPart!SizeCard, CardPart!Asks, CardPart!AtCard
    <2> QED BY <1>0, <1>2, <1>12, <2>2 DEF CardPart!SizeCard, CardPart!Asks
<1>13. ASSUME NEW t \in Users, CardPart!ResetAll(t) \/ \E c \in Cards : CardPart!ResetCard(t, c)
       PROVE  CardPart!Threading'
    <2>1. Does(t)'
        BY <1>0, <1>1, <1>13
           DEF CardPart!ResetAll, CardPart!ResetCard, CardPart!Asks, CardPart!AtCard
    <2> QED BY <1>0, <1>2, <1>13, <2>1
            DEF CardPart!ResetAll, CardPart!ResetCard, CardPart!Asks
<1>14. ASSUME UNCHANGED <<r11, r12, r13, r14, r15, r16>>, r17' = "yes" => r17 = "yes"
       PROVE  CardPart!Threading'
    BY <1>1, <1>14 DEF CardPart!Threading
<1>15. ASSUME NEW c \in Cards, NEW p \in Places,
              \/ CardPart!Drag(c, p) \/ CardPart!Realize(c) \/ CardPart!LateHide(c)
              \/ CardPart!Hears(c) \/ CardPart!Remembers(c)
       PROVE  CardPart!Threading'
    <2>1. UNCHANGED <<r11, r12, r13, r14, r15, r16, r17>>
        BY <1>15 DEF CardPart!Drag, CardPart!Realize, CardPart!LateHide, CardPart!Hears,
                     CardPart!Remembers
    <2> QED BY <1>14, <2>1
<1>16. CardPart!Flush \/ CardPart!Stop => CardPart!Threading'
    BY <1>14 DEF CardPart!Flush, CardPart!Stop
<1>17. CardPart!UserStep => CardPart!Threading'
    BY <1>10, <1>11, <1>12, <1>13, <1>15, <1>16, UserMoves
<1>18. CASE CardPart!Gone
    BY <1>18 DEF CardPart!Gone, CardPart!Threading, CardPart!AtCard
<1>19. CASE CardPart!Launch
    BY <1>0, <1>1, <1>19 DEF CardPart!Launch, CardPart!Threading, CardPart!AtCard,
           CardPart!EndIsBlank
<1> QED BY <1>3, <1>9, <1>16, <1>17, <1>18, <1>19
        DEF CardPart!Next, CardPart!End, CardPart!Killed

\* All other threads stand still.
Others(t) ==
    \A u \in CardPart!Threads \ {t} : UNCHANGED <<r11[u], r12[u], r13[u], r15[u]>>

\* Who is placing a card or is going to, and who is showing it, ...
Puts(t, c) ==
    \/ r13[t] = c /\ r11[t] \in {"place", "placed"}
    \/ r12[t] = "place" /\ c \in r15[t]
Styles(t, c) == r13[t] = c /\ r11[t] \in {"style", "show"}

\* ... and EventsTell, of one card.
Tells(c) ==
    /\ r10[c].by = "none" => r10[c] = CardPart!NoEvent
    /\ r10[c].by # "none" => r10[c].place \in Places
    /\ c \notin r20 =>
          /\ c \in r8 \/ (\E t \in CardPart!Threads : Styles(t, c)) => c \in r6
          /\ r10[c].by = "user" =>
                /\ r10[c].place = r18[c] /\ c \in r6 /\ (r10[c].passed \/ r17 = "yes")
                /\ \A t \in CardPart!Threads : ~Puts(t, c)
          /\ r10[c].by = "native" => ~r10[c].passed /\ (c \notin r6 \/ r7[c] > 0)

\* EventsTell says that the event of every card tells the truth.
LEMMA TellsMeans == CardPart!EventsTell <=> \A c \in Cards : Tells(c)
<1>1. ASSUME NEW c \in Cards
      PROVE  /\ CardPart!Placing(c) = {} <=> \A t \in CardPart!Threads : ~Puts(t, c)
             /\ CardPart!At(c, {"style", "show"}) # {}
                    <=> \E t \in CardPart!Threads : Styles(t, c)
    BY DEF CardPart!Placing, CardPart!At, Puts, Styles
<1> QED BY <1>1 DEF CardPart!EventsTell, Tells

\* A user's event that has not been heard yet will be: nothing suppresses it.
LEMMA UserHeard ==
    ASSUME CardPart!Shapes, Placements, CardPart!EventsTell,
           NEW c \in Cards, c \notin r20, r10[c].by = "user", ~r10[c].passed
    PROVE  c \in r6 /\ r7[c] = 0 /\ r17 = "yes"
<1>1. c \in r6 /\ r17 = "yes" /\ \A t \in CardPart!Threads : ~Puts(t, c)
    BY TellsMeans DEF Tells
<1>2. Counted(c) = {}
    BY <1>1 DEF Counted, CardPart!At, Puts
<1> QED BY <1>1, <1>2, FS_EmptySet DEF Placements

\* What a step of thread t has to keep, if it leaves c unspoiled.
Tidy(t, c) ==
    c \notin r20' =>
        /\ c \in r8' \/ Styles(t, c)' => c \in r8 \/ Styles(t, c) \/ c \in r6'
        /\ r10'[c].by = "user" /\ Puts(t, c)' => Puts(t, c)
        /\ r10'[c].by = "native" => ~r10'[c].passed /\ (c \notin r6' \/ r7'[c] > 0)

\* Then the event of the card still tells the truth.
LEMMA TellsStep ==
    ASSUME NEW t \in CardPart!Threads, NEW c \in Cards, Tells(c), Others(t), Tidy(t, c),
           r10'[c] = r10[c] \/ (r10'[c].by = "native" /\ r10'[c].place \in Places),
           c \in r20 => c \in r20', c \in r6 => c \in r6', r18'[c] = r18[c], r17' = r17
    PROVE  Tells(c)'
<1>1. ASSUME NEW u \in CardPart!Threads \ {t}
      PROVE  (Puts(u, c)' <=> Puts(u, c)) /\ (Styles(u, c)' <=> Styles(u, c))
    BY DEF Others, Puts, Styles
<1>2. c \notin r20' => (c \in r8 \/ (\E u \in CardPart!Threads : Styles(u, c)) => c \in r6)'
    BY <1>1 DEF Tells, Tidy
<1>3. c \notin r20' /\ r10'[c].by = "user" => \A u \in CardPart!Threads : ~Puts(u, c)'
    BY <1>1 DEF Tells, Tidy
<1>4. c \notin r20' /\ r10'[c].by = "user" =>
          r10'[c].place = r18'[c] /\ c \in r6' /\ (r10'[c].passed \/ r17' = "yes")
    BY DEF Tells
<1>5. /\ r10'[c].by = "none" => r10'[c] = CardPart!NoEvent
      /\ r10'[c].by # "none" => r10'[c].place \in Places
    BY DEF Tells
<1> QED BY <1>2, <1>3, <1>4, <1>5 DEF Tells, Tidy

\* A thread at work does not keep a user's event from being heard, nor lets one be
\* heard that the app's own placing has caused (remember_move, remember_size).
LEMMA CardThreadsTell ==
    ASSUME CardPart!Shapes, CardPart!Threading, CardPart!ThreadStep, NEW c \in Cards, Tells(c)
    PROVE  Tells(c)'
<1>0. /\ r7 \in [Cards -> Nat] /\ r10 \in [Cards -> CardPart!Events]
      /\ r11 \in [CardPart!Threads -> CardPart!Stations]
      /\ r12 \in [CardPart!Threads -> {"show", "hide", "place"}]
      /\ r13 \in [CardPart!Threads -> Cards \cup {Nowhere}]
      /\ r15 \in [CardPart!Threads -> SUBSET Cards]
    BY DEF CardPart!Shapes
<1>1. \A t \in CardPart!Threads :
          /\ r11[t] \in CardPart!AtCard => r13[t] \in Cards
          /\ r11[t] = "place" => r14[t] \in Places
          /\ r11[t] \in {"look", "style", "show"} => r12[t] = "show"
          /\ r11[t] \in {"idle", "asleep", "all"} => r15[t] = {}
    BY DEF CardPart!Threading
<1> USE CardNames, NoEventIsEvent
        DEF CardPart!Goes, CardPart!stateVars, CardPart!nativeVars, CardPart!eventVars,
            CardPart!threadVars, CardPart!historyVars
<1>2. ASSUME NEW t \in CardPart!Threads, Others(t), Tidy(t, c),
             UNCHANGED <<r10, r17, r18>>, r20 \subseteq r20', r6 \subseteq r6'
      PROVE  Tells(c)'
    BY <1>2, TellsStep
<1>3. ASSUME NEW t \in CardPart!Threads, UNCHANGED <<r6, r7, r8, r10, r17, r18, r20>>,
             Others(t), Styles(t, c)' => c \in r6, Puts(t, c)' => Puts(t, c) \/ c \notin r6
      PROVE  Tells(c)'
    <2>1. r10[c].by = "user" /\ c \notin r20 => c \in r6
        BY DEF Tells
    <2>2. Tidy(t, c)
        BY <1>3, <2>1 DEF Tells, Tidy
    <2> QED BY <1>2, <1>3, <2>2
<1>4. ASSUME NEW t \in CardPart!Threads, CardPart!ShowAll(t) \/ CardPart!ListDone(t)
      PROVE  Tells(c)'
    <2>1. UNCHANGED <<r6, r7, r8, r10, r17, r18, r20>> /\ Others(t)
        BY <1>0, <1>4 DEF CardPart!ShowAll, CardPart!ListDone, Others
    <2>2. ~Styles(t, c)' /\ ~Puts(t, c)'
        BY <1>0, <1>4 DEF CardPart!ShowAll, CardPart!ListDone, Styles, Puts
    <2> QED BY <1>3, <2>1, <2>2
<1>5. ASSUME NEW t \in CardPart!Threads, CardPart!NextCard(t) PROVE Tells(c)'
    <2>1. UNCHANGED <<r6, r7, r8, r10, r17, r18, r20>> /\ Others(t)
        BY <1>0, <1>5 DEF CardPart!NextCard, Others
    <2>2. ~Styles(t, c)' /\ (Puts(t, c)' => Puts(t, c))
        BY <1>0, <1>5 DEF CardPart!NextCard, Styles, Puts
    <2> QED BY <1>3, <2>1, <2>2
<1>6. ASSUME NEW t \in CardPart!Threads, CardPart!LookAgain(t) PROVE Tells(c)'
    <2>1. UNCHANGED <<r6, r7, r10, r17, r18, r20>> /\ Others(t) /\ r8' \subseteq r8
        BY <1>0, <1>6 DEF CardPart!LookAgain, Others
    <2>2. (Styles(t, c)' => c \in r6) /\ (Puts(t, c)' => Puts(t, c) \/ c \notin r6)
        BY <1>0, <1>1, <1>6 DEF CardPart!LookAgain, Styles, Puts
    <2>3. Tidy(t, c)
        BY <2>1, <2>2 DEF Tells, Tidy
    <2> QED BY <1>2, <2>1, <2>3
<1>7. ASSUME NEW t \in CardPart!Threads, CardPart!Place(t) PROVE Tells(c)'
    <2>1. /\ r13[t] \in Cards /\ r14[t] \in Places /\ UNCHANGED <<r6, r8, r17, r18, r20>>
          /\ Others(t) /\ r7' = [r7 EXCEPT ![r13[t]] = r7[r13[t]] + 1]
        BY <1>0, <1>1, <1>7 DEF CardPart!Place, CardPart!AtCard, Others
    <2>2. r7'[c] >= r7[c] /\ (c = r13[t] => r7'[c] > 0)
        BY <1>0, <2>1
    <2>3. PICK p \in {r14[t], Home} :
              r10' = [r10 EXCEPT ![r13[t]] =
                         IF r10[r13[t]] = CardPart!NoEvent
                         THEN [place |-> p, by |-> "native", passed |-> FALSE]
                         ELSE r10[r13[t]]]
        BY <1>7 DEF CardPart!Place
    <2>4. \/ r10'[c] = r10[c]
          \/ c = r13[t] /\ r10'[c] = [place |-> p, by |-> "native", passed |-> FALSE]
        BY <1>0, <2>3
    <2>5. ~Styles(t, c)' /\ (Puts(t, c)' => Puts(t, c))
        BY <1>0, <1>7 DEF CardPart!Place, Styles, Puts
    <2>6. r7[c] \in Nat /\ r7'[c] \in Nat
        BY <1>0, <2>1
    <2>7. c \notin r20' /\ r10'[c].by = "native" =>
              ~r10'[c].passed /\ (c \notin r6' \/ r7'[c] > 0)
        BY <2>1, <2>2, <2>4, <2>6 DEF Tells
    <2>8. Tidy(t, c)
        BY <2>1, <2>5, <2>7 DEF Tidy
    <2> QED BY <2>1, <2>4, <2>8, TellsStep
<1>8. ASSUME NEW t \in CardPart!Threads, CardPart!Placed(t) PROVE Tells(c)'
    <2>1. /\ r13[t] \in Cards /\ UNCHANGED <<r8, r10, r17, r18>> /\ Others(t)
          /\ r20 \subseteq r20' /\ r6 \subseteq r6'
        BY <1>0, <1>1, <1>8 DEF CardPart!Placed, CardPart!AtCard, Others
    <2>2. (Styles(t, c)' => c \in r6') /\ (Puts(t, c)' => Puts(t, c))
        BY <1>0, <1>8 DEF CardPart!Placed, Styles, Puts
    <2>3. c # r13[t] => r7'[c] = r7[c] /\ (c \in r6' => c \in r6)
        BY <1>0, <1>8, <2>1 DEF CardPart!Placed
    <2>4. c = r13[t] /\ c \notin r20' => r10'[c] = CardPart!NoEvent
        BY <1>8, <2>1 DEF CardPart!Placed
    <2>5. Tidy(t, c)
        BY <2>1, <2>2, <2>3, <2>4 DEF Tells, Tidy
    <2> QED BY <1>2, <2>1, <2>5
<1>9. ASSUME NEW t \in CardPart!Threads,
             \/ CardPart!Style(t) \/ CardPart!Show(t) \/ CardPart!Hide(t) \/ CardPart!Unstyle(t)
      PROVE  Tells(c)'
    <2>1. UNCHANGED <<r6, r7, r10, r12, r13, r15, r17, r18, r20>> /\ Others(t)
        BY <1>0, <1>9
           DEF CardPart!Style, CardPart!Show, CardPart!Hide, CardPart!Unstyle, Others
    <2>2. /\ c \in r8' => c \in r8 \/ Styles(t, c)
          /\ Styles(t, c)' => Styles(t, c)
          /\ Puts(t, c)' => Puts(t, c)
        BY <1>0, <1>9
           DEF CardPart!Style, CardPart!Show, CardPart!Hide, CardPart!Unstyle, Styles, Puts
    <2>3. Tidy(t, c)
        BY <2>1, <2>2 DEF Tells, Tidy
    <2> QED BY <1>2, <2>1, <2>3
<1>10. ASSUME NEW t \in CardPart!Threads, CardPart!NativeFails(t) PROVE Tells(c)'
    <2>1. UNCHANGED <<r6, r7, r8, r10, r12, r13, r15, r17, r18>> /\ Others(t) /\ r20 \subseteq r20'
        BY <1>0, <1>10 DEF CardPart!NativeFails, Others
    <2>2. /\ Styles(t, c)' => Styles(t, c) \/ c \in r20'
          /\ Puts(t, c)' => Puts(t, c)
        BY <1>0, <1>10 DEF CardPart!NativeFails, Styles, Puts
    <2>3. Tidy(t, c)
        BY <2>1, <2>2 DEF Tells, Tidy
    <2> QED BY <1>2, <2>1, <2>3
<1>11. CASE CardPart!Replay
    <2>1. /\ r11' = [r11 EXCEPT ![Startup] = r11'[Startup]] /\ r11'[Startup] \in {"all", "idle"}
          /\ UNCHANGED <<r6, r7, r8, r10, r12, r13, r15, r17, r18, r20>>
        BY <1>0, <1>11 DEF CardPart!Replay
    <2>2. Others(Startup) /\ ~Styles(Startup, c)' /\ (Puts(Startup, c)' => Puts(Startup, c))
        BY <1>0, <2>1 DEF Others, Styles, Puts
    <2> QED BY <1>3, <2>1, <2>2
<1> QED BY <1>4, <1>5, <1>6, <1>7, <1>8, <1>9, <1>10, <1>11 DEF CardPart!ThreadStep

\* Nor does what a user does, except for the things that spoil a card, and what the
\* window system reports.
LEMMA CardUsersTell ==
    ASSUME CardPart!Shapes, Placements, CardPart!Threading, CardPart!EventsTell,
           CardPart!UserStep, NEW c \in Cards
    PROVE  Tells(c)'
<1>0. /\ r10 \in [Cards -> CardPart!Events] /\ r18 \in [Cards -> Places]
      /\ r7 \in [Cards -> Nat] /\ r1 \subseteq Cards
      /\ r11 \in [CardPart!Threads -> CardPart!Stations]
      /\ r12 \in [CardPart!Threads -> {"show", "hide", "place"}]
      /\ r13 \in [CardPart!Threads -> Cards \cup {Nowhere}]
      /\ r15 \in [CardPart!Threads -> SUBSET Cards]
    BY DEF CardPart!Shapes
<1>1. Tells(c) /\ \A t \in CardPart!Threads : r11[t] = "idle" => r15[t] = {}
    BY TellsMeans DEF CardPart!Threading
<1> USE CardNames, NoEventIsEvent
        DEF CardPart!Goes, CardPart!stateVars, CardPart!nativeVars, CardPart!eventVars,
            CardPart!threadVars, CardPart!historyVars
<1>2. ASSUME NEW t \in Users,
             \/ \E on \in BOOLEAN : CardPart!SetAllVisible(t, on)
             \/ \E d \in Cards, on \in BOOLEAN : CardPart!SetVisible(t, d, on)
      PROVE  Tells(c)'
    <2>1. UNCHANGED <<r6, r7, r8, r10, r17, r18, r20>> /\ Others(t)
        BY <1>0, <1>2 DEF CardPart!SetAllVisible, CardPart!SetVisible, Others
    <2>2. ~Styles(t, c)' /\ ~Puts(t, c)'
        BY <1>0, <1>1, <1>2
           DEF CardPart!SetAllVisible, CardPart!SetVisible, CardPart!Asks, Styles, Puts
    <2>3. Tidy(t, c)
        BY <1>1, <2>1, <2>2 DEF Tells, Tidy
    <2> QED BY <1>1, <2>1, <2>3, TellsStep
<1>3. ASSUME NEW t \in Users,
             \/ \E d \in Cards, p \in Places : CardPart!SizeCard(t, d, p)
             \/ \E d \in Cards : CardPart!ResetCard(t, d)
             \/ CardPart!ResetAll(t)
      PROVE  Tells(c)'
    <2>1. UNCHANGED <<r6, r7, r8, r10, r17>> /\ Others(t) /\ r20 \subseteq r20'
        BY <1>0, <1>3 DEF CardPart!SizeCard, CardPart!ResetCard, CardPart!ResetAll, Others
    <2>2. ~Styles(t, c)'
        BY <1>0, <1>3 DEF CardPart!SizeCard, CardPart!ResetCard, CardPart!ResetAll, Styles
    <2>3. \/ r18'[c] = r18[c] /\ ~Puts(t, c)'
          \/ r10[c] # CardPart!NoEvent => c \in r20'
        BY <1>0, <1>1, <1>3
           DEF CardPart!SizeCard, CardPart!ResetCard, CardPart!ResetAll, CardPart!Asks,
               CardPart!Moving, Puts
    <2>4. CASE r18'[c] = r18[c] /\ ~Puts(t, c)'
        <3>1. Tidy(t, c)
            BY <1>1, <2>1, <2>2, <2>4 DEF Tells, Tidy
        <3> QED BY <1>1, <2>1, <2>4, <3>1, TellsStep
    <2>5. CASE c \in r20'
        BY <1>1, <2>1, <2>5 DEF Tells
    <2>6. CASE r10[c] = CardPart!NoEvent
        <3>1. \A u \in CardPart!Threads : Styles(u, c)' => Styles(u, c)
            BY <2>1, <2>2 DEF Others, Styles
        <3> QED BY <1>1, <2>1, <2>6, <3>1 DEF Tells
    <2> QED BY <2>3, <2>4, <2>5, <2>6
<1>4. ASSUME UNCHANGED <<r6, r7, r11, r12, r13, r15, r17>>, r8' \subseteq r8,
             UNCHANGED <<r10[c], r18[c]>>, r20 \subseteq r20'
      PROVE  Tells(c)'
    BY <1>1, <1>4 DEF Tells, Styles, Puts
<1>5. CardPart!Flush => Tells(c)'
    BY <1>4 DEF CardPart!Flush
<1>6. ASSUME NEW d \in Cards, CardPart!LateHide(d) PROVE Tells(c)'
    BY <1>4, <1>6 DEF CardPart!LateHide
<1>7. ASSUME NEW d \in Cards, NEW p \in Places,
             \/ CardPart!Drag(d, p) \/ CardPart!Realize(d)
             \/ CardPart!Hears(d) \/ CardPart!Remembers(d)
      PROVE  /\ UNCHANGED <<r6, r7, r8, r11, r12, r13, r15, r17>> /\ r20 \subseteq r20'
             /\ c # d => UNCHANGED <<r10[c], r18[c]>>
    <2>1. CASE CardPart!Drag(d, p)
        BY <1>0, <2>1 DEF CardPart!Drag
    <2>2. CASE CardPart!Realize(d) \/ CardPart!Remembers(d)
        BY <1>0, <2>2 DEF CardPart!Realize, CardPart!Remembers
    <2>3. CASE CardPart!Hears(d)
        BY <1>0, <2>3 DEF CardPart!Hears
    <2> QED BY <1>7, <2>1, <2>2, <2>3
<1>8. ASSUME UNCHANGED <<r6, r7, r8, r11, r12, r13, r15>>
      PROVE  \A t \in CardPart!Threads :
                 (Styles(t, c)' <=> Styles(t, c)) /\ (Puts(t, c)' <=> Puts(t, c))
    BY <1>8 DEF Styles, Puts
<1>9. ASSUME NEW p \in Places, CardPart!Drag(c, p) PROVE Tells(c)'
    <2>1. /\ r10'[c] = [place |-> p, by |-> "user", passed |-> FALSE] /\ r18'[c] = p
          /\ c \in r8 /\ (c \notin r20' => CardPart!Placing(c) = {} /\ r17 = "yes")
        BY <1>0, <1>9 DEF CardPart!Drag, CardPart!Moving
    <2>2. c \notin r20' => \A t \in CardPart!Threads : ~Puts(t, c)
        BY <2>1 DEF CardPart!Placing, CardPart!At, Puts
    <2> QED BY <1>1, <1>7, <1>8, <1>9, <2>1, <2>2 DEF Tells
<1>10. ASSUME CardPart!Realize(c) PROVE Tells(c)'
    <2>1. r10'[c] = [place |-> Home, by |-> "native", passed |-> FALSE] /\ c \notin r6
          /\ UNCHANGED <<r18, r20>>
        BY <1>0, <1>10 DEF CardPart!Realize
    <2> QED BY <1>1, <1>7, <1>8, <1>10, <2>1 DEF Tells
<1>11. ASSUME CardPart!Remembers(c) PROVE Tells(c)'
    <2>1. r10'[c] = CardPart!NoEvent /\ UNCHANGED <<r18, r20>>
        BY <1>0, <1>11 DEF CardPart!Remembers
    <2> QED BY <1>1, <1>7, <1>8, <1>11, <2>1 DEF Tells
<1>12. ASSUME CardPart!Hears(c) PROVE Tells(c)'
    <2>0. r10[c] # CardPart!NoEvent /\ UNCHANGED <<r18, r20>>
        BY <1>12 DEF CardPart!Hears
    <2>1. CASE c \in r6 /\ r7[c] = 0 /\ r17 = "yes"
        <3>1. r10'[c] = [r10[c] EXCEPT !.passed = TRUE]
            BY <1>0, <1>12, <2>1 DEF CardPart!Hears
        <3>2. r10'[c].by = r10[c].by /\ r10'[c].place = r10[c].place
            BY <1>0, <3>1 DEF CardPart!Events
        <3> QED BY <1>1, <1>7, <1>8, <1>12, <2>0, <2>1, <3>2 DEF Tells
    <2>2. CASE ~(c \in r6 /\ r7[c] = 0 /\ r17 = "yes")
        <3>1. r10'[c] = CardPart!NoEvent
            BY <1>0, <1>12, <2>2 DEF CardPart!Hears
        <3> QED BY <1>1, <1>7, <1>8, <1>12, <2>0, <3>1 DEF Tells
    <2> QED BY <2>1, <2>2
<1>13. ASSUME NEW d \in Cards, NEW p \in Places,
              \/ CardPart!Drag(d, p) \/ CardPart!Realize(d)
              \/ CardPart!Hears(d) \/ CardPart!Remembers(d)
       PROVE  Tells(c)'
    <2>1. CASE c # d
        BY <1>4, <1>7, <1>13, <2>1
    <2> QED BY <1>9, <1>10, <1>11, <1>12, <1>13, <2>1
<1> QED BY <1>2, <1>3, <1>5, <1>6, <1>13, UserMoves

\* Events tell the truth: one the program caused comes while it is suppressed, or
\* before the card listens, and a user's is heard.
LEMMA CardEvents ==
    ASSUME CardPart!Shapes, Placements, CardPart!Threading, CardPart!EndIsBlank,
           CardPart!EventsTell, [CardPart!Next]_(CardPart!vars)
    PROVE  CardPart!EventsTell'
<1>1. SUFFICES ASSUME NEW c \in Cards PROVE Tells(c)'
    <2>1. (\A c \in Cards : Tells(c))'
        BY <1>1
    <2> QED BY <2>1, TellsMeans, PTL
<1>2. Tells(c)
    BY TellsMeans
<1> USE CardNames, NoEventIsEvent
        DEF CardPart!Goes, CardPart!stateVars, CardPart!nativeVars, CardPart!eventVars,
            CardPart!threadVars, CardPart!historyVars
<1>3. CASE UNCHANGED CardPart!vars
    BY <1>2, <1>3 DEF CardPart!vars, Tells, Styles, Puts
<1>4. CASE CardPart!ThreadStep
    BY <1>2, <1>4, CardThreadsTell
<1>5. CASE CardPart!UserStep
    BY <1>5, CardUsersTell
<1>6. CASE CardPart!Stop
    BY <1>2, <1>6 DEF CardPart!Stop, Tells, Styles, Puts
<1>7. CASE CardPart!Gone
    BY <1>7 DEF CardPart!Gone, Tells, Styles
<1>8. CASE CardPart!Launch
    <2>1. /\ r10[c] = CardPart!NoEvent /\ r8 = {} /\ UNCHANGED <<r8, r10, r13>>
          /\ r11 \in [CardPart!Threads -> CardPart!Stations]
          /\ r11' = [r11 EXCEPT ![Startup] = "all"]
          /\ \A t \in CardPart!Threads : r11[t] = "idle"
        BY <1>8 DEF CardPart!Launch, CardPart!EndIsBlank, CardPart!Shapes
    <2> QED BY <2>1 DEF Tells, Styles
<1> QED BY <1>3, <1>4, <1>5, <1>6, <1>7, <1>8 DEF CardPart!Next, CardPart!End, CardPart!Killed

\* A save that is written has what is in memory.
LEMMA SaveRemembers ==
    ASSUME CardPart!Save PROVE ~r22' => r4'.visible = r2' /\ r4'.layout = r3'
BY DEF CardPart!Save

\* What the user did to a card is in memory, and what is in memory is in the file or
\* the timer for the save is armed, or the save has failed.
LEMMA CardRemembers ==
    ASSUME CardPart!Shapes, Placements, CardPart!Threading, CardPart!EndIsBlank,
           CardPart!EventsTell, CardPart!RememberedAsLeft, [CardPart!Next]_(CardPart!vars)
    PROVE  CardPart!RememberedAsLeft'
<1> DEFINE Left == \A c \in Cards \ r20 : r10[c].by # "user" => r3[c] = r18[c]
           Filed == /\ ~r22 => r4.visible = r2
                    /\ ~r22 /\ ~r5 => \A c \in Cards \ r20 : r4.layout[c] = r3[c]
<1>0. /\ r10 \in [Cards -> CardPart!Events] /\ r18 \in [Cards -> Places]
      /\ r3 \in [Cards -> Places]
    BY DEF CardPart!Shapes
<1>1. Left /\ Filed
    BY DEF CardPart!RememberedAsLeft
<1>2. ASSUME Left', Filed' PROVE CardPart!RememberedAsLeft'
    BY <1>2 DEF CardPart!RememberedAsLeft
<1> USE CardNames, NoEventIsEvent
        DEF CardPart!Goes, CardPart!stateVars, CardPart!nativeVars, CardPart!eventVars,
            CardPart!threadVars, CardPart!historyVars
<1>3. ASSUME UNCHANGED <<r3, r10, r18>>, r20 \subseteq r20' PROVE Left'
    BY <1>1, <1>3
<1>4. ASSUME UNCHANGED <<r2, r3, r4, r5, r22>>, r20 \subseteq r20' PROVE Filed'
    BY <1>1, <1>4
<1>5. CardPart!Save => Filed'
    BY SaveRemembers
<1> HIDE DEF Left, Filed
<1>6. CASE UNCHANGED CardPart!vars
    BY <1>2, <1>3, <1>4, <1>6 DEF CardPart!vars
<1>7. ASSUME NEW t \in CardPart!Threads,
             \/ CardPart!ShowAll(t) \/ CardPart!NextCard(t) \/ CardPart!LookAgain(t)
             \/ CardPart!Style(t) \/ CardPart!Show(t) \/ CardPart!Hide(t)
             \/ CardPart!Unstyle(t) \/ CardPart!NativeFails(t) \/ CardPart!ListDone(t)
             \/ CardPart!Replay \/ CardPart!Placed(t)
      PROVE  CardPart!RememberedAsLeft'
    <2>1. UNCHANGED <<r2, r3, r4, r5, r22, r10, r18>> /\ r20 \subseteq r20'
        BY <1>7 DEF CardPart!ShowAll, CardPart!NextCard, CardPart!LookAgain, CardPart!Style,
                    CardPart!Show, CardPart!Hide, CardPart!Unstyle, CardPart!NativeFails,
                    CardPart!ListDone, CardPart!Replay, CardPart!Placed
    <2> QED BY <1>2, <1>3, <1>4, <2>1
<1>8. ASSUME NEW c \in Cards, NEW e, r10' = [r10 EXCEPT ![c] = e],
             UNCHANGED <<r2, r3, r4, r5, r18, r22>>, r20 \subseteq r20',
             e.by # "user" => r10[c].by # "user" \/ c \in r20'
      PROVE  CardPart!RememberedAsLeft'
    <2>1. Left'
        BY <1>0, <1>1, <1>8 DEF Left
    <2> QED BY <1>2, <1>4, <1>8, <2>1
<1>9. ASSUME NEW t \in CardPart!Threads, CardPart!Place(t) PROVE CardPart!RememberedAsLeft'
    <2>1. r13[t] \in Cards /\ UNCHANGED <<r2, r3, r4, r5, r18, r20, r22>>
        BY <1>9 DEF CardPart!Place, CardPart!Threading, CardPart!AtCard
    <2>2. PICK p \in {r14[t], Home} :
              r10' = [r10 EXCEPT ![r13[t]] =
                         IF r10[r13[t]] = CardPart!NoEvent
                         THEN [place |-> p, by |-> "native", passed |-> FALSE]
                         ELSE r10[r13[t]]]
        BY <1>9 DEF CardPart!Place
    <2> QED BY <1>8, <2>1, <2>2
<1>10. CardPart!ThreadStep => CardPart!RememberedAsLeft'
    BY <1>7, <1>9 DEF CardPart!ThreadStep
<1>11. ASSUME CardPart!Save, UNCHANGED <<r3, r10, r18>>, r20 \subseteq r20'
       PROVE  CardPart!RememberedAsLeft'
    BY <1>2, <1>3, <1>5, <1>11
<1>12. ASSUME NEW t \in Users, NEW on \in BOOLEAN,
             CardPart!SetAllVisible(t, on) \/ \E c \in Cards : CardPart!SetVisible(t, c, on)
       PROVE  CardPart!RememberedAsLeft'
    <2>1. CardPart!Save /\ UNCHANGED <<r3, r10, r18, r20>>
        BY <1>12 DEF CardPart!SetAllVisible, CardPart!SetVisible
    <2> QED BY <1>11, <2>1
<1>13. CardPart!Flush \/ CardPart!Stop => CardPart!RememberedAsLeft'
    BY <1>11 DEF CardPart!Flush, CardPart!Stop
<1>14. ASSUME NEW t \in Users, NEW c \in Cards, NEW p \in Places, CardPart!SizeCard(t, c, p)
       PROVE  CardPart!RememberedAsLeft'
    <2>1. UNCHANGED <<r2, r4, r10, r22>> /\ r20 \subseteq r20'
        BY <1>14 DEF CardPart!SizeCard
    <2>2. CASE r17 = "yes"
        <3>1. /\ r3' = [r3 EXCEPT ![c] = p] /\ r18' = [r18 EXCEPT ![c] = p] /\ r5'
            BY <1>14, <2>2 DEF CardPart!SizeCard
        <3>2. Left'
            BY <1>0, <1>1, <2>1, <3>1 DEF Left
        <3>3. Filed'
            BY <1>1, <2>1, <3>1 DEF Filed
        <3> QED BY <1>2, <3>2, <3>3
    <2>3. CASE r17 # "yes"
        BY <1>2, <1>3, <1>4, <1>14, <2>1, <2>3 DEF CardPart!SizeCard
    <2> QED BY <2>2, <2>3
<1>15. ASSUME NEW t \in Users, CardPart!ResetAll(t) \/ \E c \in Cards : CardPart!ResetCard(t, c)
       PROVE  CardPart!RememberedAsLeft'
    <2>1. Left'
        BY <1>0, <1>1, <1>15 DEF CardPart!ResetAll, CardPart!ResetCard, Left
    <2>2. Filed'
        BY <1>5, <1>15 DEF CardPart!ResetAll, CardPart!ResetCard
    <2> QED BY <1>2, <2>1, <2>2
<1>16. ASSUME NEW c \in Cards, NEW p \in Places, CardPart!Drag(c, p)
       PROVE  CardPart!RememberedAsLeft'
    <2>1. Left'
        BY <1>0, <1>1, <1>16 DEF CardPart!Drag, Left
    <2>2. Filed'
        BY <1>4, <1>16 DEF CardPart!Drag
    <2> QED BY <1>2, <2>1, <2>2
<1>17. ASSUME NEW c \in Cards, CardPart!Realize(c) \/ CardPart!LateHide(c)
       PROVE  CardPart!RememberedAsLeft'
    <2>1. CASE CardPart!Realize(c)
        BY <1>8, <2>1 DEF CardPart!Realize
    <2>2. CASE CardPart!LateHide(c)
        BY <1>2, <1>3, <1>4, <2>2 DEF CardPart!LateHide
    <2> QED BY <1>17, <2>1, <2>2
<1>18. ASSUME NEW c \in Cards, CardPart!Hears(c) PROVE CardPart!RememberedAsLeft'
    <2>1. UNCHANGED <<r2, r3, r4, r5, r18, r22>> /\ r20 \subseteq r20'
        BY <1>18 DEF CardPart!Hears
    <2>2. [r10[c] EXCEPT !.passed = TRUE].by = r10[c].by
        BY <1>0 DEF CardPart!Events
    <2>3. CASE r10' = [r10 EXCEPT ![c] = [r10[c] EXCEPT !.passed = TRUE]]
        BY <1>8, <2>1, <2>2, <2>3
    <2>4. CASE ~(c \in r6 /\ r7[c] = 0 /\ r17 = "yes")
        <3>1. r10[c].by # "user" \/ c \in r20
            BY <1>18, <2>4, UserHeard DEF CardPart!Hears
        <3>2. r10' = [r10 EXCEPT ![c] = CardPart!NoEvent]
            BY <1>18, <2>4 DEF CardPart!Hears
        <3> QED BY <1>8, <2>1, <3>1, <3>2
    <2> QED BY <1>18, <2>3, <2>4 DEF CardPart!Hears
<1>19. ASSUME NEW c \in Cards, CardPart!Remembers(c) PROVE CardPart!RememberedAsLeft'
    <2>1. c \notin r20 => r10[c].place = r18[c]
        BY <1>0, <1>19 DEF CardPart!Remembers, CardPart!EventsTell, CardPart!Events
    <2>2. Left'
        BY <1>0, <1>1, <1>19, <2>1 DEF CardPart!Remembers, Left
    <2>3. Filed'
        BY <1>1, <1>19 DEF CardPart!Remembers, Filed
    <2> QED BY <1>2, <2>2, <2>3
<1>20. CardPart!UserStep => CardPart!RememberedAsLeft'
    BY <1>12, <1>13, <1>14, <1>15, <1>16, <1>17, <1>18, <1>19, UserMoves
<1>21. ASSUME UNCHANGED <<r3, r18>>, r20 \cup CardPart!Unheard \subseteq r20' PROVE Left'
    BY <1>1, <1>21 DEF CardPart!Unheard, Left
<1>22. CASE CardPart!End
    BY <1>2, <1>5, <1>21, <1>22 DEF CardPart!End
<1>23. CASE CardPart!Killed
    <2>1. Filed'
        BY <1>1, <1>23 DEF CardPart!Killed, Filed
    <2> QED BY <1>2, <1>21, <1>23, <2>1 DEF CardPart!Killed
<1>24. CASE CardPart!Launch
    <2>1. \A c \in Cards \ r20 : ~r22 => r4.layout[c] = r18[c]
        BY <1>1, <1>24 DEF CardPart!Launch, CardPart!EndIsBlank, Left, Filed
    <2>2. Left'
        BY <1>24, <2>1 DEF CardPart!Launch, Left
    <2>3. Filed'
        BY <1>24 DEF CardPart!Launch, Filed
    <2> QED BY <1>2, <2>2, <2>3
<1> QED BY <1>6, <1>10, <1>13, <1>20, <1>22, <1>23, <1>24 DEF CardPart!Next

\* Who hides a card, or will without a look, ...
Hides(t, c) ==
    \/ r13[t] = c /\ r11[t] \in {"hide", "unstyle"}
    \/ r12[t] = "hide" /\ c \in r15[t]

\* ... and has not done its first half yet; who is about to call show, ...
HidesIt(t, c) ==
    \/ r13[t] = c /\ r11[t] = "hide"
    \/ r12[t] = "hide" /\ c \in r15[t]
AtShow(t, c) == r13[t] = c /\ r11[t] = "show"

\* ... and who is past the look at whether the card should be shown.
Shows(t, c) ==
    r13[t] = c /\ r11[t] \in {"place", "placed", "style", "show"} /\ r12[t] # "place"

\* OnItsWay, of one card.
Due(c) ==
    /\ r2[c] =>
          /\ \A t \in CardPart!Threads : ~Hides(t, c)
          /\ (c \in r8 /\ c \in r9) \/ \E t \in CardPart!Threads : CardPart!WillShow(t, c)
    /\ ~r2[c] =>
          /\ \A t \in CardPart!Threads : ~Shows(t, c)
          /\ c \in r8 => \E t \in CardPart!Threads : HidesIt(t, c)
          /\ c \in r9 => \E t \in CardPart!Threads : Hides(t, c)
    /\ \A t \in CardPart!Threads : AtShow(t, c) => c \in r9

\* OnItsWay says that every card is due.
LEMMA DueMeans ==
    CardPart!OnItsWay <=>
        (r17 = "yes" /\ r1 = Cards => \A c \in Cards \ (r19 \cup r21) : Due(c))
<1>1. ASSUME NEW c \in Cards
      PROVE  /\ CardPart!Hiding(c) = {} <=> \A t \in CardPart!Threads : ~Hides(t, c)
             /\ CardPart!At(c, {"hide"}) \cup CardPart!Queued(c) # {}
                    <=> \E t \in CardPart!Threads : HidesIt(t, c)
             /\ CardPart!At(c, {"show"}) # {} <=> \E t \in CardPart!Threads : AtShow(t, c)
             /\ (\A t \in CardPart!Showing(c) : r12[t] = "place")
                    <=> \A t \in CardPart!Threads : ~Shows(t, c)
    BY DEF CardPart!Hiding, CardPart!At, CardPart!Queued, CardPart!Showing, Hides, HidesIt,
           AtShow, Shows
<1> QED BY <1>1 DEF CardPart!OnItsWay, Due

\* What a step of thread t, at card c or not, has to keep.
Keeps(t, c) ==
    /\ r2[c] =>
          /\ Hides(t, c)' => Hides(t, c)
          /\ \/ c \in r8' /\ c \in r9'
             \/ CardPart!WillShow(t, c)'
             \/ ~CardPart!WillShow(t, c) /\ (c \in r8 /\ c \in r9 => c \in r8' /\ c \in r9')
    /\ ~r2[c] =>
          /\ Shows(t, c)' => Shows(t, c)
          /\ c \in r8' => c \in r8 /\ (HidesIt(t, c) => HidesIt(t, c)')
          /\ c \in r9' => c \in r9 /\ (Hides(t, c) => Hides(t, c)')
    /\ AtShow(t, c)' => c \in r9'
    /\ c \in r9 => c \in r9' \/ ~r2[c]

\* Then the card is still due.
LEMMA DueStep ==
    ASSUME CardPart!Threading, NEW t \in CardPart!Threads, NEW c \in Cards, Due(c),
           Others(t), r2'[c] = r2[c], r16' = r16, Keeps(t, c)
    PROVE  Due(c)'
<1>1. ASSUME NEW u \in CardPart!Threads \ {t}
      PROVE  /\ Hides(u, c)' <=> Hides(u, c)
             /\ HidesIt(u, c)' <=> HidesIt(u, c)
             /\ AtShow(u, c)' <=> AtShow(u, c)
             /\ Shows(u, c)' <=> Shows(u, c)
             /\ CardPart!WillShow(u, c)' <=> CardPart!WillShow(u, c)
    BY DEF Others, Hides, HidesIt, AtShow, Shows, CardPart!WillShow
<1>2. ASSUME NEW u \in CardPart!Threads, AtShow(u, c) PROVE Shows(u, c)
    BY <1>2 DEF AtShow, Shows, CardPart!Threading
<1>3. r2[c] => (\A u \in CardPart!Threads : ~Hides(u, c))'
    BY <1>1 DEF Due, Keeps
<1>4. r2[c] => ((c \in r8 /\ c \in r9) \/ \E u \in CardPart!Threads : CardPart!WillShow(u, c))'
    BY <1>1 DEF Due, Keeps
<1>5. ~r2[c] => (\A u \in CardPart!Threads : ~Shows(u, c))'
    BY <1>1 DEF Due, Keeps
<1>6. ~r2[c] => /\ (c \in r8 => \E u \in CardPart!Threads : HidesIt(u, c))'
                /\ (c \in r9 => \E u \in CardPart!Threads : Hides(u, c))'
    BY <1>1 DEF Due, Keeps
<1>7. (\A u \in CardPart!Threads : AtShow(u, c) => c \in r9)'
    BY <1>1, <1>2 DEF Due, Keeps
<1> QED BY <1>3, <1>4, <1>5, <1>6, <1>7 DEF Due

\* No step of a thread at work leaves a card that nobody will put right.
LEMMA CardThreadsDue ==
    ASSUME CardPart!Shapes, CardPart!Threading, CardPart!ThreadStep,
           r17 = "yes", r1 = Cards,
           NEW c \in Cards, c \notin r19, c \notin r21', Due(c)
    PROVE  Due(c)'
<1>0. /\ r8 \subseteq Cards /\ r9 \subseteq Cards
      /\ r11 \in [CardPart!Threads -> CardPart!Stations]
      /\ r12 \in [CardPart!Threads -> {"show", "hide", "place"}]
      /\ r13 \in [CardPart!Threads -> Cards \cup {Nowhere}]
      /\ r15 \in [CardPart!Threads -> SUBSET Cards]
    BY DEF CardPart!Shapes
<1>1. \A t \in CardPart!Threads :
          /\ r11[t] \in {"look", "style", "show"} => r12[t] = "show"
          /\ r11[t] \in {"hide", "unstyle"} => r12[t] = "hide"
          /\ r11[t] \in {"idle", "asleep", "all"} => r15[t] = {}
    BY DEF CardPart!Threading
<1> USE CardNames
        DEF CardPart!Goes, CardPart!stateVars, CardPart!nativeVars, CardPart!eventVars,
            CardPart!threadVars, CardPart!historyVars
<1>2. ASSUME NEW t \in CardPart!Threads, UNCHANGED <<r2, r16>>, Others(t), Keeps(t, c)
      PROVE  Due(c)'
    BY <1>2, DueStep
<1>3. ASSUME NEW t \in CardPart!Threads, CardPart!ShowAll(t) PROVE Due(c)'
    <2>1. Keeps(t, c)
        BY <1>0, <1>1, <1>3
           DEF CardPart!ShowAll, Keeps, Hides, HidesIt, AtShow, Shows, CardPart!WillShow
    <2> QED BY <1>0, <1>2, <1>3, <2>1 DEF CardPart!ShowAll, Others
<1>4. ASSUME NEW t \in CardPart!Threads, CardPart!NextCard(t) PROVE Due(c)'
    <2>1. Keeps(t, c)
        BY <1>0, <1>1, <1>4
           DEF CardPart!NextCard, Keeps, Hides, HidesIt, AtShow, Shows, CardPart!WillShow,
               CardPart!AtCard
    <2> QED BY <1>0, <1>2, <1>4, <2>1 DEF CardPart!NextCard, Others
<1>5. ASSUME NEW t \in CardPart!Threads, CardPart!LookAgain(t) PROVE Due(c)'
    <2>1. Keeps(t, c)
        BY <1>0, <1>1, <1>5
           DEF CardPart!LookAgain, Keeps, Hides, HidesIt, AtShow, Shows, CardPart!WillShow,
               CardPart!AtCard
    <2> QED BY <1>0, <1>2, <1>5, <2>1 DEF CardPart!LookAgain, Others
<1>6. ASSUME NEW t \in CardPart!Threads, CardPart!Place(t) \/ CardPart!Placed(t)
      PROVE  Due(c)'
    <2>1. Keeps(t, c)
        BY <1>0, <1>1, <1>6
           DEF CardPart!Place, CardPart!Placed, Keeps, Hides, HidesIt, AtShow, Shows,
               CardPart!WillShow, CardPart!AtCard
    <2> QED BY <1>0, <1>2, <1>6, <2>1 DEF CardPart!Place, CardPart!Placed, Others
<1>7. ASSUME NEW t \in CardPart!Threads, CardPart!Style(t) PROVE Due(c)'
    <2>1. r13[t] = c => r2[c]
        BY <1>1, <1>7 DEF CardPart!Style, Due, Shows
    <2>2. Keeps(t, c)
        BY <1>0, <1>1, <1>7, <2>1
           DEF CardPart!Style, Keeps, Hides, HidesIt, AtShow, Shows, CardPart!WillShow,
               CardPart!AtCard
    <2> QED BY <1>0, <1>2, <1>7, <2>2 DEF CardPart!Style, Others
<1>8. ASSUME NEW t \in CardPart!Threads, CardPart!Show(t) PROVE Due(c)'
    <2>1. r13[t] = c => r2[c] /\ c \in r9
        BY <1>1, <1>8 DEF CardPart!Show, Due, Shows, AtShow
    <2>2. Keeps(t, c)
        BY <1>0, <1>1, <1>8, <2>1
           DEF CardPart!Show, Keeps, Hides, HidesIt, AtShow, Shows, CardPart!WillShow,
               CardPart!AtCard
    <2> QED BY <1>0, <1>2, <1>8, <2>2 DEF CardPart!Show, Others
<1>9. ASSUME NEW t \in CardPart!Threads, CardPart!Hide(t) \/ CardPart!Unstyle(t)
      PROVE  Due(c)'
    <2>1. r13[t] = c => ~r2[c]
        BY <1>1, <1>9 DEF CardPart!Hide, CardPart!Unstyle, Due, Hides
    <2>2. CASE CardPart!Hide(t)
        <3>1. Keeps(t, c)
            BY <1>0, <1>1, <2>1, <2>2
               DEF CardPart!Hide, Keeps, Hides, HidesIt, AtShow, Shows, CardPart!WillShow,
                   CardPart!AtCard
        <3> QED BY <1>0, <1>2, <2>2, <3>1 DEF CardPart!Hide, Others
    <2>3. CASE CardPart!Unstyle(t)
        <3>1. Keeps(t, c)
            BY <1>0, <1>1, <2>1, <2>3
               DEF CardPart!Unstyle, Keeps, Hides, HidesIt, AtShow, Shows, CardPart!WillShow,
                   CardPart!AtCard
        <3> QED BY <1>0, <1>2, <2>3, <3>1 DEF CardPart!Unstyle, Others
    <2> QED BY <1>9, <2>2, <2>3
<1>10. ASSUME NEW t \in CardPart!Threads, CardPart!NativeFails(t) PROVE Due(c)'
    <2>1. r13[t] # c
        BY <1>10 DEF CardPart!NativeFails
    <2>2. Keeps(t, c)
        BY <1>0, <1>1, <1>10, <2>1
           DEF CardPart!NativeFails, Keeps, Hides, HidesIt, AtShow, Shows, CardPart!WillShow
    <2> QED BY <1>0, <1>2, <1>10, <2>2 DEF CardPart!NativeFails, Others
<1>11. ASSUME NEW t \in CardPart!Threads, CardPart!ListDone(t) PROVE Due(c)'
    <2>1. Keeps(t, c)
        BY <1>0, <1>1, <1>11
           DEF CardPart!ListDone, Keeps, Hides, HidesIt, AtShow, Shows, CardPart!WillShow,
               CardPart!AtCard
    <2> QED BY <1>0, <1>2, <1>11, <2>1 DEF CardPart!ListDone, Others
<1>12. CASE CardPart!Replay
    <2>1. /\ r11' = [r11 EXCEPT ![Startup] = "all"]
          /\ UNCHANGED <<r2, r8, r9, r12, r13, r15>> /\ r11[Startup] = "asleep"
        BY <1>12 DEF CardPart!Replay
    <2>2. CardPart!WillShow(Startup, c)'
        BY <1>0, <2>1 DEF CardPart!WillShow
    <2>3. ASSUME NEW u \in CardPart!Threads
          PROVE  /\ Hides(u, c)' <=> Hides(u, c)
                 /\ HidesIt(u, c)' <=> HidesIt(u, c)
                 /\ AtShow(u, c)' <=> AtShow(u, c)
                 /\ Shows(u, c)' <=> Shows(u, c)
        BY <1>0, <2>1 DEF Hides, HidesIt, AtShow, Shows
    <2> QED BY <2>1, <2>2, <2>3 DEF Due
<1> QED BY <1>3, <1>4, <1>5, <1>6, <1>7, <1>8, <1>9, <1>10, <1>11, <1>12
        DEF CardPart!ThreadStep

\* Nor does a step of the user, if it does not cross one under way, or one of the
\* window system.
LEMMA CardUsersDue ==
    ASSUME CardPart!Shapes, CardPart!Threading, CardPart!UserStep,
           r17 = "yes", r1 = Cards,
           NEW c \in Cards, c \notin r19', c \notin r21, Due(c)
    PROVE  Due(c)'
<1>0. /\ r8 \subseteq Cards /\ r9 \subseteq Cards
      /\ r2 \in [Cards -> BOOLEAN] /\ r19 \subseteq Cards
      /\ r11 \in [CardPart!Threads -> CardPart!Stations]
      /\ r12 \in [CardPart!Threads -> {"show", "hide", "place"}]
      /\ r13 \in [CardPart!Threads -> Cards \cup {Nowhere}]
      /\ r15 \in [CardPart!Threads -> SUBSET Cards]
    BY DEF CardPart!Shapes
<1>1. \A t \in CardPart!Threads : r11[t] \in {"idle", "asleep", "all"} => r15[t] = {}
    BY DEF CardPart!Threading
<1> USE CardNames
        DEF CardPart!Goes, CardPart!stateVars, CardPart!nativeVars, CardPart!eventVars,
            CardPart!threadVars, CardPart!historyVars
<1>2. ASSUME CardPart!Hiding(c) = {} PROVE \A u \in CardPart!Threads : ~Hides(u, c)
    BY <1>2 DEF CardPart!Hiding, CardPart!At, CardPart!Queued, Hides
<1>3. ASSUME CardPart!Showing(c) = {}
      PROVE  \A u \in CardPart!Threads : ~Shows(u, c) /\ ~AtShow(u, c)
    BY <1>3 DEF CardPart!Showing, CardPart!At, Shows, AtShow
<1>4. ASSUME NEW t \in Users, r11[t] = "idle", UNCHANGED <<r8, r9, r16>>,
              ~Hides(t, c)', ~Shows(t, c)', ~AtShow(t, c)'
       PROVE  Keeps(t, c)
    <2>1. ~CardPart!WillShow(t, c) /\ ~Hides(t, c) /\ ~HidesIt(t, c)
        BY <1>1, <1>4 DEF CardPart!WillShow, CardPart!AtCard, Hides, HidesIt
    <2> QED BY <1>4, <2>1 DEF Keeps
<1>5. ASSUME NEW t \in Users, NEW d \in Cards, NEW on \in BOOLEAN,
             CardPart!SetVisible(t, d, on)
      PROVE  Due(c)'
    <2>1. Others(t) /\ UNCHANGED <<r8, r9, r15, r16>>
        BY <1>0, <1>5 DEF CardPart!SetVisible, Others
    <2>2. r11[t] = "idle" /\ r15[t] = {} /\ t # Startup
        BY <1>1, <1>5 DEF CardPart!SetVisible, CardPart!Asks
    <2>3. /\ r11' = [r11 EXCEPT ![t] = IF on THEN "look" ELSE "hide"]
          /\ r12' = [r12 EXCEPT ![t] = IF on THEN "show" ELSE "hide"]
          /\ r13' = [r13 EXCEPT ![t] = d] /\ r2' = [r2 EXCEPT ![d] = on]
        BY <1>5 DEF CardPart!SetVisible
    <2>4. CASE c # d
        <3>1. ~Hides(t, c)' /\ ~Shows(t, c)' /\ ~AtShow(t, c)'
            BY <1>0, <2>1, <2>2, <2>3, <2>4 DEF Hides, AtShow, Shows
        <3>2. Keeps(t, c)
            BY <1>4, <2>1, <2>2, <3>1
        <3> QED BY <1>0, <2>1, <2>3, <2>4, <3>2, DueStep
    <2>5. CASE c = d /\ on
        <3>1. \A u \in CardPart!Threads : ~Hides(u, c)
            BY <1>2, <1>5, <2>5 DEF CardPart!SetVisible
        <3>2. \A u \in CardPart!Threads : ~Hides(u, c)'
            BY <1>0, <2>1, <2>2, <2>3, <2>5, <3>1 DEF Hides, Others
        <3>3. CardPart!WillShow(t, c)' /\ r2'[c]
            BY <1>0, <2>3, <2>5 DEF CardPart!WillShow, CardPart!AtCard
        <3>4. \A u \in CardPart!Threads : AtShow(u, c)' => AtShow(u, c)
            BY <1>0, <2>1, <2>3, <2>5 DEF AtShow, Others
        <3> QED BY <2>1, <3>2, <3>3, <3>4 DEF Due
    <2>6. CASE c = d /\ ~on
        <3>1. \A u \in CardPart!Threads : ~Shows(u, c) /\ ~AtShow(u, c)
            BY <1>3, <1>5, <2>6 DEF CardPart!SetVisible
        <3>2. \A u \in CardPart!Threads : ~Shows(u, c)' /\ ~AtShow(u, c)'
            BY <1>0, <2>1, <2>3, <2>6, <3>1 DEF Shows, AtShow, Others
        <3>3. HidesIt(t, c)' /\ Hides(t, c)' /\ ~r2'[c]
            BY <1>0, <2>3, <2>6 DEF HidesIt, Hides
        <3> QED BY <3>2, <3>3 DEF Due
    <2> QED BY <2>4, <2>5, <2>6
<1>6. ASSUME NEW t \in Users, NEW on \in BOOLEAN, CardPart!SetAllVisible(t, on)
      PROVE  Due(c)'
    <2>1. Others(t) /\ UNCHANGED <<r8, r9, r13, r16>>
        BY <1>0, <1>6 DEF CardPart!SetAllVisible, Others
    <2>2. r11[t] = "idle" /\ r15[t] = {} /\ t # Startup
        BY <1>1, <1>6 DEF CardPart!SetAllVisible, CardPart!Asks
    <2>3. /\ r11' = [r11 EXCEPT ![t] = IF on THEN "all" ELSE "next"]
          /\ r12' = [r12 EXCEPT ![t] = IF on THEN "show" ELSE "hide"]
          /\ r15' = [r15 EXCEPT ![t] = IF on THEN {} ELSE Cards]
          /\ r2'[c] = on
        BY <1>6 DEF CardPart!SetAllVisible
    <2>4. CASE on
        <3>1. \A u \in CardPart!Threads : ~Hides(u, c)
            BY <1>2, <1>6, <2>4 DEF CardPart!SetAllVisible
        <3>2. \A u \in CardPart!Threads : ~Hides(u, c)'
            BY <1>0, <2>1, <2>2, <2>3, <2>4, <3>1 DEF Hides, Others
        <3>3. CardPart!WillShow(t, c)' /\ r2'[c]
            BY <1>0, <2>3, <2>4 DEF CardPart!WillShow
        <3>4. \A u \in CardPart!Threads : AtShow(u, c)' => AtShow(u, c)
            BY <1>0, <2>1, <2>3, <2>4 DEF AtShow, Others
        <3> QED BY <2>1, <3>2, <3>3, <3>4 DEF Due
    <2>5. CASE ~on
        <3>1. \A u \in CardPart!Threads : ~Shows(u, c) /\ ~AtShow(u, c)
            BY <1>3, <1>6, <2>5 DEF CardPart!SetAllVisible
        <3>2. \A u \in CardPart!Threads : ~Shows(u, c)' /\ ~AtShow(u, c)'
            BY <1>0, <2>1, <2>3, <2>5, <3>1 DEF Shows, AtShow, Others
        <3>3. HidesIt(t, c)' /\ Hides(t, c)' /\ ~r2'[c]
            BY <1>0, <2>3, <2>5 DEF HidesIt, Hides
        <3> QED BY <3>2, <3>3 DEF Due
    <2> QED BY <2>4, <2>5
<1>7. ASSUME NEW t \in Users, NEW d \in Cards, NEW p \in Places, CardPart!SizeCard(t, d, p)
      PROVE  Due(c)'
    <2>1. Others(t) /\ UNCHANGED <<r2, r8, r9, r15, r16>>
        BY <1>0, <1>7 DEF CardPart!SizeCard, Others
    <2>2. r11[t] = "idle" /\ r15[t] = {}
        BY <1>1, <1>7 DEF CardPart!SizeCard, CardPart!Asks
    <2>3. r11'[t] = "place" /\ r12'[t] = "place"
        BY <1>0, <1>7 DEF CardPart!SizeCard
    <2>4. Keeps(t, c)
        BY <1>4, <2>1, <2>2, <2>3 DEF Hides, AtShow, Shows
    <2> QED BY <2>1, <2>4, DueStep
<1>8. ASSUME NEW t \in Users, CardPart!ResetAll(t) \/ \E d \in Cards : CardPart!ResetCard(t, d)
      PROVE  Due(c)'
    <2>1. Others(t) /\ UNCHANGED <<r2, r8, r9, r16>>
        BY <1>0, <1>8 DEF CardPart!ResetAll, CardPart!ResetCard, Others
    <2>2. r11[t] = "idle"
        BY <1>8 DEF CardPart!ResetAll, CardPart!ResetCard, CardPart!Asks
    <2>3. r11'[t] \in {"next", "place"} /\ r12'[t] = "place"
        BY <1>0, <1>8 DEF CardPart!ResetAll, CardPart!ResetCard
    <2>4. Keeps(t, c)
        BY <1>4, <2>1, <2>2, <2>3 DEF Hides, AtShow, Shows
    <2> QED BY <2>1, <2>4, DueStep
<1>9. ASSUME UNCHANGED <<r2, r8, r9, r11, r12, r13, r15, r16>> PROVE Due(c)'
    BY <1>9 DEF Due, Hides, HidesIt, AtShow, Shows, CardPart!WillShow
<1>10. ASSUME NEW d \in Cards, NEW p \in Places,
             \/ CardPart!Drag(d, p) \/ CardPart!Realize(d)
             \/ CardPart!Hears(d) \/ CardPart!Remembers(d)
      PROVE  Due(c)'
    <2>1. UNCHANGED <<r2, r8, r9, r11, r12, r13, r15, r16>>
        BY <1>10 DEF CardPart!Drag, CardPart!Realize, CardPart!Hears, CardPart!Remembers
    <2> QED BY <1>9, <2>1
<1>11. CardPart!Flush => Due(c)'
    BY <1>9 DEF CardPart!Flush
<1>12. ASSUME NEW d \in Cards, CardPart!LateHide(d) PROVE Due(c)'
    <2>1. UNCHANGED <<r2, r9, r11, r12, r13, r15, r16>> /\ r8' \subseteq r8 /\ r16 < Replays
        BY <1>12 DEF CardPart!LateHide
    <2>2. CardPart!WillShow(Startup, c)'
        BY <2>1 DEF CardPart!WillShow
    <2> QED BY <2>1, <2>2 DEF Due, Hides, HidesIt, AtShow, Shows
<1> QED BY <1>5, <1>6, <1>7, <1>8, <1>10, <1>11, <1>12, UserMoves

\* Nor does the end of the app or its next start.
LEMMA CardsOnWay ==
    ASSUME CardPart!Shapes, CardPart!Threading, CardPart!EndIsBlank, CardPart!OnItsWay,
           [CardPart!Next]_(CardPart!vars)
    PROVE  CardPart!OnItsWay'
<1> USE DEF CardPart!stateVars, CardPart!nativeVars, CardPart!eventVars, CardPart!threadVars,
            CardPart!historyVars
<1>1. SUFFICES ASSUME r17' = "yes", r1' = Cards, NEW c \in Cards, c \notin r19', c \notin r21'
               PROVE  Due(c)'
    <2>1. (r17 = "yes" /\ r1 = Cards => \A c \in Cards \ (r19 \cup r21) : Due(c))'
        BY <1>1
    <2> QED BY <2>1, DueMeans, PTL
<1>2. ASSUME r17 = "yes", r1 = Cards, c \notin r19, c \notin r21 PROVE Due(c)
    BY <1>2, DueMeans
<1>3. CASE UNCHANGED CardPart!vars
    <2>1. Due(c)
        BY <1>1, <1>2, <1>3 DEF CardPart!vars
    <2> QED BY <1>3, <2>1
            DEF CardPart!vars, Due, Hides, HidesIt, AtShow, Shows, CardPart!WillShow
<1>4. CASE CardPart!ThreadStep
    <2>1. UNCHANGED <<r1, r19>> /\ r21 \subseteq r21'
        BY <1>4
           DEF CardPart!ThreadStep, CardPart!ShowAll, CardPart!NextCard, CardPart!LookAgain,
               CardPart!Place, CardPart!Placed, CardPart!Style, CardPart!Show, CardPart!Hide,
               CardPart!Unstyle, CardPart!NativeFails, CardPart!ListDone, CardPart!Replay
    <2> QED BY <1>1, <1>2, <1>4, <2>1, StillRuns, CardThreadsDue
<1>5. CASE CardPart!UserStep
    <2>1. UNCHANGED <<r1, r21>> /\ r19 \subseteq r19'
        BY <1>5
           DEF CardPart!UserStep, CardPart!SetVisible, CardPart!SetAllVisible,
               CardPart!SizeCard, CardPart!ResetCard, CardPart!ResetAll, CardPart!Drag,
               CardPart!Realize, CardPart!LateHide, CardPart!Hears, CardPart!Remembers,
               CardPart!Flush
    <2> QED BY <1>1, <1>2, <1>5, <2>1, StillRuns, CardUsersDue
<1>6. CASE CardPart!Stop \/ CardPart!Gone
    BY <1>1, <1>6 DEF CardPart!Stop, CardPart!Gone
<1>7. CASE CardPart!Launch
    <2>1. /\ r11 \in [CardPart!Threads -> CardPart!Stations]
          /\ r11' = [r11 EXCEPT ![Startup] = "all"]
          /\ UNCHANGED <<r8, r9, r12, r13, r15>> /\ r8 = {} /\ r9 = {}
          /\ \A t \in CardPart!Threads : r11[t] = "idle" /\ r15[t] = {}
        BY <1>7 DEF CardPart!Launch, CardPart!EndIsBlank, CardPart!Shapes, CardPart!Threading
    <2>2. \A t \in CardPart!Threads : r11'[t] \in {"all", "idle"} /\ r15'[t] = {}
        BY <2>1
    <2>3. CardPart!WillShow(Startup, c)'
        BY <2>1, CardNames DEF CardPart!WillShow
    <2> QED BY <2>1, <2>2, <2>3, CardNames DEF Due, Hides, HidesIt, AtShow, Shows
<1> QED BY <1>3, <1>4, <1>5, <1>6, <1>7 DEF CardPart!Next, CardPart!End, CardPart!Killed

\* At first no window has been made and startup is about to show all cards.
LEMMA CardsInit == ASSUME CardPart!Init PROVE CardPart!CardsInv
<1> USE CardNames, NoEventIsEvent
<1>1. CardPart!Shapes
    <2>1. r5 \in BOOLEAN /\ r22 \in BOOLEAN
        BY DEF CardPart!Init
    <2>2. /\ r4 \in CardPart!States /\ r2 \in [Cards -> BOOLEAN] /\ r3 \in [Cards -> Places]
          /\ r18 \in [Cards -> Places]
        BY DEF CardPart!Init, CardPart!States, CardPart!Saved
    <2>3. r11 \in [CardPart!Threads -> CardPart!Stations]
        BY DEF CardPart!Init, CardPart!Stations
    <2>4. r7 \in [Cards -> Nat] /\ r10 \in [Cards -> CardPart!Events]
        BY DEF CardPart!Init
    <2> QED BY <2>1, <2>2, <2>3, <2>4 DEF CardPart!Init, CardPart!Shapes
<1>2. Placements
    <2>1. \A c \in Cards : Counted(c) = {}
        BY DEF CardPart!Init, Counted, CardPart!At
    <2> QED BY <2>1, FS_EmptySet DEF CardPart!Init, Placements
<1>3. CardPart!Threading /\ CardPart!EndIsBlank
    BY DEF CardPart!Init, CardPart!Threading, CardPart!EndIsBlank, CardPart!AtCard
<1>4. CardPart!EventsTell
    BY DEF CardPart!Init, CardPart!EventsTell, CardPart!At
<1>5. CardPart!RememberedAsLeft
    BY DEF CardPart!Init, CardPart!RememberedAsLeft, CardPart!Saved
<1>6. CardPart!OnItsWay
    <2>1. ASSUME NEW c \in Cards PROVE Due(c)
        <3>1. CardPart!WillShow(Startup, c)
            BY DEF CardPart!Init, CardPart!WillShow
        <3>2. \A t \in CardPart!Threads : r11[t] \in {"all", "idle"} /\ r15[t] = {}
            BY DEF CardPart!Init
        <3>3. r8 = {} /\ r9 = {}
            BY DEF CardPart!Init
        <3> QED BY <3>1, <3>2, <3>3 DEF Due, Hides, HidesIt, AtShow, Shows
    <2> QED BY <2>1, DueMeans
<1> QED BY <1>1, <1>2, <1>3, <1>4, <1>5, <1>6, CardTypes DEF CardPart!CardsInv

\* The inductive invariant of the cards' behaviours.
CardsPart == part = "cards" => CardPart!CardsInv

\* It holds of the cards at all times.
LEMMA CardsAlways == PartsSpec => []CardsPart
<1>1. PartsInit => CardsPart
    BY CardsInit DEF PartsInit, CardsPart
<1>2. ASSUME CardPart!CardsInv, [CardPart!Next]_(CardPart!vars) PROVE CardPart!CardsInv'
    <2>1. /\ CardPart!Shapes /\ Placements /\ CardPart!Threading /\ CardPart!EndIsBlank
          /\ CardPart!EventsTell /\ CardPart!OnItsWay /\ CardPart!RememberedAsLeft
        BY <1>2, CardTypes DEF CardPart!CardsInv
    <2>2. CardPart!Shapes' /\ Placements'
        BY <1>2, <2>1, CardShapes, CardPlacements
    <2>3. CardPart!Threading' /\ CardPart!EndIsBlank' /\ CardPart!EventsTell'
        BY <1>2, <2>1, CardThreads, CardEnd, CardEvents
    <2>4. CardPart!OnItsWay' /\ CardPart!RememberedAsLeft'
        BY <1>2, <2>1, CardsOnWay, CardRemembers
    <2>5. CardPart!TypeOK'
        BY <2>2, CardTypes, PTL
    <2> QED BY <2>3, <2>4, <2>5 DEF CardPart!CardsInv
<1>3. CardsPart /\ [PartsNext]_<<part, registers>> => CardsPart'
    BY <1>2, CardsStep DEF CardsPart, PartsNext, registers
<1> QED BY <1>1, <1>3, PTL DEF PartsSpec

\* When no thread is at work, just those cards are on the screen that the user left
\* visible, however shows, hides, replays at startup, placements and late native
\* events interleave; but for cards whose calls crossed or failed.
THEOREM CardsVisible == PartsSpec => []VisibleAsSaved
<1>1. ASSUME CardPart!CardsInv PROVE CardPart!VisibleAsSaved
    <2>1. SUFFICES ASSUME r17 = "yes", r1 = Cards,
                          \A t \in CardPart!Threads : r11[t] = "idle",
                          NEW c \in Cards, c \notin r19, c \notin r21
                   PROVE  (c \in r8 <=> r2[c]) /\ (c \in r9 <=> c \in r8)
        BY DEF CardPart!VisibleAsSaved
    <2>2. Due(c)
        BY <1>1, <2>1, DueMeans DEF CardPart!CardsInv
    <2>3. /\ \A t \in CardPart!Threads : r15[t] = {}
          /\ ~(r16 < Replays)
        BY <1>1, <2>1, CardNames DEF CardPart!CardsInv, CardPart!Threading
    <2>4. \A t \in CardPart!Threads :
              ~Hides(t, c) /\ ~HidesIt(t, c) /\ ~CardPart!WillShow(t, c)
        BY <2>1, <2>3 DEF Hides, HidesIt, CardPart!WillShow, CardPart!AtCard
    <2> QED BY <2>2, <2>4 DEF Due
<1>2. CardsPart => VisibleAsSaved
    BY <1>1 DEF CardsPart, VisibleAsSaved
<1> QED BY <1>2, CardsAlways, PTL

\* Each card is remembered where the user left it: no drag is forgotten, the events that
\* the program's own placements cause do not overwrite it, and once the timer has run the
\* file has it, unless the save failed; but for the cards the property names.
THEOREM CardsRemembered == PartsSpec => []RememberedAsLeft
<1>1. CardsPart => RememberedAsLeft
    BY DEF CardsPart, RememberedAsLeft, CardPart!CardsInv
<1> QED BY <1>1, CardsAlways, PTL

-----------------------------------------------------------------------------
(* All parts.                                                                  *)

\* Every part keeps its types, for any value of the constants: counts of failures,
\* placements and sessions stay what they count, stamps stay ages, and a thread or
\* task is always at a station with the data that it needs there.
THEOREM PartsTypes == PartsSpec => []PartsTypeOK
<1>1. /\ SyncPart => (part = "sync" => Sync!TypeOK)
      /\ LifecyclePart => (part = "lifecycle" => Lifecycle!TypeOK)
      /\ ClaimPart => (part = "claim" => Claim!TypeOK)
      /\ BreakerPart => (part = "breaker" => Breaker!TypeOK)
    BY LifecycleTypes
       DEF SyncPart, Sync!SyncInv, LifecyclePart, ClaimPart, Claim!ClaimInv, BreakerPart,
           Breaker!BreakerInv
<1>2. /\ HubPart => (part = "hub" => Hub!TypeOK)
      /\ CardsPart => (part = "cards" => CardPart!TypeOK)
      /\ WindowInv => (part = "window" => Window!TypeOK)
      /\ ProfilePart => (part = "profile" => Profile!TypeOK)
    BY DEF HubPart, Hub!HubInv, CardsPart, CardPart!CardsInv, WindowInv, ProfilePart,
           Profile!ProfileInv
<1>3. /\ SyncPart /\ LifecyclePart /\ ClaimPart /\ BreakerPart
      /\ HubPart /\ CardsPart /\ WindowInv /\ ProfilePart
      => PartsTypeOK
    BY <1>1, <1>2 DEF PartsTypeOK
<1> QED
    BY <1>3, SyncAlways, LifecycleAlways, ClaimAlways, BreakerAlways, HubAlways, CardsAlways,
       WindowInvAlways, ProfileAlways, PTL
=============================================================================
