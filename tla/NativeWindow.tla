------------------------------ MODULE NativeWindow ------------------------------
(***************************************************************************)
(* The management window, which has no frame of its own: it is sized by    *)
(* trackers, threads that follow the pointer while its button is down,     *)
(* started by the page's bridge.  A table keeps the one that may go on;    *)
(* the next drag, and the window's end, tell it to stop.  The end is told  *)
(* by a subclass of the window's procedure, which also keeps its edges     *)
(* live, with a style bit that is not modelled.                            *)
(*                                                                         *)
(* A rectangle is its span along one axis, <<near, far>>; the other axis   *)
(* is sized by the same lines, and a side that is not dragged is "none".   *)
(* What the window's own thread runs without a lock in between is one      *)
(* action, and so is what runs under _resize_session_lock.                 *)
(***************************************************************************)
EXTENDS Integers, FiniteSets

CONSTANTS
    Trackers,   \* bound: the drags, each with a thread and a cancel event
    NoTracker,
    Cursors,    \* where the pointer can be
    Minimum,    \* MIN_SIZE along this axis
    First       \* the window's span at first

WindowConstants ==
    /\ NoTracker \notin Trackers /\ Cursors \subseteq Int
    /\ Minimum \in Nat /\ First \in Int \X Int /\ First[2] - First[1] >= Minimum

VARIABLES
    alive,    \* the window has not been destroyed
    hooked,   \* _resize_hooks has it
    span,     \* the window's rectangle
    cursor,
    button,   \* the left button is down
    session,  \* _resize_sessions
    stage,    \* where each tracker stands
    cancelled,\* its event
    seen,     \* saw_button_down
    grip,     \* the side, the span and the pointer it began with
    target    \* where it is about to put the window, or put it last

windowVars == <<alive, hooked>>
pointerVars == <<cursor, button>>
trackerVars == <<stage, cancelled, seen, grip, target>>
vars == <<windowVars, span, pointerVars, session, trackerVars>>

Sides == {"near", "far", "none"}
NoGrip == [side |-> "none", span |-> First, start |-> 0]

Init ==
    /\ alive = TRUE /\ hooked = FALSE
    /\ span = First
    /\ cursor \in Cursors /\ button = FALSE
    /\ session = NoTracker
    /\ stage = [k \in Trackers |-> "unused"]
    /\ cancelled = [k \in Trackers |-> FALSE] /\ seen = [k \in Trackers |-> FALSE]
    /\ grip = [k \in Trackers |-> NoGrip] /\ target = [k \in Trackers |-> First]

-----------------------------------------------------------------------------

\* resize_target_rect: the dragged side follows the pointer as far as the
\* least size allows.
Resized(g, at) ==
    LET delta == at - g.start
        near == IF g.side = "near" THEN g.span[1] + delta ELSE g.span[1]
        far == IF g.side = "far" THEN g.span[2] + delta ELSE g.span[2]
    IN IF far - near >= Minimum THEN <<near, far>>
       ELSE IF g.side = "near" THEN <<far - Minimum, far>> ELSE <<near, near + Minimum>>

Goes(k, place) == stage' = [stage EXCEPT ![k] = place]

\* begin_window_resize, on the window's thread: where things stand ...
Grab(k, side) ==
    /\ alive /\ stage[k] = "unused" /\ \A j \in Trackers : stage[j] # "grabbed"
    /\ grip' = [grip EXCEPT ![k] = [side |-> side, span |-> span, start |-> cursor]]
    /\ target' = [target EXCEPT ![k] = span]
    /\ Goes(k, "grabbed")
    /\ UNCHANGED <<windowVars, span, pointerVars, session, cancelled, seen>>

\* ... and, in the table's lock, the drag before is told to stop.
Register(k) ==
    /\ stage[k] = "grabbed"
    /\ cancelled' = IF session = NoTracker THEN cancelled
                    ELSE [cancelled EXCEPT ![session] = TRUE]
    /\ session' = k
    /\ Goes(k, "going")
    /\ UNCHANGED <<windowVars, span, pointerVars, seen, grip, target>>

\* _track_window_resize: the event first, 120 times a second ...
LooksAtEvent(k) ==
    /\ stage[k] = "going"
    /\ Goes(k, IF cancelled[k] THEN "leaving" ELSE "looking")
    /\ UNCHANGED <<windowVars, span, pointerVars, session, cancelled, seen, grip, target>>

\* ... then the button: up, it is the end, though a button that has not been
\* seen down yet has 0.12 s to go down ...
LooksAtButton(k) ==
    /\ stage[k] = "looking"
    /\ IF button
       THEN /\ seen' = [seen EXCEPT ![k] = TRUE]
            /\ target' = [target EXCEPT ![k] = Resized(grip[k], cursor)]
            /\ Goes(k, IF target'[k] = target[k] THEN "going" ELSE "moving")
       ELSE /\ \/ Goes(k, "leaving")
               \/ ~seen[k] /\ Goes(k, "going")
            /\ UNCHANGED <<seen, target>>
    /\ UNCHANGED <<windowVars, span, pointerVars, session, cancelled, grip>>

\* ... then SetWindowPos, which moves no window that is gone.
Moves(k) ==
    /\ stage[k] = "moving"
    /\ span' = IF alive THEN target[k] ELSE span
    /\ Goes(k, "going")
    /\ UNCHANGED <<windowVars, pointerVars, session, cancelled, seen, grip, target>>

\* Variant of Leaves that clears the table whoever is in it.
LeavesClearing(k) ==
    /\ stage[k] = "leaving"
    /\ session' = NoTracker
    /\ Goes(k, "gone")
    /\ UNCHANGED <<windowVars, span, pointerVars, cancelled, seen, grip, target>>

Leaves(k) ==
    /\ stage[k] = "leaving"
    /\ session' = IF session = k THEN NoTracker ELSE session
    /\ Goes(k, "gone")
    /\ UNCHANGED <<windowVars, span, pointerVars, cancelled, seen, grip, target>>

TrackerStep ==
    \E k \in Trackers :
        \/ \E side \in Sides : Grab(k, side)
        \/ Register(k) \/ LooksAtEvent(k) \/ LooksAtButton(k) \/ Moves(k) \/ Leaves(k)

-----------------------------------------------------------------------------
(* The window, on its own thread: not between a drag's two steps.          *)

Idle == alive /\ \A k \in Trackers : stage[k] # "grabbed"

\* install_frameless_resize, at the start and whenever management is opened: it
\* may fail, and is then made up for the next time.
EnableResize ==
    /\ Idle /\ hooked' \in {hooked, TRUE}
    /\ UNCHANGED <<alive, span, pointerVars, session, trackerVars>>

\* WM_NCDESTROY, which only the subclass sees.
Destroyed ==
    /\ Idle /\ alive' = FALSE /\ hooked' = FALSE
    /\ IF hooked
       THEN /\ session' = NoTracker
            /\ cancelled' = IF session = NoTracker THEN cancelled
                            ELSE [cancelled EXCEPT ![session] = TRUE]
       ELSE UNCHANGED <<session, cancelled>>
    /\ UNCHANGED <<span, pointerVars, stage, seen, grip, target>>

\* The pointer and its button.
Point ==
    /\ \/ cursor' \in Cursors \ {cursor} /\ UNCHANGED button
       \/ button' = ~button /\ UNCHANGED cursor
    /\ UNCHANGED <<windowVars, span, session, trackerVars>>

Next == TrackerStep \/ EnableResize \/ Destroyed \/ Point

Spec == Init /\ [][Next]_vars

-----------------------------------------------------------------------------
(* Properties.                                                             *)

Stages == {"unused", "grabbed", "going", "looking", "moving", "leaving", "gone"}
Tracking(k) == stage[k] \in {"going", "looking", "moving", "leaving"}
Spans == {s \in Int \X Int : s[2] - s[1] >= Minimum}

\* Types; nothing makes the window, or what a tracker is about to make it,
\* smaller than the least size.
TypeOK ==
    /\ {alive, hooked, button} \subseteq BOOLEAN /\ cursor \in Cursors
    /\ span \in Spans
    /\ session \in Trackers \cup {NoTracker}
    /\ stage \in [Trackers -> Stages]
    /\ cancelled \in [Trackers -> BOOLEAN] /\ seen \in [Trackers -> BOOLEAN]
    /\ grip \in [Trackers -> [side : Sides, span : Spans, start : Int]]
    /\ target \in [Trackers -> Spans]

\* The table holds the one drag that has not been told to stop, so that the
\* next one and the window's end reach it: however a drag that ends late, one
\* that begins and the window's end cross, no two fight for the window for longer
\* than a frame.
OneDragGoesOn ==
    \A k \in Trackers : Tracking(k) /\ ~cancelled[k] => session = k

=============================================================================
