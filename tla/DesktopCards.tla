------------------------------ MODULE DesktopCards ------------------------------
(***************************************************************************)
(* The desktop app's cards: a window each, kept where the user left it and *)
(* shown or hidden as the user last said, over restarts.  The thread that  *)
(* starts the app shows the cards and shows them again three times; the    *)
(* page's bridge and the tray change them on threads of their own; every   *)
(* move of a window is handed to yet another; a timer saves.               *)
(*                                                                         *)
(* What runs under _card_state_lock is one action, the save in it too, and *)
(* so is each native call, which the window's thread runs.  A place stands *)
(* for x, y, w and h together; a card has one event on its way at a time.  *)
(***************************************************************************)
EXTENDS Integers, FiniteSets

CONSTANTS
    Cards,      \* CARD_PROJECT_IDS
    Users,      \* threads of the bridge and of the tray
    Startup,    \* on_start, then poyi-card-restore
    Places,     \* where a card can be, Home its default
    Home,
    Nowhere,    \* no card, no place
    Replays,    \* times the startup shows the cards again (3)
    MaxOps      \* bound: what the users do in one run of the app, its end included

CardsConstants ==
    /\ Home \in Places /\ Nowhere \notin Places \cup Cards
    /\ IsFiniteSet(Users) /\ Startup \notin Users
    /\ Replays \in Nat /\ MaxOps \in Nat

Threads == Users \cup {Startup}

VARIABLES
    windows,     \* the cards whose window could be created
    visible,     \* state.card_visibility
    layout,      \* state.card_layout, Home where it has no entry
    file,        \* what window-state.json says of both
    timer,       \* _card_save_timer is set
    armed,       \* _card_geometry_armed
    suppressed,  \* _card_geometry_suppression
    shown,       \* the windows on the screen
    widgets,     \* those that are off the taskbar and at the bottom
    event,       \* the moved or resized event of each card, with its handler
    pc,          \* where each thread stands
    job,         \* what it does to the cards: show, hide or place them
    card,        \* the card it is at
    target,      \* ... and the place it has read for it
    todo,        \* the cards it has still to do
    pass,        \* how often the startup has shown the cards
    running,     \* "yes", "stopping" or "ended"
    wanted,      \* history: where the user, or a command, last put each card
    raced,       \* history: cards shown and hidden at the same time
    spoiled,     \* history: cards to which one of the things has happened that
                 \* RememberedAsLeft excludes
    failed,      \* history: cards a native call has failed for
    unsaved,     \* history: the last save failed
    ops

stateVars == <<visible, layout, file, timer, unsaved>>
nativeVars == <<shown, widgets, failed>>
eventVars == <<armed, suppressed, event>>
threadVars == <<pc, job, card, target, todo, pass>>
historyVars == <<wanted, raced, spoiled, ops>>
vars == <<windows, stateVars, nativeVars, eventVars, threadVars, running, historyVars>>

NoEvent == [place |-> Nowhere, by |-> "none", passed |-> FALSE]
Saved == [visible |-> visible, layout |-> layout]

Init ==
    /\ windows \in SUBSET Cards
    /\ visible \in [Cards -> BOOLEAN] /\ layout \in [Cards -> Places]
    /\ file = Saved /\ timer = FALSE /\ unsaved = FALSE
    /\ armed = {} /\ suppressed = [c \in Cards |-> 0]
    /\ shown = {} /\ widgets = {} /\ failed = {}
    /\ event = [c \in Cards |-> NoEvent]
    /\ pc = [t \in Threads |-> IF t = Startup THEN "all" ELSE "idle"]
    /\ job = [t \in Threads |-> "show"]
    /\ card = [t \in Threads |-> Nowhere] /\ target = [t \in Threads |-> Nowhere]
    /\ todo = [t \in Threads |-> {}] /\ pass = 0
    /\ running = "yes"
    /\ wanted = layout /\ raced = {} /\ spoiled = {} /\ ops = 0

-----------------------------------------------------------------------------

\* save_state: the whole state replaces the file, or an OSError leaves it.
Save ==
    \/ file' = [visible |-> visible', layout |-> layout'] /\ unsaved' = FALSE
    \/ failed = {} /\ UNCHANGED file /\ unsaved' = TRUE

\* Threads that are showing c, past the look at whether they should, and those
\* that are hiding it, or will, without a look.
At(c, places) == {t \in Threads : card[t] = c /\ pc[t] \in places}
Queued(c) == {t \in Threads : job[t] = "hide" /\ c \in todo[t]}
Showing(c) == At(c, {"place", "placed", "style", "show"})
Hiding(c) == At(c, {"hide", "unstyle"}) \cup Queued(c)

\* A card whose place is being changed already, or is about to be, or whose
\* event is on its way.
Placing(c) == At(c, {"place", "placed"}) \cup {t \in Threads : job[t] = "place" /\ c \in todo[t]}
Moving(c) == Placing(c) # {} \/ event[c] # NoEvent

Goes(t, place) == pc' = [pc EXCEPT ![t] = place]

-----------------------------------------------------------------------------
(* One card shown, hidden or placed.                                       *)

\* show_card_windows: not one card when a window is missing.
ShowAll(t) ==
    /\ pc[t] = "all"
    /\ todo' = [todo EXCEPT ![t] = IF windows = Cards THEN Cards ELSE {}]
    /\ job' = [job EXCEPT ![t] = "show"]
    /\ Goes(t, "next")
    /\ UNCHANGED <<windows, stateVars, nativeVars, eventVars, card, target, pass, running,
                   historyVars>>

\* The next card of a list; one that is hidden is not shown.
NextCard(t) ==
    /\ pc[t] = "next"
    /\ \E c \in todo[t] :
          /\ todo' = [todo EXCEPT ![t] = @ \ {c}]
          /\ card' = [card EXCEPT ![t] = c]
          /\ target' = [target EXCEPT ![t] = IF job[t] = "place" THEN layout[c] ELSE Nowhere]
          /\ Goes(t, IF job[t] # "show" THEN job[t] ELSE IF visible[c] THEN "look" ELSE "next")
    /\ UNCHANGED <<windows, stateVars, nativeVars, eventVars, job, pass, running, historyVars>>

\* Variant of LookAgain that trusts the first look.
LookOnce(t) ==
    /\ pc[t] = "look"
    /\ Goes(t, IF card[t] \in armed THEN "style" ELSE "place")
    /\ target' = [target EXCEPT ![t] = IF pc'[t] = "place" THEN layout[card[t]] ELSE Nowhere]
    /\ UNCHANGED <<windows, stateVars, nativeVars, eventVars, job, card, todo, pass, running,
                   historyVars>>

\* _restore_card_window and initialize_card_window: a card that is hidden by
\* now is hidden, any other placed if it has not been.
LookAgain(t) ==
    /\ pc[t] = "look"
    /\ IF visible[card[t]]
       THEN Goes(t, IF card[t] \in armed THEN "style" ELSE "place") /\ UNCHANGED shown
       ELSE Goes(t, "next") /\ shown' = shown \ {card[t]}
    /\ target' = [target EXCEPT ![t] = IF pc'[t] = "place" THEN layout[card[t]] ELSE Nowhere]
    /\ UNCHANGED <<windows, stateVars, widgets, failed, eventVars, job, card, todo, pass,
                   running, historyVars>>

\* _apply_card_geometry: the window reports where it went, or where the system
\* has put it meanwhile; nobody listens.
Place(t) ==
    /\ pc[t] = "place"
    /\ suppressed' = [suppressed EXCEPT ![card[t]] = @ + 1]
    /\ \E p \in {target[t], Home} :
          event' = [event EXCEPT ![card[t]] =
                       IF @ = NoEvent THEN [place |-> p, by |-> "native", passed |-> FALSE]
                                      ELSE @]
    /\ Goes(t, "placed")
    /\ UNCHANGED <<windows, stateVars, nativeVars, armed, job, card, target, todo, pass,
                   running, historyVars>>

\* Variant of Placed that forgets to listen.
PlacedUnarmed(t) ==
    /\ pc[t] = "placed"
    /\ LET c == card[t] IN
       /\ suppressed' = [suppressed EXCEPT ![c] = IF @ > 0 THEN @ - 1 ELSE 0]
       /\ spoiled' = IF event[c] # NoEvent THEN spoiled \cup {c} ELSE spoiled
    /\ target' = [target EXCEPT ![t] = Nowhere]
    /\ Goes(t, IF job[t] = "show" THEN "style" ELSE "next")
    /\ UNCHANGED <<windows, stateVars, nativeVars, armed, event, job, card, todo, pass,
                   running, wanted, raced, ops>>

\* The call is over: a restored card now listens to its window.  A handler
\* that has not run by then will be heard.
Placed(t) ==
    /\ pc[t] = "placed"
    /\ LET c == card[t] IN
       /\ suppressed' = [suppressed EXCEPT ![c] = IF @ > 0 THEN @ - 1 ELSE 0]
       /\ armed' = IF job[t] = "show" THEN armed \cup {c} ELSE armed
       /\ spoiled' = IF event[c] # NoEvent THEN spoiled \cup {c} ELSE spoiled
    /\ target' = [target EXCEPT ![t] = Nowhere]
    /\ Goes(t, IF job[t] = "show" THEN "style" ELSE "next")
    /\ UNCHANGED <<windows, stateVars, nativeVars, event, job, card, todo, pass, running,
                   wanted, raced, ops>>

\* set_native_desktop_widget_mode, then show_native_window_without_activation.
Style(t) ==
    /\ pc[t] = "style"
    /\ widgets' = widgets \cup {card[t]} /\ Goes(t, "show")
    /\ UNCHANGED <<windows, stateVars, shown, failed, eventVars, job, card, target, todo,
                   pass, running, historyVars>>

Show(t) ==
    /\ pc[t] = "show"
    /\ shown' = shown \cup {card[t]} /\ Goes(t, "next")
    /\ UNCHANGED <<windows, stateVars, widgets, failed, eventVars, job, card, target, todo,
                   pass, running, historyVars>>

\* window.hide, then the taskbar again.
Hide(t) ==
    /\ pc[t] = "hide"
    /\ shown' = shown \ {card[t]} /\ Goes(t, "unstyle")
    /\ UNCHANGED <<windows, stateVars, widgets, failed, eventVars, job, card, target, todo,
                   pass, running, historyVars>>

Unstyle(t) ==
    /\ pc[t] = "unstyle"
    /\ widgets' = widgets \ {card[t]} /\ Goes(t, "next")
    /\ UNCHANGED <<windows, stateVars, shown, failed, eventVars, job, card, target, todo,
                   pass, running, historyVars>>

\* A native call fails.  One that says so only does not keep the card from
\* being styled and shown, one that could not be placed without anybody
\* listening to its window; one that throws does.
NativeFails(t) ==
    /\ \/ /\ pc[t] = "place" /\ job[t] = "show" /\ Goes(t, "style")
          /\ spoiled' = spoiled \cup {card[t]}
       \/ pc[t] = "style" /\ Goes(t, "show") /\ UNCHANGED spoiled
       \/ /\ pc[t] \in {"place", "style", "show", "hide", "unstyle"} /\ Goes(t, "next")
          /\ UNCHANGED spoiled
    /\ failed = {} /\ ~unsaved /\ failed' = {card[t]}
    /\ UNCHANGED <<windows, stateVars, shown, widgets, eventVars, job, card, target, todo,
                   pass, running, wanted, raced, ops>>

\* The list is done.  replay_card_visibility_after_startup goes to sleep.
ListDone(t) ==
    /\ pc[t] = "next" /\ todo[t] = {}
    /\ card' = [card EXCEPT ![t] = Nowhere] /\ target' = [target EXCEPT ![t] = Nowhere]
    /\ job' = [job EXCEPT ![t] = "show"]
    /\ Goes(t, IF t = Startup /\ pass < Replays THEN "asleep" ELSE "idle")
    /\ UNCHANGED <<windows, stateVars, nativeVars, eventVars, todo, pass, running, historyVars>>

\* 0.35, 0.9 and 1.8 s later.
Replay ==
    /\ pc[Startup] = "asleep"
    /\ IF running = "yes" THEN pass' = pass + 1 /\ Goes(Startup, "all")
                          ELSE UNCHANGED pass /\ Goes(Startup, "idle")
    /\ UNCHANGED <<windows, stateVars, nativeVars, eventVars, job, card, target, todo,
                   running, historyVars>>

ThreadStep ==
    \/ \E t \in Threads :
          \/ ShowAll(t) \/ NextCard(t) \/ LookAgain(t) \/ Place(t) \/ Placed(t) \/ Style(t)
          \/ Show(t) \/ Hide(t) \/ Unstyle(t) \/ NativeFails(t) \/ ListDone(t)
    \/ Replay

-----------------------------------------------------------------------------
(* What the users do, on the page, in the tray's menu, with the mouse.     *)

Asks(t) == pc[t] = "idle" /\ t \in Users /\ ops < MaxOps /\ ops' = ops + 1

\* set_card_visible
SetVisible(t, c, on) ==
    /\ Asks(t)
    /\ visible' = [visible EXCEPT ![c] = on]
    /\ UNCHANGED <<layout, timer>> /\ Save
    /\ raced' = IF (IF on THEN Hiding(c) ELSE Showing(c)) # {} THEN raced \cup {c} ELSE raced
    /\ IF c \in windows
       THEN /\ job' = [job EXCEPT ![t] = IF on THEN "show" ELSE "hide"]
            /\ card' = [card EXCEPT ![t] = c] /\ Goes(t, IF on THEN "look" ELSE "hide")
       ELSE UNCHANGED <<job, card, pc>>
    /\ UNCHANGED <<windows, nativeVars, eventVars, target, todo, pass, running, wanted, spoiled>>

\* set_all_cards_visible
SetAllVisible(t, on) ==
    /\ Asks(t)
    /\ visible' = [c \in Cards |-> on]
    /\ UNCHANGED <<layout, timer>> /\ Save
    /\ raced' = raced \cup {c \in Cards : (IF on THEN Hiding(c) ELSE Showing(c)) # {}}
    /\ job' = [job EXCEPT ![t] = IF on THEN "show" ELSE "hide"]
    /\ todo' = [todo EXCEPT ![t] = IF on THEN {} ELSE windows]
    /\ Goes(t, IF on THEN "all" ELSE "next")
    /\ UNCHANGED <<windows, nativeVars, eventVars, card, target, pass, running, wanted, spoiled>>

\* set_card_size: remembered first, unless the app is stopping, then applied.
SizeCard(t, c, p) ==
    /\ Asks(t) /\ c \in windows
    /\ IF running = "yes"
       THEN /\ layout' = [layout EXCEPT ![c] = p] /\ wanted' = [wanted EXCEPT ![c] = p]
            /\ timer' = TRUE
       ELSE UNCHANGED <<layout, wanted, timer>>
    /\ spoiled' = IF Moving(c) THEN spoiled \cup {c} ELSE spoiled
    /\ job' = [job EXCEPT ![t] = "place"] /\ card' = [card EXCEPT ![t] = c]
    /\ target' = [target EXCEPT ![t] = layout'[c]] /\ Goes(t, "place")
    /\ UNCHANGED <<windows, visible, file, unsaved, nativeVars, eventVars, todo, pass, running,
                   raced>>

\* reset_card_geometry
ResetCard(t, c) ==
    /\ Asks(t) /\ c \in windows
    /\ layout' = [layout EXCEPT ![c] = Home] /\ wanted' = [wanted EXCEPT ![c] = Home]
    /\ UNCHANGED <<visible, timer>> /\ Save
    /\ spoiled' = IF Moving(c) THEN spoiled \cup {c} ELSE spoiled
    /\ job' = [job EXCEPT ![t] = "place"] /\ card' = [card EXCEPT ![t] = c]
    /\ target' = [target EXCEPT ![t] = Home] /\ Goes(t, "place")
    /\ UNCHANGED <<windows, nativeVars, eventVars, todo, pass, running, raced>>

\* reset_card_layout: each card is put where it is remembered when its turn
\* comes.
ResetAll(t) ==
    /\ Asks(t)
    /\ layout' = [c \in Cards |-> Home] /\ wanted' = [c \in Cards |-> Home]
    /\ UNCHANGED <<visible, timer>> /\ Save
    /\ spoiled' = spoiled \cup {c \in Cards : Moving(c)}
    /\ job' = [job EXCEPT ![t] = "place"]
    /\ todo' = [todo EXCEPT ![t] = windows] /\ Goes(t, "next")
    /\ UNCHANGED <<windows, nativeVars, eventVars, card, target, pass, running, raced>>

\* _flush_card_state of the one timer that is not cancelled.
Flush ==
    /\ timer /\ timer' = FALSE
    /\ UNCHANGED <<visible, layout>> /\ Save
    /\ UNCHANGED <<windows, nativeVars, eventVars, threadVars, running, historyVars>>

\* A window is dragged, or sized by its frame.
Drag(c, p) ==
    /\ c \in shown /\ p # layout[c] /\ event[c] = NoEvent
    /\ ops < MaxOps /\ ops' = ops + 1
    /\ event' = [event EXCEPT ![c] = [place |-> p, by |-> "user", passed |-> FALSE]]
    /\ wanted' = [wanted EXCEPT ![c] = p]
    /\ spoiled' = IF Moving(c) \/ running # "yes" THEN spoiled \cup {c} ELSE spoiled
    /\ UNCHANGED <<windows, stateVars, nativeVars, armed, suppressed, threadVars, running, raced>>

\* WebView2 is late: it moves a window that is not in use yet, or hides one.
Realize(c) ==
    /\ c \in windows \ armed /\ event[c] = NoEvent
    /\ event' = [event EXCEPT ![c] = [place |-> Home, by |-> "native", passed |-> FALSE]]
    /\ UNCHANGED <<windows, stateVars, nativeVars, armed, suppressed, threadVars, running,
                   historyVars>>

LateHide(c) ==
    /\ c \in shown /\ pass < Replays
    /\ shown' = shown \ {c}
    /\ UNCHANGED <<windows, stateVars, widgets, failed, eventVars, threadVars, running,
                   historyVars>>

\* remember_move, remember_size, and update_card_geometry up to its lock.
Hears(c) ==
    /\ event[c] # NoEvent /\ ~event[c].passed
    /\ event' = IF c \in armed /\ suppressed[c] = 0 /\ running = "yes"
                THEN [event EXCEPT ![c].passed = TRUE] ELSE [event EXCEPT ![c] = NoEvent]
    /\ UNCHANGED <<windows, stateVars, nativeVars, armed, suppressed, threadVars, running,
                   historyVars>>

\* The rest of update_card_geometry, with _queue_card_state_save.
Remembers(c) ==
    /\ event[c].passed
    /\ layout' = [layout EXCEPT ![c] = event[c].place] /\ timer' = TRUE
    /\ event' = [event EXCEPT ![c] = NoEvent]
    /\ UNCHANGED <<windows, visible, file, unsaved, nativeVars, armed, suppressed, threadVars,
                   running, historyVars>>

UserStep ==
    \/ \E t \in Users :
          \/ \E c \in Cards, on \in BOOLEAN : SetVisible(t, c, on)
          \/ \E on \in BOOLEAN : SetAllVisible(t, on)
          \/ \E c \in Cards, p \in Places : SizeCard(t, c, p)
          \/ \E c \in Cards : ResetCard(t, c)
          \/ ResetAll(t)
    \/ \E c \in Cards :
          \/ \E p \in Places : Drag(c, p)
          \/ Realize(c) \/ LateHide(c) \/ Hears(c) \/ Remembers(c)
    \/ Flush

-----------------------------------------------------------------------------
(* The end, and the next start.                                            *)

\* A user quits: shutdown begins, with remember_geometry's save.  An event that
\* has not been heard by now will not be.
Stop ==
    /\ running = "yes" /\ running' = "stopping"
    /\ ops < MaxOps /\ ops' = ops + 1
    /\ UNCHANGED <<visible, layout, timer>> /\ Save
    /\ spoiled' = spoiled \cup {c \in Cards : event[c].by = "user" /\ ~event[c].passed}
    /\ UNCHANGED <<windows, nativeVars, eventVars, threadVars, wanted, raced>>

\* Windows, threads and what they knew are gone.
Gone ==
    /\ running' = "ended" /\ timer' = FALSE
    /\ windows' = {} /\ shown' = {} /\ widgets' = {} /\ failed' = {}
    /\ armed' = {} /\ suppressed' = [c \in Cards |-> 0]
    /\ event' = [c \in Cards |-> NoEvent]
    /\ pc' = [t \in Threads |-> "idle"] /\ job' = [t \in Threads |-> "show"]
    /\ card' = [t \in Threads |-> Nowhere] /\ target' = [t \in Threads |-> Nowhere]
    /\ todo' = [t \in Threads |-> {}] /\ pass' = 0
    /\ raced' = {} /\ ops' = 0

Unheard == {c \in Cards : event[c] # NoEvent}

\* The timer is cancelled, its save made up for, the windows are destroyed.
End ==
    /\ running = "stopping" /\ Gone
    /\ UNCHANGED <<visible, layout, wanted>> /\ Save
    /\ spoiled' = spoiled \cup Unheard

\* The process is killed: what the timer was to save is lost.
Killed ==
    /\ running # "ended" /\ Gone
    /\ spoiled' = spoiled \cup Unheard \cup {c \in Cards : layout[c] # file.layout[c]}
    /\ UNCHANGED <<visible, layout, file, unsaved, wanted>>

\* main, after load_state: a window that cannot be created is passed over.
Launch ==
    /\ running = "ended" /\ running' = "yes"
    /\ windows' \in SUBSET Cards
    /\ visible' = file.visible /\ layout' = file.layout
    /\ pc' = [pc EXCEPT ![Startup] = "all"]
    /\ wanted' = [c \in Cards |-> IF c \in spoiled \/ unsaved THEN file.layout[c] ELSE wanted[c]]
    /\ spoiled' = {} /\ unsaved' = FALSE
    /\ UNCHANGED <<file, timer, nativeVars, eventVars, job, card, target, todo, pass, raced, ops>>

Next ==
    \/ running # "ended" /\ (ThreadStep \/ UserStep)
    \/ Stop \/ End \/ Killed \/ Launch

Spec == Init /\ [][Next]_vars

-----------------------------------------------------------------------------
(* Properties.                                                             *)

States == [visible : [Cards -> BOOLEAN], layout : [Cards -> Places]]
Events == [place : Places \cup {Nowhere}, by : {"none", "user", "native"}, passed : BOOLEAN]

Stations == {"all", "next", "look", "place", "placed", "style", "show", "hide", "unstyle",
             "asleep", "idle"}
AtCard == {"look", "place", "placed", "style", "show", "hide", "unstyle"}

Shapes ==
    /\ UNION {windows, armed, shown, widgets, raced, spoiled, failed} \subseteq Cards
    /\ visible \in [Cards -> BOOLEAN] /\ layout \in [Cards -> Places]
    /\ file \in States /\ wanted \in [Cards -> Places]
    /\ suppressed \in [Cards -> Nat] /\ event \in [Cards -> Events]
    /\ pc \in [Threads -> Stations] /\ job \in [Threads -> {"show", "hide", "place"}]
    /\ card \in [Threads -> Cards \cup {Nowhere}] /\ target \in [Threads -> Places \cup {Nowhere}]
    /\ todo \in [Threads -> SUBSET Cards] /\ pass \in 0 .. Replays
    /\ running \in {"yes", "stopping", "ended"} /\ ops \in 0 .. MaxOps
    /\ timer \in BOOLEAN /\ unsaved \in BOOLEAN

\* Types; placements under way are counted, so a card whose placements are
\* over listens again.
TypeOK == Shapes /\ \A c \in Cards : suppressed[c] = Cardinality(At(c, {"placed"}))

\* Once the startup has shown the cards for the last time and nobody is at one,
\* just those are on the screen, off the taskbar, that the user left visible,
\* though WebView2 may have hidden some meanwhile.  Not promised of a card that
\* was hidden after a thread had looked whether to show it, of one a native call
\* failed for, and of any when one window could not be created.
VisibleAsSaved ==
    running = "yes" /\ windows = Cards /\ (\A t \in Threads : pc[t] = "idle") =>
        \A c \in Cards \ (raced \cup failed) :
            (c \in shown <=> visible[c]) /\ (c \in widgets <=> c \in shown)

\* Each card is remembered where the user or a command last put it, whatever
\* the start, WebView2 and the app's own placing report in between: no drag is
\* forgotten and none is made up; and when no timer is left to do so, the file
\* says so: nothing is lost by a quit.  Not promised, until the next start, of
\* a card that was put to two places at a time (dragged, or put somewhere by a
\* command, while it is being placed, a reset has yet to place it, or its last
\* event is on its way), whose placement had an event heard after its end only,
\* whose first placement the system refused (it is shown all the same and
\* nobody listens to it), or whose event was not heard before the app began to
\* stop, not handled before the end, or not saved before a kill.
RememberedAsLeft ==
    /\ \A c \in Cards \ spoiled : event[c].by # "user" => layout[c] = wanted[c]
    /\ ~unsaved => file.visible = visible
    /\ ~unsaved /\ ~timer => \A c \in Cards \ spoiled : file.layout[c] = layout[c]

\* Inductive: a thread does what it was asked to do at a card, and has none to
\* do when it is idle; only the startup sleeps, and comes back.
Threading ==
    /\ \A t \in Threads :
          /\ pc[t] \in AtCard => card[t] \in Cards
          /\ pc[t] = "place" => target[t] \in Places
          /\ pc[t] \in {"look", "style", "show"} => job[t] = "show"
          /\ pc[t] \in {"hide", "unstyle"} => job[t] = "hide"
          /\ pc[t] \in {"idle", "asleep", "all"} => todo[t] = {}
          /\ pc[t] = "asleep" => t = Startup /\ pass < Replays
    /\ running = "yes" /\ pass < Replays => pc[Startup] # "idle"

\* ... nothing outlives the app, ...
EndIsBlank ==
    running = "ended" =>
        /\ ~timer /\ shown = {} /\ widgets = {} /\ raced = {} /\ failed = {}
        /\ \A c \in Cards : event[c] = NoEvent
        /\ \A t \in Threads : pc[t] = "idle" /\ card[t] = Nowhere

\* ... unless the card is spoiled, a window on the screen is listened to, and a
\* user's event tells where the card is to be and has been heard or will be:
\* nothing keeps it from that; what the app has moved itself is not heard, ...
EventsTell ==
    \A c \in Cards :
        /\ event[c].by = "none" => event[c] = NoEvent
        /\ event[c].by # "none" => event[c].place \in Places
        /\ c \notin spoiled =>
              /\ c \in shown \/ At(c, {"style", "show"}) # {} => c \in armed
              /\ event[c].by = "user" =>
                    /\ event[c].place = wanted[c]
                    /\ c \in armed /\ (event[c].passed \/ running = "yes")
                    /\ Placing(c) = {}
              /\ event[c].by = "native" =>
                    ~event[c].passed /\ (c \notin armed \/ suppressed[c] > 0)

\* ... and what is not on the screen as it should be will be: somebody is to
\* show it, or to hide it, and nobody does what the other undoes.
WillShow(t, c) ==
    \/ pc[t] = "all"
    \/ job[t] = "show" /\ (c \in todo[t] \/ (card[t] = c /\ pc[t] \in AtCard))
    \/ t = Startup /\ pass < Replays

OnItsWay ==
    running = "yes" /\ windows = Cards =>
        \A c \in Cards \ (raced \cup failed) :
            /\ visible[c] =>
                  /\ Hiding(c) = {}
                  /\ (c \in shown /\ c \in widgets) \/ \E t \in Threads : WillShow(t, c)
            /\ ~visible[c] =>
                  /\ \A t \in Showing(c) : job[t] = "place"
                  /\ c \in shown => At(c, {"hide"}) \cup Queued(c) # {}
                  /\ c \in widgets => Hiding(c) # {}
            /\ At(c, {"show"}) # {} => c \in widgets

CardsInv ==
    TypeOK /\ Threading /\ EndIsBlank /\ EventsTell /\ OnItsWay /\ RememberedAsLeft
=============================================================================
