------------------------------ MODULE CloudSync ------------------------------
(***************************************************************************)
(* cloud_sync.py, run by the watchdog every few passes: it reads each      *)
(* project's tools over loopback, pushes what it could read to that        *)
(* project's cloud mirror, and leaves one status file behind, from which   *)
(* the dashboard says how old the mirror is.  The program starts afresh    *)
(* for each pass; the file is all it remembers.                            *)
(*                                                                         *)
(* A timestamp is its age: Never when there is none, Malformed when the    *)
(* cloud answered with text that is no timestamp; ages stop growing where  *)
(* staleness no longer tells them apart.  The cloud's clock (syncedAt) and *)
(* the PC's are taken to agree.  Of a snapshot only the moment the mirror  *)
(* stored it is kept; of a project's status the stamps of its items, and   *)
(* of its own two stamps only whether they can be read.                    *)
(***************************************************************************)
EXTENDS Integers, Sequences, FiniteSets

CONSTANTS
    Order,       \* the configured projects, in the order they are synced
    Journals,    \* those of kind "journal": their entries are pushed whole
    Tools,       \* the tools a snapshot project may be configured with
    StaleAfter   \* stale_after_seconds of a snapshot mirror

Never == -1
Malformed == -2
Ages == 0 .. StaleAfter + 1
Stamps == Ages \cup {Never, Malformed}
Projects == {Order[i] : i \in 1 .. Len(Order)}

\* A pass with no project configured does nothing.
SyncConstants ==
    /\ Order \in Seq(Projects) /\ Order # <<>>
    /\ IsFiniteSet(Tools) /\ StaleAfter \in Nat

\* items: lastSuccessfulPushAt of each tool; bad: which of the project's own
\* stamps (lastSuccessfulPushAt, lastCompletePushAt) are malformed.
NoStatus == [items |-> <<>>, bad |-> {}]
NoStatuses == [p \in Projects |-> NoStatus]

VARIABLES
    syncPc,     \* where the pass stands; "off" between passes
    position,   \* the project it has come to
    wanted,     \* the tools configured for it
    todo,       \* ... not called yet
    snapshots,  \* ... and read
    attempted,  \* age of attempted_at
    synced,     \* what the cloud answered as syncedAt
    statuses,   \* the observations held in memory
    file,       \* cloud-sync-status.json
    cloud       \* per project and tool, the age of what the mirror stored

vars == <<syncPc, position, wanted, todo, snapshots, attempted, synced,
          statuses, file, cloud>>
progress == <<position, wanted, todo, snapshots, attempted, synced>>

Init ==
    /\ syncPc = "off" /\ position = 1
    /\ wanted = {} /\ todo = {} /\ snapshots = {}
    /\ attempted = 0 /\ synced = Never
    /\ statuses = NoStatuses /\ file = NoStatuses
    /\ cloud = [p \in Projects |-> [t \in Tools |-> Never]]

-----------------------------------------------------------------------------
(* Time.                                                                   *)

Later(a) == IF a \in 0 .. StaleAfter THEN a + 1 ELSE a

LaterStatus(o) == [items |-> [t \in DOMAIN o.items |-> Later(o.items[t])],
                   bad |-> o.bad]

Tick ==
    /\ attempted' = Later(attempted) /\ synced' = Later(synced)
    /\ statuses' = [p \in Projects |-> LaterStatus(statuses[p])]
    /\ file' = [p \in Projects |-> LaterStatus(file[p])]
    /\ cloud' = [p \in Projects |-> [t \in Tools |-> Later(cloud[p][t])]]
    /\ UNCHANGED <<syncPc, position, wanted, todo, snapshots>>

-----------------------------------------------------------------------------
(* What a pass writes down.                                                *)

Project == Order[position]
Stamp(new, prior) == IF new # Never THEN new ELSE prior
PriorItem(t) == IF t \in DOMAIN statuses[Project].items
                THEN statuses[Project].items[t] ELSE Never

\* Variant of ItemObservation that takes an attempt for a push.
ItemObservationAttempted(t, stamp) ==
    Stamp(IF stamp = Never THEN attempted ELSE stamp, PriorItem(t))

\* _item_observation: a tool that was not pushed keeps its earlier stamp.
ItemObservation(t, stamp) == Stamp(stamp, PriorItem(t))

\* _project_observation, where pushed were pushed with this stamp, which goes
\* into the named stamps of the project too.
Observation(pushed, stamp, names) ==
    [items |-> [t \in wanted |->
                    ItemObservation(t, IF t \in pushed THEN stamp ELSE Never)],
     bad |-> (statuses[Project].bad \ names)
                 \cup (IF stamp = Malformed THEN names ELSE {})]

Failure == Observation({}, Never, {})

\* The observation is put into the dict and the loop of main goes on.
Record(o) ==
    /\ statuses' = [statuses EXCEPT ![Project] = o]
    /\ syncPc' = IF position < Len(Order) THEN "project" ELSE "write"
    /\ position' = IF position < Len(Order) THEN position + 1 ELSE position
    /\ wanted' = {} /\ todo' = {} /\ snapshots' = {}
    /\ attempted' = 0 /\ synced' = Never
    /\ UNCHANGED <<file, cloud>>

-----------------------------------------------------------------------------
(* A pass.                                                                 *)

\* The watchdog starts the program; load_status reads a file that is too
\* large, not JSON or not there as no statuses.
StartPass ==
    /\ syncPc = "off"
    /\ syncPc' = "project" /\ position' = 1
    /\ statuses' \in {file, NoStatuses}
    /\ UNCHANGED <<wanted, todo, snapshots, attempted, synced, file, cloud>>

\* sync_project begins; the configuration may have been edited since.
BeginProject ==
    /\ syncPc = "project" /\ Project \notin Journals
    /\ wanted' \in SUBSET Tools
    /\ todo' = wanted' /\ snapshots' = {} /\ attempted' = 0
    /\ syncPc' = "connect"
    /\ UNCHANGED <<position, synced, statuses, file, cloud>>

Connect ==
    /\ syncPc = "connect"
    /\ \/ syncPc' = "call" /\ UNCHANGED <<progress, statuses, file, cloud>>
       \/ Record(Failure)

\* call_tool succeeds, or fails in one of the ways that only skip the tool.
CallTool(t) ==
    /\ syncPc = "call" /\ t \in todo
    /\ todo' = todo \ {t}
    /\ snapshots' \in {snapshots, snapshots \cup {t}}
    /\ UNCHANGED <<syncPc, position, wanted, attempted, synced, statuses, file,
                   cloud>>

NothingRead ==
    /\ syncPc = "call" /\ todo = {} /\ snapshots = {}
    /\ Record(Failure)

\* push: the mirror stores the snapshots; its answer may still be lost.
CloudStores ==
    /\ syncPc = "call" /\ todo = {} /\ snapshots # {}
    /\ cloud' = [cloud EXCEPT ![Project] =
                    [t \in Tools |-> IF t \in snapshots THEN 0 ELSE @[t]]]
    /\ synced' \in {0, Never, Malformed}
    /\ syncPc' = "stored"
    /\ UNCHANGED <<position, wanted, todo, snapshots, attempted, statuses, file>>

PushFails ==
    /\ \/ syncPc = "call" /\ todo = {} /\ snapshots # {}
       \/ syncPc = "stored"
    /\ Record(Failure)

\* Without a syncedAt in the answer the attempt's own time stands in for it.
PushAnswered ==
    /\ syncPc = "stored"
    /\ LET stamp == IF synced = Never THEN attempted ELSE synced
       IN  Record(Observation(snapshots, stamp, {"success"} \cup
                      (IF snapshots = wanted THEN {"complete"} ELSE {})))

\* sync_journal: all entries or none, stamped with the PC's clock; no items.
SyncJournal ==
    /\ syncPc = "project" /\ Project \in Journals
    /\ Record(Observation({}, 0, {"success", "complete"})) \/ Record(Failure)

PassOver ==
    /\ syncPc' = "off" /\ position' = 1
    /\ wanted' = {} /\ todo' = {} /\ snapshots' = {}
    /\ attempted' = 0 /\ synced' = Never /\ statuses' = NoStatuses
    /\ UNCHANGED cloud

\* write_status replaces the file in one step, or leaves it on an OSError.
WriteStatus ==
    /\ syncPc = "write"
    /\ file' \in {file, statuses}
    /\ PassOver

\* The pass ends without writing: the host goes down, or an answer raises what
\* no handler of the program names (an http.client.HTTPException, an
\* AttributeError on a body that is not an object).
EndsEarly ==
    /\ syncPc # "off"
    /\ PassOver
    /\ UNCHANGED file

Next ==
    \/ Tick \/ StartPass \/ BeginProject \/ Connect \/ NothingRead
    \/ CloudStores \/ PushFails \/ PushAnswered \/ SyncJournal \/ WriteStatus
    \/ EndsEarly
    \/ \E t \in Tools : CallTool(t)

Spec == Init /\ [][Next]_vars

-----------------------------------------------------------------------------
(* The dashboard's reading of the file.                                    *)

\* load_cloud_sync_observations: one malformed stamp rejects the document.
Readable(o) == o.bad = {} /\ \A t \in DOMAIN o.items : o.items[t] # Malformed

Observed(p) == IF \A q \in Projects : Readable(file[q]) THEN file[p] ELSE NoStatus

\* _snapshot_state of a snapshot mirror; totalItems is the number of items.
SnapshotState(o) ==
    LET pushed == {t \in DOMAIN o.items : o.items[t] # Never}
    IN  IF o = NoStatus THEN "unknown"
        ELSE IF pushed = {} THEN "never_synced"
        ELSE IF Cardinality(DOMAIN o.items) > Cardinality(pushed) THEN "incomplete"
        ELSE IF \E t \in pushed : o.items[t] > StaleAfter THEN "stale"
        ELSE "fresh"

-----------------------------------------------------------------------------
(* Properties.                                                             *)

Status(o) ==
    /\ o.bad \subseteq {"success", "complete"}
    /\ DOMAIN o.items \subseteq Tools
    /\ \A t \in DOMAIN o.items : o.items[t] \in Stamps

\* Types; nothing of a pass is left between passes.
TypeOK ==
    /\ syncPc \in {"off", "project", "connect", "call", "stored", "write"}
    /\ position \in 1 .. Len(Order)
    /\ snapshots \cup todo \subseteq wanted /\ wanted \subseteq Tools
    /\ snapshots \cap todo = {}
    /\ attempted \in Ages /\ synced \in Stamps
    /\ syncPc = "off" => statuses = NoStatuses
    /\ DOMAIN statuses = Projects /\ DOMAIN file = Projects
    /\ \A p \in Projects : Status(statuses[p]) /\ Status(file[p])
    /\ cloud \in [Projects -> [Tools -> Ages \cup {Never}]]

\* "nothing ever pretends a device was online" (the program's docstring): the
\* dashboard calls a mirror fresh only if the mirror really holds every item
\* of the last pass, each stored within the staleness limit, whichever calls
\* failed, answers were lost, files were unreadable or passes died in between.
FreshIsHeld ==
    \A p \in Projects : SnapshotState(Observed(p)) = "fresh" =>
        \A t \in DOMAIN file[p].items : cloud[p][t] \in 0 .. StaleAfter

\* Inductive: what the mirror has of a tool is at least as young as every stamp
\* of it, in memory and in the file, and as those its push may yet be given.
Younger(p, t, stamp) == stamp \in Ages => cloud[p][t] \in 0 .. stamp

StampsAreHeld ==
    /\ \A p \in Projects : \A o \in {statuses[p], file[p]} :
          \A t \in DOMAIN o.items : Younger(p, t, o.items[t])
    /\ syncPc = "stored" => \A t \in snapshots :
          Younger(Project, t, attempted) /\ Younger(Project, t, synced)

SyncInv == TypeOK /\ StampsAreHeld
=============================================================================
