--------------------------- MODULE DashboardMonitor ---------------------------
(***************************************************************************)
(* The gateway's own reading of a product's signed authority status: the   *)
(* dashboard's shared view, built by one task at a time and served to all  *)
(* viewers from a cache, the MCP tool's summary, built by each caller for  *)
(* itself, and the revision checkpoint in the database that both pass.     *)
(*                                                                         *)
(* Products are independent of each other, so one is modelled.  A signed   *)
(* document is the claim it makes (a revision and a truth) and its life,   *)
(* the Ticks until it stops being current; everything that waits or is     *)
(* cached ages together, so no clock is needed.  The rest of a view (the   *)
(* probes, the widgets, the activity) is not modelled: it is read afresh   *)
(* by each build and kept nowhere else.                                    *)
(***************************************************************************)
EXTENDS Integers, Sequences, FiniteSets

Seqs == INSTANCE SequencesExt

CONSTANTS
    Viewers,     \* concurrent requests for /admin/dashboard-data
    Callers,     \* concurrent calls of personal_cloud_sync_overview
    Truths,      \* what the authority may say of the product
    MaxRev,      \* bound: highest revision
    DocLife,     \* longest life of a signed document
    CacheTtl,    \* how long a view is current (3 s)
    Refresher,   \* the task poyi-dashboard-refresh
    None         \* no claim, document or view

ASSUME MonitorConstants ==
    /\ MaxRev \in Nat /\ DocLife \in Nat \ {0} /\ CacheTtl \in Nat \ {0}
    /\ Refresher \notin Viewers

Claims == [rev : 0 .. MaxRev, truth : Truths]

ASSUME MonitorNone == None \notin Claims

\* A document, or a view, is a claim it carries (or None) with its life.
Documents == [claim : Claims \cup {None}, life : 0 .. DocLife]
Nothing == [claim |-> None, life |-> 0]

VARIABLES
    checkpoint,   \* the row of authority_revision_checkpoints
    cached,       \* a view is cached
    view,         \* ... and this is what it says
    viewAge,      \* age of the view, up to CacheTtl
    queue,        \* _cache_lock: who waits for it; the first one holds it
    stage,        \* how far the holder's _build_snapshot has come
    building,     \* the document that build carries
    forced,       \* the waiting viewers that asked with force=1
    call,         \* where each summary call stands
    carried,      \* the document each summary call carries
    shown,        \* history: every claim ever shown by either channel
    before,       \* history: the claims shown when a summary call began
    lastView      \* history: the last claim a view showed

lockVars == <<queue, stage, building, forced>>
cacheVars == <<cached, view, viewAge>>
callVars == <<call, carried, before>>
vars == <<checkpoint, cacheVars, lockVars, callVars, shown, lastView>>

Init ==
    /\ checkpoint = None
    /\ cached = FALSE /\ view = Nothing /\ viewAge = 0
    /\ queue = <<>> /\ stage = "none" /\ building = Nothing /\ forced = {}
    /\ call = [c \in Callers |-> "idle"]
    /\ carried = [c \in Callers |-> Nothing]
    /\ shown = {} /\ before = [c \in Callers |-> {}]
    /\ lastView = None

-----------------------------------------------------------------------------
(* Time.                                                                   *)

Aged(d) == [d EXCEPT !.life = IF @ = 0 THEN 0 ELSE @ - 1]

Tick ==
    /\ view' = Aged(view)
    /\ viewAge' = IF cached /\ viewAge < CacheTtl THEN viewAge + 1 ELSE viewAge
    /\ building' = Aged(building)
    /\ carried' = [c \in Callers |-> Aged(carried[c])]
    /\ UNCHANGED <<checkpoint, cached, queue, stage, forced, call, before, shown,
                   lastView>>

-----------------------------------------------------------------------------
(* Verification, and the checkpoint.                                       *)

\* _fetch_authority_truth: the authority, or whatever answers in its place,
\* may replay any document that is still current; or there is no answer, or
\* verify_authority_status rejects it.
Answers == {[claim |-> k, life |-> l] : k \in Claims, l \in 1 .. DocLife}
               \cup {Nothing}

\* Variants of Accepts: one that compares no truths, one that is not strict
\* about the revision.
AcceptsAnyTruth(k) ==
    checkpoint # None => k.rev >= checkpoint.rev

AcceptsAnyRevision(k) ==
    checkpoint # None => k.rev # checkpoint.rev \/ k = checkpoint

\* The WHERE clause of _accept_authority_revision.
Accepts(k) ==
    checkpoint # None => k.rev > checkpoint.rev \/ k = checkpoint

\* _accept_authority_revision on what was fetched: out is left of it.
Checkpointed(d, out) ==
    \/ /\ d.claim # None /\ Accepts(d.claim)
       /\ checkpoint' = d.claim
       /\ out = d
    \/ /\ out = Nothing           \* nothing fetched, a rollback, no database
       /\ UNCHANGED checkpoint

\* What is left of a document when the answer is put together.
Current(d) == IF d.life > 0 THEN d ELSE Nothing

Show(k) == shown' = IF k = None THEN shown ELSE shown \cup {k}

-----------------------------------------------------------------------------
(* The shared view: snapshot, _start_background_refresh, _refresh_cache.   *)

\* _cache_is_current: a view that shows no claim expires only by its age.
CacheCurrent ==
    /\ cached /\ viewAge < CacheTtl
    /\ view.claim = None \/ view.life > 0

\* A viewer is answered with this view.
AnswerView(d) ==
    /\ Show(d.claim)
    /\ lastView' = IF d.claim = None THEN lastView ELSE d.claim

Idle(v) == \A i \in DOMAIN queue : queue[i] # v

\* Variant of AskCached: only a forced request has the view refreshed.
AskCachedForcedOnly(v, force) ==
    /\ Idle(v) /\ cached
    /\ AnswerView(view)
    /\ queue' = IF force /\ Idle(Refresher) THEN Append(queue, Refresher) ELSE queue
    /\ UNCHANGED <<checkpoint, cacheVars, stage, building, forced, callVars>>

\* snapshot() with something cached: answered at once.  A view that is not
\* current, or any at all if force=1, has the one refresh task started.
AskCached(v, force) ==
    /\ Idle(v) /\ cached
    /\ AnswerView(view)
    /\ queue' = IF (force \/ ~CacheCurrent) /\ Idle(Refresher)
                THEN Append(queue, Refresher) ELSE queue
    /\ UNCHANGED <<checkpoint, cacheVars, stage, building, forced, callVars>>

\* snapshot() with nothing cached: wait for the lock.
AskFirst(v, force) ==
    /\ Idle(v) /\ ~cached
    /\ queue' = Append(queue, v)
    /\ forced' = IF force THEN forced \cup {v} ELSE forced
    /\ UNCHANGED <<checkpoint, cacheVars, stage, building, callVars, shown, lastView>>

\* Variant of Release: what the build carried stays behind.
ReleaseKeepingData ==
    /\ queue' = Tail(queue)
    /\ forced' = forced \ {Head(queue)}
    /\ stage' = "none"
    /\ UNCHANGED building

\* The holder lets go of the lock.
Release ==
    /\ queue' = Tail(queue)
    /\ forced' = forced \ {Head(queue)}
    /\ stage' = "none"
    /\ building' = Nothing

\* A waiting viewer gets the lock and finds that another has built the view.
FindBuilt ==
    /\ queue # <<>> /\ stage = "none"
    /\ Head(queue) \in Viewers \ forced
    /\ CacheCurrent
    /\ AnswerView(view)
    /\ Release
    /\ UNCHANGED <<checkpoint, cacheVars, callVars>>

\* Otherwise the holder builds.
StartBuild ==
    /\ queue # <<>> /\ stage = "none"
    /\ Head(queue) \in Viewers \ forced => ~CacheCurrent
    /\ stage' = "fetch"
    /\ UNCHANGED <<checkpoint, cacheVars, queue, building, forced, callVars, shown,
                   lastView>>

BuildFetch ==
    /\ stage = "fetch"
    /\ building' \in Answers
    /\ stage' = "accept"
    /\ UNCHANGED <<checkpoint, cacheVars, queue, forced, callVars, shown, lastView>>

BuildAccept ==
    /\ stage = "accept"
    /\ Checkpointed(building, building')
    /\ stage' = "finish"
    /\ UNCHANGED <<cacheVars, queue, forced, callVars, shown, lastView>>

\* The other tasks of the build are done too: the view is put together and
\* cached, and a viewer that built it is answered.
BuildFinish ==
    /\ stage = "finish"
    /\ cached' = TRUE /\ viewAge' = 0
    /\ view' = Current(building)
    /\ IF Head(queue) \in Viewers
       THEN AnswerView(view') ELSE UNCHANGED <<shown, lastView>>
    /\ Release
    /\ UNCHANGED <<checkpoint, callVars>>

\* A task of the build raised: a waiting viewer is told so, a refresh leaves
\* the last view in place.  (A fetch that is still under way goes on alone; a
\* summary call whose caller is gone does the same to the checkpoint.)
BuildFail ==
    /\ stage # "none"
    /\ Release
    /\ UNCHANGED <<checkpoint, cacheVars, callVars, shown, lastView>>

\* A waiting viewer closes the connection: its task is cancelled.
Cancel(v) ==
    /\ \E i \in DOMAIN queue :
          /\ queue[i] = v
          /\ queue' = Seqs!RemoveAt(queue, i)
          /\ IF i = 1 THEN stage' = "none" /\ building' = Nothing
                      ELSE UNCHANGED <<stage, building>>
    /\ forced' = forced \ {v}
    /\ UNCHANGED <<checkpoint, cacheVars, callVars, shown, lastView>>

-----------------------------------------------------------------------------
(* The summary of the MCP tool: DashboardMonitor.cloud_mcp_summary.        *)

AskSummary(c) ==
    /\ call[c] = "idle"
    /\ call' = [call EXCEPT ![c] = "fetch"]
    /\ before' = [before EXCEPT ![c] = shown]
    /\ UNCHANGED <<checkpoint, cacheVars, lockVars, carried, shown, lastView>>

SummaryFetch(c) ==
    /\ call[c] = "fetch"
    /\ \E d \in Answers : carried' = [carried EXCEPT ![c] = d]
    /\ call' = [call EXCEPT ![c] = "accept"]
    /\ UNCHANGED <<checkpoint, cacheVars, lockVars, before, shown, lastView>>

SummaryAccept(c) ==
    /\ call[c] = "accept"
    /\ \E d \in {carried[c], Nothing} :
          /\ Checkpointed(carried[c], d)
          /\ carried' = [carried EXCEPT ![c] = d]
    /\ call' = [call EXCEPT ![c] = "answer"]
    /\ UNCHANGED <<cacheVars, lockVars, before, shown, lastView>>

\* The call is over, answered or not.
CallOver(c) ==
    /\ call' = [call EXCEPT ![c] = "idle"]
    /\ carried' = [carried EXCEPT ![c] = Nothing]
    /\ before' = [before EXCEPT ![c] = {}]
    /\ UNCHANGED <<checkpoint, cacheVars, lockVars, lastView>>

SummaryAnswer(c) ==
    /\ call[c] = "answer"
    /\ Show(Current(carried[c]).claim)
    /\ CallOver(c)

SummaryLost(c) == call[c] # "idle" /\ CallOver(c) /\ UNCHANGED shown

-----------------------------------------------------------------------------
\* Variant of Restart: the checkpoint was kept in memory.
RestartForgetting ==
    /\ checkpoint' = None
    /\ cached' = FALSE /\ view' = Nothing /\ viewAge' = 0
    /\ queue' = <<>> /\ stage' = "none" /\ building' = Nothing /\ forced' = {}
    /\ call' = [c \in Callers |-> "idle"]
    /\ carried' = [c \in Callers |-> Nothing]
    /\ before' = [c \in Callers |-> {}]
    /\ UNCHANGED <<shown, lastView>>

\* The gateway's process ends and a new one is started: only the database
\* stays.
Restart ==
    /\ cached' = FALSE /\ view' = Nothing /\ viewAge' = 0
    /\ queue' = <<>> /\ stage' = "none" /\ building' = Nothing /\ forced' = {}
    /\ call' = [c \in Callers |-> "idle"]
    /\ carried' = [c \in Callers |-> Nothing]
    /\ before' = [c \in Callers |-> {}]
    /\ UNCHANGED <<checkpoint, shown, lastView>>

Build == FindBuilt \/ StartBuild \/ BuildFetch \/ BuildAccept \/ BuildFinish

SummaryStep(c) ==
    AskSummary(c) \/ SummaryFetch(c) \/ SummaryAccept(c) \/ SummaryAnswer(c)

Next ==
    \/ Tick \/ Build \/ BuildFail \/ Restart
    \/ \E v \in Viewers :
          Cancel(v) \/ \E force \in BOOLEAN : AskCached(v, force) \/ AskFirst(v, force)
    \/ \E c \in Callers : SummaryStep(c) \/ SummaryLost(c)

\* The page of the dashboard asks again every four seconds.
Poll == \E v \in Viewers : AskCached(v, FALSE)

\* Every task of a build has a timeout or is local, so builds go on; an open
\* page polls.
Spec == Init /\ [][Next]_vars /\ WF_vars(Build) /\ WF_vars(Poll)

-----------------------------------------------------------------------------
(* Properties.                                                             *)

\* Types; the lock is fair and held by whoever builds, only the first views
\* are built by viewers, and there is one refresh task at most.
TypeOK ==
    /\ checkpoint \in Claims \cup {None}
    /\ cached \in BOOLEAN /\ view \in Documents /\ viewAge \in 0 .. CacheTtl
    /\ queue \in Seq(Viewers \cup {Refresher})
    /\ \A i, j \in DOMAIN queue : queue[i] = queue[j] => i = j
    /\ stage \in {"none", "fetch", "accept", "finish"}
    /\ stage # "none" => queue # <<>>
    /\ building \in Documents
    /\ stage \in {"none", "fetch"} => building = Nothing
    /\ forced \subseteq {v \in Viewers : ~Idle(v)}
    /\ ~Idle(Refresher) => cached
    /\ call \in [Callers -> {"idle", "fetch", "accept", "answer"}]
    /\ carried \in [Callers -> Documents]
    /\ shown \subseteq Claims /\ before \in [Callers -> SUBSET shown]
    /\ lastView \in Claims \cup {None}

\* However builds and summary calls overlap, and across restarts, no two
\* readers of either channel are ever shown two truths of one revision.
ShownLinear == \A a, b \in shown : a.rev = b.rev => a = b

\* A summary never shows an older claim than one that had been shown, by
\* either channel, when the call began.
NoSummaryRollback ==
    \A c \in Callers :
        call[c] = "answer" /\ carried[c].claim # None =>
            \A k \in before[c] :
                k = carried[c].claim \/ k.rev < carried[c].claim.rev

\* The claims the dashboard shows, one view after the other, also across
\* restarts of the gateway, never go back and never change within a revision.
ViewsNeverRollBack ==
    [][lastView' # lastView =>
          lastView = None \/ lastView.rev < lastView'.rev]_vars

\* While a page polls, an outdated view is replaced, unless builds fail or the
\* gateway restarts for ever: a failed refresh does not prevent the next one.
StaleIsReplaced ==
    \/ []<><<BuildFail>>_vars \/ []<><<Restart>>_vars
    \/ (cached /\ viewAge = CacheTtl) ~> (~cached \/ viewAge < CacheTtl)

\* docs/dashboard.md: a record that has expired is not shown.
ExpiredIsNotShown ==
    [][(\E v \in Viewers, force \in BOOLEAN : AskCached(v, force)) =>
          view.claim = None \/ view.life > 0]_vars
=============================================================================
