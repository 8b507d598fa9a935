------------------------ MODULE DashboardMonitorProofs ------------------------
(* Proofs about DashboardMonitor, for any viewers, callers, truths,        *)
(* revisions and lives: whatever was shown is in one line with what the    *)
(* checkpoint has accepted, for all who look and across restarts.          *)
EXTENDS DashboardMonitor, TLAPS, SequenceTheorems

\* k is what l is, or older.
UpTo(k, l) == k = l \/ k.rev < l.rev

\* A claim, if d carries one.
Carries(d) == d.claim # None

\* What has passed the checkpoint, and is or may still be shown.
Passed(k) ==
    \/ k \in shown
    \/ k = view.claim /\ k # None
    \/ stage = "finish" /\ k = building.claim /\ k # None
    \/ \E c \in Callers : call[c] = "answer" /\ k = carried[c].claim /\ k # None

\* The types that matter here.
Docs ==
    /\ checkpoint \in Claims \cup {None}
    /\ view \in Documents /\ building \in Documents
    /\ carried \in [Callers -> Documents]
    /\ call \in [Callers -> {"idle", "fetch", "accept", "answer"}]
    /\ shown \subseteq Claims
    /\ before \in [Callers -> SUBSET Claims]
    /\ lastView \in Claims \cup {None}

\* The checkpoint is what passed last, and all that passed is in one line.
InLine ==
    /\ \A k : Passed(k) => checkpoint # None /\ UpTo(k, checkpoint)
    /\ \A a, b : Passed(a) /\ Passed(b) /\ a.rev = b.rev => a = b

\* A call knows what was shown when it began, and its answer is no older.
CallsAhead ==
    \A c \in Callers :
        /\ before[c] \subseteq shown
        /\ call[c] = "answer" /\ Carries(carried[c]) =>
               \A k \in before[c] : UpTo(k, carried[c].claim)

\* The last view was shown; the view in the cache is no older than it, and the
\* next one no older than either.
ViewsAhead ==
    /\ lastView # None => lastView \in shown
    /\ Carries(view) /\ lastView # None => UpTo(lastView, view.claim)
    /\ stage = "finish" /\ Carries(building) =>
           /\ lastView # None => UpTo(lastView, building.claim)
           /\ Carries(view) => UpTo(view.claim, building.claim)

MInv == Docs /\ InLine /\ CallsAhead /\ ViewsAhead

-----------------------------------------------------------------------------
\* Documents stay documents.
LEMMA DocTypes ==
    /\ Nothing \in Documents /\ Nothing.claim = None
    /\ \A d \in Documents :
          /\ d.claim \in Claims \cup {None}
          /\ Aged(d) \in Documents /\ Aged(d).claim = d.claim
          /\ Current(d) \in Documents /\ Current(d).claim \in {d.claim, None}
    /\ Answers \subseteq Documents
<1> USE MonitorConstants DEF Documents, Nothing
<1>1. Nothing \in Documents /\ Nothing.claim = None
    OBVIOUS
<1>2. ASSUME NEW d \in Documents
      PROVE  d.claim \in Claims \cup {None} /\ Aged(d) \in Documents /\ Aged(d).claim = d.claim
    BY DEF Aged
<1>3. ASSUME NEW d \in Documents
      PROVE  Current(d) \in Documents /\ Current(d).claim \in {d.claim, None}
    BY <1>1 DEF Current
<1>4. Answers \subseteq Documents
    BY <1>1 DEF Answers
<1> QED BY <1>1, <1>2, <1>3, <1>4

LEMMA ClaimTypes == \A k \in Claims : k.rev \in Nat /\ k # None
BY MonitorConstants, MonitorNone DEF Claims

LEMMA PassedTypes == ASSUME Docs, NEW k, Passed(k) PROVE k \in Claims
BY DocTypes DEF Docs, Passed

\* What passes nothing new keeps the line ...
LEMMA LineKept ==
    ASSUME InLine, UNCHANGED checkpoint, \A k : Passed(k)' => Passed(k)
    PROVE  InLine'
BY DEF InLine, UpTo

\* What passed is no newer than a checkpoint that is accepted after it.
LEMMA PassedBefore ==
    ASSUME Docs, InLine, checkpoint' \in Claims,
           checkpoint # None => UpTo(checkpoint, checkpoint'), NEW k, Passed(k)
    PROVE  UpTo(k, checkpoint')
<1>1. k \in Claims /\ checkpoint \in Claims /\ UpTo(k, checkpoint)
    BY PassedTypes DEF InLine, Docs
<1> QED BY <1>1, ClaimTypes DEF UpTo

\* ... and so does a new checkpoint that is newer than the last one, or the same.
LEMMA LineGrows ==
    ASSUME Docs, InLine, checkpoint' \in Claims,
           checkpoint # None => UpTo(checkpoint, checkpoint'),
           \A k : Passed(k)' => Passed(k) \/ k = checkpoint'
    PROVE  InLine'
<1>1. ASSUME NEW k, Passed(k)
      PROVE  k \in Claims /\ checkpoint \in Claims /\ UpTo(k, checkpoint)
    BY <1>1, PassedTypes DEF InLine, Docs
<1>2. ASSUME NEW k, Passed(k) PROVE UpTo(k, checkpoint')
    BY <1>2, PassedBefore
<1>3. ASSUME NEW a, NEW b, Passed(a)', Passed(b)', a.rev = b.rev PROVE a = b
    <2>1. CASE Passed(a) /\ Passed(b)
        BY <1>3, <2>1 DEF InLine
    <2>2. CASE Passed(a) /\ b = checkpoint'
        BY <1>1, <1>2, <1>3, <2>2, ClaimTypes DEF UpTo
    <2>3. CASE a = checkpoint' /\ Passed(b)
        BY <1>1, <1>2, <1>3, <2>3, ClaimTypes DEF UpTo
    <2> QED BY <1>3, <2>1, <2>2, <2>3
<1>4. checkpoint' # None
    BY ClaimTypes
<1>5. \A k : Passed(k)' => UpTo(k, checkpoint')
    BY <1>2 DEF UpTo
<1> QED BY <1>3, <1>4, <1>5 DEF InLine

\* A document that passes _accept_authority_revision: it is the new checkpoint,
\* which is no older than the last one.
LEMMA CheckpointedClaim ==
    ASSUME Docs, NEW d \in Documents, NEW out, Checkpointed(d, out)
    PROVE  \/ /\ out = d /\ d.claim \in Claims /\ checkpoint' = d.claim
              /\ checkpoint # None => UpTo(checkpoint, checkpoint')
           \/ out = Nothing /\ UNCHANGED checkpoint
<1>1. checkpoint # None => checkpoint.rev \in Nat
    BY ClaimTypes DEF Docs
<1>2. CASE d.claim # None /\ Accepts(d.claim) /\ checkpoint' = d.claim /\ out = d
    <2>1. d.claim \in Claims
        BY <1>2, DocTypes
    <2>2. d.claim.rev \in Nat
        BY <2>1, ClaimTypes
    <2> QED BY <1>1, <1>2, <2>1, <2>2 DEF Accepts, UpTo
<1> QED BY <1>2 DEF Checkpointed

-----------------------------------------------------------------------------
(* The steps.                                                              *)

\* Time, and all that neither fetches, accepts nor shows.
LEMMA QuietStep ==
    ASSUME MInv,
           \/ Tick \/ StartBuild \/ BuildFail \/ Restart \/ UNCHANGED vars
           \/ \E v \in Viewers :
                 Cancel(v) \/ \E force \in BOOLEAN : AskFirst(v, force)
           \/ \E c \in Callers : AskSummary(c) \/ SummaryLost(c)
    PROVE  MInv'
<1> USE DocTypes DEF MInv, Docs
<1>1. CASE Tick
    <2>1. /\ view'.claim = view.claim /\ building'.claim = building.claim
          /\ \A c \in Callers : carried'[c].claim = carried[c].claim
          /\ UNCHANGED <<checkpoint, stage, call, before, shown, lastView>>
        BY <1>1 DEF Tick
    <2>2. Docs'
        BY <1>1 DEF Tick
    <2>3. \A k : Passed(k)' => Passed(k)
        BY <2>1 DEF Passed
    <2>4. InLine'
        BY <2>1, <2>3, LineKept
    <2>5. CallsAhead'
        BY <2>1 DEF CallsAhead, Carries, UpTo
    <2>6. ViewsAhead'
        BY <2>1 DEF ViewsAhead, Carries, UpTo
    <2> QED BY <2>2, <2>4, <2>5, <2>6
<1>2. CASE StartBuild \/ BuildFail \/ UNCHANGED vars
           \/ \E v \in Viewers :
                 Cancel(v) \/ \E force \in BOOLEAN : AskFirst(v, force)
    <2>1. /\ UNCHANGED <<checkpoint, view, call, carried, before, shown, lastView>>
          /\ stage' = "finish" => stage = "finish" /\ building' = building
          /\ building' \in {building, Nothing}
        BY <1>2 DEF StartBuild, BuildFail, Release, Cancel, AskFirst, vars, cacheVars,
                    lockVars, callVars
    <2>2. Docs'
        BY <2>1
    <2>3. \A k : Passed(k)' => Passed(k)
        BY <2>1 DEF Passed
    <2>4. InLine'
        BY <2>1, <2>3, LineKept
    <2>5. CallsAhead'
        BY <2>1 DEF CallsAhead, Carries, UpTo
    <2>6. ViewsAhead'
        BY <2>1 DEF ViewsAhead, Carries, UpTo
    <2> QED BY <2>2, <2>4, <2>5, <2>6
<1>3. CASE Restart
    <2>1. Docs'
        BY <1>3 DEF Restart
    <2>2. \A k : Passed(k)' => Passed(k)
        BY <1>3 DEF Restart, Passed
    <2>3. InLine'
        BY <1>3, <2>2, LineKept DEF Restart
    <2>4. CallsAhead'
        BY <1>3 DEF Restart, CallsAhead, Carries
    <2>5. ViewsAhead'
        BY <1>3 DEF Restart, ViewsAhead, Carries
    <2> QED BY <2>1, <2>3, <2>4, <2>5
<1>4. ASSUME NEW c \in Callers, AskSummary(c) PROVE MInv'
    <2>1. Docs'
        BY <1>4 DEF AskSummary, cacheVars, lockVars
    <2>2. \A k : Passed(k)' => Passed(k)
        BY <1>4 DEF AskSummary, Passed, cacheVars, lockVars
    <2>3. InLine'
        BY <1>4, <2>2, LineKept DEF AskSummary
    <2>4. CallsAhead'
        BY <1>4 DEF AskSummary, CallsAhead, Carries, UpTo, cacheVars, lockVars
    <2>5. ViewsAhead'
        BY <1>4 DEF AskSummary, ViewsAhead, Carries, UpTo, cacheVars, lockVars
    <2> QED BY <2>1, <2>3, <2>4, <2>5
<1>5. ASSUME NEW c \in Callers, SummaryLost(c) PROVE MInv'
    <2>1. Docs'
        BY <1>5 DEF SummaryLost, CallOver, cacheVars, lockVars
    <2>2. \A k : Passed(k)' => Passed(k)
        BY <1>5 DEF SummaryLost, CallOver, Passed, cacheVars, lockVars
    <2>3. InLine'
        BY <1>5, <2>2, LineKept DEF SummaryLost, CallOver
    <2>4. CallsAhead'
        BY <1>5 DEF SummaryLost, CallOver, CallsAhead, Carries, UpTo
    <2>5. ViewsAhead'
        BY <1>5 DEF SummaryLost, CallOver, ViewsAhead, Carries, UpTo, cacheVars, lockVars
    <2> QED BY <2>1, <2>3, <2>4, <2>5
<1> QED BY <1>1, <1>2, <1>3, <1>4, <1>5

\* A viewer is shown the cached view.
LEMMA ShownFromCache ==
    ASSUME MInv, AnswerView(view),
           UNCHANGED <<checkpoint, view, callVars>>,
           building' \in {building, Nothing},
           stage' = "finish" => stage = "finish" /\ building' = building
    PROVE  MInv'
<1> USE DocTypes DEF MInv, Docs
<1>1. /\ shown' = IF Carries(view) THEN shown \cup {view.claim} ELSE shown
      /\ lastView' = IF Carries(view) THEN view.claim ELSE lastView
    BY DEF AnswerView, Show, Carries
<1>2. Docs'
    BY <1>1 DEF callVars, Carries
<1>3. \A k : Passed(k)' => Passed(k)
    BY <1>1 DEF Passed, Carries, callVars
<1>4. InLine'
    BY <1>3, LineKept
<1>5. CallsAhead'
    BY <1>1 DEF CallsAhead, Carries, callVars, UpTo
<1>6. ViewsAhead'
    BY <1>1 DEF ViewsAhead, Carries, UpTo
<1> QED BY <1>2, <1>4, <1>5, <1>6

LEMMA ViewStep ==
    ASSUME MInv,
           \/ FindBuilt \/ BuildFinish
           \/ \E v \in Viewers, force \in BOOLEAN : AskCached(v, force)
    PROVE  MInv'
<1>1. CASE FindBuilt \/ \E v \in Viewers, force \in BOOLEAN : AskCached(v, force)
    <2>1. /\ AnswerView(view)
          /\ UNCHANGED <<checkpoint, view, callVars>>
          /\ building' \in {building, Nothing}
          /\ stage' = "finish" => stage = "finish" /\ building' = building
        BY <1>1 DEF FindBuilt, AskCached, Release, cacheVars
    <2> QED BY <2>1, ShownFromCache
<1>2. CASE BuildFinish
    <2> USE DocTypes DEF MInv, Docs
    <2>1. /\ view' = Current(building) /\ stage = "finish"
          /\ stage' = "none" /\ building' = Nothing
          /\ UNCHANGED <<checkpoint, call, carried, before>>
        BY <1>2 DEF BuildFinish, Release, callVars
    <2>2. \/ /\ Carries(view') /\ lastView' = view'.claim
             /\ shown' = shown \cup {view'.claim}
          \/ UNCHANGED <<shown, lastView>>
        BY <1>2 DEF BuildFinish, AnswerView, Show, Carries
    <2>3. Carries(view') => Carries(building) /\ view'.claim = building.claim
        BY <2>1 DEF Carries
    <2>4. Docs'
        BY <2>1, <2>2, <2>3 DEF Carries
    <2>5. \A k : Passed(k)' => Passed(k)
        BY <2>1, <2>2, <2>3 DEF Passed, Carries
    <2>6. InLine'
        BY <2>1, <2>5, LineKept
    <2>7. CallsAhead'
        BY <2>1, <2>2 DEF CallsAhead, Carries, UpTo
    <2>8. ViewsAhead'
        BY <2>1, <2>2, <2>3 DEF ViewsAhead, Carries, UpTo
    <2> QED BY <2>4, <2>6, <2>7, <2>8
<1> QED BY <1>1, <1>2

\* The answer of a summary call shows what the call carries.
LEMMA AnswerStep == ASSUME MInv, NEW c \in Callers, SummaryAnswer(c) PROVE MInv'
<1> USE DocTypes DEF MInv, Docs
<1>1. /\ call[c] = "answer"
      /\ \/ /\ Carries(carried[c]) /\ shown' = shown \cup {carried[c].claim}
         \/ shown' = shown
      /\ UNCHANGED <<checkpoint, view, stage, building, lastView>>
    BY DEF SummaryAnswer, Show, Carries, CallOver, cacheVars, lockVars
<1>2. /\ call' = [call EXCEPT ![c] = "idle"]
      /\ carried' = [carried EXCEPT ![c] = Nothing]
      /\ before' = [before EXCEPT ![c] = {}]
    BY DEF SummaryAnswer, CallOver
<1>3. Docs'
    BY <1>1, <1>2 DEF Carries
<1>4. \A k : Passed(k)' => Passed(k)
    BY <1>1, <1>2 DEF Passed, Carries
<1>5. InLine'
    BY <1>1, <1>4, LineKept
<1>6. CallsAhead'
    BY <1>1, <1>2 DEF CallsAhead, Carries, UpTo
<1>7. ViewsAhead'
    BY <1>1 DEF ViewsAhead, Carries, UpTo
<1> QED BY <1>3, <1>5, <1>6, <1>7

\* What is fetched has not passed yet.
LEMMA FetchStep ==
    ASSUME MInv, BuildFetch \/ \E c \in Callers : SummaryFetch(c)
    PROVE  MInv'
<1> USE DocTypes DEF MInv, Docs
<1>1. CASE BuildFetch
    <2>1. /\ stage' = "accept" /\ building' \in Documents
          /\ UNCHANGED <<checkpoint, view, call, carried, before, shown, lastView>>
        BY <1>1 DEF BuildFetch, cacheVars, callVars
    <2>2. \A k : Passed(k)' => Passed(k)
        BY <2>1 DEF Passed
    <2>3. InLine'
        BY <2>1, <2>2, LineKept
    <2> QED BY <2>1, <2>3 DEF CallsAhead, ViewsAhead, Carries, UpTo
<1>2. ASSUME NEW c \in Callers, SummaryFetch(c) PROVE MInv'
    <2>1. PICK d \in Answers : carried' = [carried EXCEPT ![c] = d]
        BY <1>2 DEF SummaryFetch
    <2>2. /\ call' = [call EXCEPT ![c] = "accept"]
          /\ UNCHANGED <<checkpoint, view, stage, building, before, shown, lastView>>
        BY <1>2 DEF SummaryFetch, cacheVars, lockVars
    <2>3. Docs'
        BY <2>1, <2>2
    <2>4. \A k : Passed(k)' => Passed(k)
        BY <2>1, <2>2 DEF Passed
    <2>5. InLine'
        BY <2>2, <2>4, LineKept
    <2>6. CallsAhead'
        BY <2>1, <2>2 DEF CallsAhead, Carries, UpTo
    <2> QED BY <2>2, <2>3, <2>5, <2>6 DEF ViewsAhead, Carries, UpTo
<1> QED BY <1>1, <1>2

\* What passes the checkpoint is no older than anything that passed before.
LEMMA AcceptStep ==
    ASSUME MInv, BuildAccept \/ \E c \in Callers : SummaryAccept(c)
    PROVE  MInv'
<1> USE DocTypes DEF MInv, Docs
<1>1. CASE BuildAccept
    <2>1. /\ stage' = "finish"
          /\ UNCHANGED <<view, call, carried, before, shown, lastView>>
        BY <1>1 DEF BuildAccept, cacheVars, callVars
    <2>2. CASE building' = Nothing /\ UNCHANGED checkpoint
        <3>1. \A k : Passed(k)' => Passed(k)
            BY <2>1, <2>2 DEF Passed
        <3>2. InLine'
            BY <2>2, <3>1, LineKept
        <3> QED BY <2>1, <2>2, <3>2 DEF CallsAhead, ViewsAhead, Carries, UpTo
    <2>3. CASE /\ building' = building /\ building.claim \in Claims
               /\ checkpoint' = building.claim
               /\ checkpoint # None => UpTo(checkpoint, checkpoint')
        <3>1. \A k : Passed(k)' => Passed(k) \/ k = checkpoint'
            BY <2>1, <2>3 DEF Passed
        <3>2. InLine'
            BY <2>3, <3>1, LineGrows
        <3>3. \A k : Passed(k) => UpTo(k, checkpoint')
            BY <2>3, PassedBefore
        <3>4. ViewsAhead'
            BY <2>1, <2>3, <3>3 DEF ViewsAhead, Carries, UpTo, Passed
        <3>5. CallsAhead'
            BY <2>1 DEF CallsAhead, Carries, UpTo
        <3>6. Docs'
            BY <2>1, <2>3
        <3> QED BY <3>2, <3>4, <3>5, <3>6
    <2>4. Checkpointed(building, building')
        BY <1>1 DEF BuildAccept
    <2> QED BY <2>2, <2>3, <2>4, CheckpointedClaim
<1>2. ASSUME NEW c \in Callers, SummaryAccept(c) PROVE MInv'
    <2>1. PICK d \in {carried[c], Nothing} :
              Checkpointed(carried[c], d) /\ carried' = [carried EXCEPT ![c] = d]
        BY <1>2 DEF SummaryAccept
    <2>2. /\ call' = [call EXCEPT ![c] = "answer"] /\ call[c] = "accept"
          /\ UNCHANGED <<view, stage, building, before, shown, lastView>>
        BY <1>2 DEF SummaryAccept, cacheVars, lockVars
    <2>3. CASE d = Nothing /\ UNCHANGED checkpoint
        <3>1. \A k : Passed(k)' => Passed(k)
            BY <2>1, <2>2, <2>3 DEF Passed
        <3>2. InLine'
            BY <2>3, <3>1, LineKept
        <3>3. CallsAhead'
            BY <2>1, <2>2, <2>3 DEF CallsAhead, Carries, UpTo
        <3>4. Docs'
            BY <2>1, <2>2, <2>3
        <3> QED BY <2>2, <3>2, <3>3, <3>4 DEF ViewsAhead, Carries, UpTo
    <2>4. CASE /\ d = carried[c] /\ d.claim \in Claims /\ checkpoint' = d.claim
               /\ checkpoint # None => UpTo(checkpoint, checkpoint')
        <3>1. \A k : Passed(k)' => Passed(k) \/ k = checkpoint'
            BY <2>1, <2>2, <2>4 DEF Passed
        <3>2. InLine'
            BY <2>4, <3>1, LineGrows
        <3>3. \A k \in shown : UpTo(k, checkpoint')
            BY <2>4, PassedBefore DEF Passed
        <3>4. CallsAhead'
            BY <2>1, <2>2, <2>4, <3>3 DEF CallsAhead, Carries, UpTo
        <3>5. Docs'
            BY <2>1, <2>2, <2>4
        <3> QED BY <2>2, <3>2, <3>4, <3>5 DEF ViewsAhead, Carries, UpTo
    <2>5. carried[c] \in Documents
        OBVIOUS
    <2> QED BY <2>1, <2>3, <2>4, <2>5, CheckpointedClaim
<1> QED BY <1>1, <1>2

LEMMA MonitorInvariant == Spec => []MInv
<1>1. Init => MInv
    <2>1. Init => Docs
        BY DocTypes DEF Init, Docs
    <2>2. Init => \A k : ~Passed(k)
        BY DocTypes DEF Init, Passed
    <2>3. Init => InLine
        BY <2>2 DEF InLine
    <2>4. Init => CallsAhead /\ ViewsAhead
        BY DocTypes DEF Init, CallsAhead, ViewsAhead, Carries
    <2> QED BY <2>1, <2>3, <2>4 DEF MInv
<1>2. MInv /\ [Next]_vars => MInv'
    BY QuietStep, ViewStep, AnswerStep, FetchStep, AcceptStep DEF Next, Build, SummaryStep
<1> QED BY <1>1, <1>2, PTL DEF Spec

-----------------------------------------------------------------------------
\* No two readers of either channel are ever shown two truths of one revision.
THEOREM ShownIsLinear == Spec => []ShownLinear
<1>1. MInv => ShownLinear
    BY DEF MInv, InLine, Passed, ShownLinear
<1> QED BY <1>1, MonitorInvariant, PTL

\* A summary is no older than what had been shown when its call began.
THEOREM SummaryIsNotOlder == Spec => []NoSummaryRollback
<1>1. MInv => NoSummaryRollback
    BY DEF MInv, CallsAhead, Carries, UpTo, NoSummaryRollback
<1> QED BY <1>1, MonitorInvariant, PTL

\* One view after the other, also across restarts, the dashboard never goes
\* back and never changes its mind within a revision.
THEOREM ViewsGoForward == Spec => ViewsNeverRollBack
<1> DEFINE Forward == lastView' # lastView => lastView = None \/ lastView.rev < lastView'.rev
<1>1. ASSUME MInv, AnswerView(view) PROVE Forward
    BY <1>1 DEF MInv, ViewsAhead, AnswerView, Carries, UpTo
<1>2. ASSUME MInv, BuildFinish PROVE Forward
    <2>1. stage = "finish" /\ Current(building).claim \in {building.claim, None}
        BY <1>2, DocTypes DEF BuildFinish, MInv, Docs
    <2>2. lastView' \in {lastView, Current(building).claim}
        BY <1>2 DEF BuildFinish, AnswerView
    <2>3. lastView' # lastView => Carries(building) /\ lastView' = building.claim
        BY <1>2, <2>1, <2>2 DEF BuildFinish, AnswerView, Carries
    <2> QED BY <1>2, <2>1, <2>3 DEF MInv, ViewsAhead, UpTo
<1>3. MInv /\ [Next]_vars => [Forward]_vars
    <2> SUFFICES ASSUME MInv, [Next]_vars PROVE Forward
        OBVIOUS
    <2>1. \/ UNCHANGED lastView \/ AnswerView(view) \/ BuildFinish
        BY DEF Next, Tick, Build, FindBuilt, StartBuild, BuildFetch, BuildAccept,
               BuildFail, Restart, Cancel, AskCached, AskFirst, SummaryStep, AskSummary,
               SummaryFetch, SummaryAccept, SummaryAnswer, SummaryLost, CallOver, vars
    <2> QED BY <2>1, <1>1, <1>2
<1>4. Forward <=> (lastView' # lastView => lastView = None \/ lastView.rev < lastView'.rev)
    OBVIOUS
<1> QED BY <1>3, <1>4, MonitorInvariant, PTL DEF Spec, ViewsNeverRollBack

-----------------------------------------------------------------------------
(* The lock.                                                               *)

Tasks == Viewers \cup {Refresher}

\* v is in line for the lock in q; nobody is so twice.
Waits(q, v) == \E i \in DOMAIN q : q[i] = v

OneEach(q) == \A i, j \in DOMAIN q : q[i] = q[j] => i = j

\* What TypeOK says of the lock and of the cache beyond what MInv does.
Lock ==
    /\ queue \in Seq(Tasks) /\ OneEach(queue)
    /\ stage \in {"none", "fetch", "accept", "finish"}
    /\ stage # "none" => queue # <<>>
    /\ stage \in {"none", "fetch"} => building = Nothing
    /\ forced \subseteq {v \in Viewers : Waits(queue, v)}
    /\ Waits(queue, Refresher) => cached
    /\ cached \in BOOLEAN /\ viewAge \in 0 .. CacheTtl

\* One more comes to the end of the line.
LEMMA Queued ==
    ASSUME NEW q \in Seq(Tasks), OneEach(q), NEW v \in Tasks, ~Waits(q, v)
    PROVE  /\ Append(q, v) \in Seq(Tasks) /\ OneEach(Append(q, v))
           /\ Append(q, v) # <<>>
           /\ \A w : Waits(Append(q, v), w) <=> Waits(q, w) \/ w = v
<1> DEFINE p == Append(q, v)
<1>1. /\ p \in Seq(Tasks) /\ p # <<>>
      /\ DOMAIN q = 1 .. Len(q) /\ DOMAIN p = 1 .. Len(q) + 1 /\ Len(q) \in Nat
    OBVIOUS
<1>2. \A i \in 1 .. Len(q) : p[i] = q[i]
    OBVIOUS
<1>3. p[Len(q) + 1] = v
    OBVIOUS
<1> HIDE DEF p
<1>4. OneEach(p)
    <2> SUFFICES ASSUME NEW i \in DOMAIN p, NEW j \in DOMAIN p, p[i] = p[j]
                 PROVE  i = j
        BY DEF OneEach
    <2>1. CASE i \in 1 .. Len(q) /\ j \in 1 .. Len(q)
        BY <1>1, <1>2, <2>1 DEF OneEach
    <2>2. CASE i \in 1 .. Len(q) /\ j = Len(q) + 1
        BY <1>1, <1>2, <1>3, <2>2 DEF Waits
    <2>3. CASE i = Len(q) + 1 /\ j \in 1 .. Len(q)
        BY <1>1, <1>2, <1>3, <2>3 DEF Waits
    <2> QED BY <1>1, <2>1, <2>2, <2>3
<1>5. ASSUME NEW w PROVE Waits(p, w) <=> Waits(q, w) \/ w = v
    <2>1. ASSUME NEW i \in DOMAIN p, p[i] = w PROVE Waits(q, w) \/ w = v
        BY <1>1, <1>2, <1>3, <2>1 DEF Waits
    <2>2. Waits(q, w) => Waits(p, w)
        BY <1>1, <1>2 DEF Waits
    <2>3. w = v => Waits(p, w)
        BY <1>1, <1>3 DEF Waits
    <2> QED BY <2>1, <2>2, <2>3 DEF Waits
<1> QED BY <1>1, <1>4, <1>5 DEF p

\* The one at place k leaves the line: all others stay, in their order.
LEMMA Left ==
    ASSUME NEW q \in Seq(Tasks), OneEach(q), NEW k \in DOMAIN q, NEW p \in Seq(Tasks),
           Len(p) = Len(q) - 1,
           \A i \in 1 .. Len(p) : p[i] = IF i < k THEN q[i] ELSE q[i + 1]
    PROVE  /\ OneEach(p)
           /\ \A w : Waits(p, w) <=> Waits(q, w) /\ w # q[k]
           /\ k # 1 => p # <<>>
<1>1. /\ DOMAIN q = 1 .. Len(q) /\ DOMAIN p = 1 .. Len(p)
      /\ Len(q) \in Nat /\ Len(p) \in Nat /\ k \in 1 .. Len(q)
    OBVIOUS
<1>2. OneEach(p)
    <2> SUFFICES ASSUME NEW i \in DOMAIN p, NEW j \in DOMAIN p, p[i] = p[j]
                 PROVE  i = j
        BY DEF OneEach
    <2> DEFINE At(n) == IF n < k THEN n ELSE n + 1
    <2>1. At(i) \in DOMAIN q /\ At(j) \in DOMAIN q /\ q[At(i)] = q[At(j)]
        BY <1>1
    <2>2. At(i) = At(j)
        BY <2>1 DEF OneEach
    <2> QED BY <1>1, <2>2
<1>3. ASSUME NEW w, Waits(p, w) PROVE Waits(q, w) /\ w # q[k]
    <2>1. PICK i \in DOMAIN p : p[i] = w
        BY <1>3 DEF Waits
    <2> DEFINE n == IF i < k THEN i ELSE i + 1
    <2>2. n \in DOMAIN q /\ q[n] = w /\ n # k
        BY <1>1, <2>1
    <2> QED BY <2>2 DEF OneEach, Waits
<1>4. ASSUME NEW w, Waits(q, w), w # q[k] PROVE Waits(p, w)
    <2>1. PICK i \in DOMAIN q : q[i] = w
        BY <1>4 DEF Waits
    <2> DEFINE n == IF i < k THEN i ELSE i - 1
    <2>2. n \in DOMAIN p /\ p[n] = w
        BY <1>1, <1>4, <2>1
    <2> QED BY <2>2 DEF Waits
<1>5. k # 1 => p # <<>>
    BY <1>1
<1> QED BY <1>2, <1>3, <1>4, <1>5

\* The holder is the one at the first place ...
LEMMA LeftFirst ==
    ASSUME NEW q \in Seq(Tasks), OneEach(q), q # <<>>
    PROVE  /\ Tail(q) \in Seq(Tasks) /\ OneEach(Tail(q)) /\ Head(q) = q[1]
           /\ \A w : Waits(Tail(q), w) <=> Waits(q, w) /\ w # Head(q)
<1> DEFINE p == Tail(q)
<1>1. p \in Seq(Tasks) /\ Len(p) = Len(q) - 1 /\ \A i \in 1 .. Len(p) : p[i] = q[i + 1]
    BY HeadTailProperties
<1>2. Head(q) = q[1] /\ 1 \in DOMAIN q
    OBVIOUS
<1> HIDE DEF p
<1>3. \A i \in 1 .. Len(p) : p[i] = IF i < 1 THEN q[i] ELSE q[i + 1]
    BY <1>1
<1>4. OneEach(p) /\ \A w : Waits(p, w) <=> Waits(q, w) /\ w # q[1]
    BY <1>1, <1>2, <1>3, Left
<1> QED BY <1>1, <1>2, <1>4 DEF p

\* ... and one who gives up may be at any.
LEMMA LeftAnywhere ==
    ASSUME NEW q \in Seq(Tasks), OneEach(q), NEW k \in DOMAIN q
    PROVE  LET p == Seqs!RemoveAt(q, k)
           IN  /\ p \in Seq(Tasks) /\ OneEach(p)
               /\ \A w : Waits(p, w) <=> Waits(q, w) /\ w # q[k]
               /\ k # 1 => p # <<>>
<1> DEFINE a == SubSeq(q, 1, k - 1)
           b == SubSeq(q, k + 1, Len(q))
           p == Seqs!RemoveAt(q, k)
<1>1. DOMAIN q = 1 .. Len(q) /\ Len(q) \in Nat /\ k \in 1 .. Len(q)
    OBVIOUS
<1>2. a \in Seq(Tasks) /\ Len(a) = k - 1 /\ \A i \in 1 .. k - 1 : a[i] = q[i]
    BY <1>1
<1>3. /\ b \in Seq(Tasks) /\ Len(b) = Len(q) - k
      /\ \A i \in 1 .. Len(q) - k : b[i] = q[k + i]
    BY <1>1
<1>4. p = a \o b
    BY DEF Seqs!RemoveAt
<1> HIDE DEF a, b, p
<1>5. /\ p \in Seq(Tasks) /\ Len(p) = Len(a) + Len(b)
      /\ \A i \in 1 .. Len(p) : p[i] = IF i <= Len(a) THEN a[i] ELSE b[i - Len(a)]
    BY <1>2, <1>3, <1>4, ConcatProperties
<1>6. Len(p) = Len(q) - 1
    BY <1>1, <1>2, <1>3, <1>5
<1>7. ASSUME NEW i \in 1 .. Len(p) PROVE p[i] = IF i < k THEN q[i] ELSE q[i + 1]
    <2>1. CASE i < k
        BY <1>1, <1>2, <1>5, <2>1
    <2>2. CASE ~(i < k)
        <3>1. p[i] = b[i - Len(a)] /\ Len(a) = k - 1
            BY <1>1, <1>2, <1>5, <2>2
        <3>2. i - (k - 1) \in 1 .. Len(q) - k
            BY <1>1, <1>6, <2>2
        <3>3. k + (i - (k - 1)) = i + 1
            BY <1>1, <1>6
        <3>4. b[i - (k - 1)] = q[k + (i - (k - 1))]
            BY <1>3, <3>2
        <3> QED BY <2>2, <3>1, <3>3, <3>4
    <2> QED BY <2>1, <2>2
<1>8. OneEach(p) /\ (\A w : Waits(p, w) <=> Waits(q, w) /\ w # q[k]) /\ (k # 1 => p # <<>>)
    BY <1>5, <1>6, <1>7, Left
<1> QED BY <1>5, <1>8 DEF p


LEMMA IdleTypes == \A v : Idle(v) <=> ~Waits(queue, v)
BY DEF Idle, Waits

LEMMA NobodyWaits ==
    ASSUME NEW q, q = <<>>
    PROVE  q \in Seq(Tasks) /\ OneEach(q) /\ \A w : ~Waits(q, w)
BY DEF Waits, OneEach

\* Lock after a step speaks of the line after it.
LEMMA LineAfter ==
    (OneEach(queue)' <=> OneEach(queue')) /\ \A w : Waits(queue, w)' <=> Waits(queue', w)
BY DEF Waits, OneEach

\* The holder leaves, and what it carried with it.
LEMMA HolderLeaves ==
    ASSUME Lock, queue # <<>>, Release, cached' \in BOOLEAN, cached => cached',
           viewAge' \in 0 .. CacheTtl
    PROVE  Lock'
<1>1. queue' = Tail(queue) /\ stage' = "none" /\ building' = Nothing
      /\ forced' = forced \ {Head(queue)}
    BY DEF Release
<1>2. /\ queue' \in Seq(Tasks) /\ OneEach(queue')
      /\ \A w : Waits(queue', w) <=> Waits(queue, w) /\ w # Head(queue)
    BY <1>1, LeftFirst DEF Lock
<1> QED BY <1>1, <1>2, LineAfter DEF Lock

\* One who is not in line comes to its end.
LEMMA TaskComes ==
    ASSUME Lock, NEW v \in Tasks, ~Waits(queue, v), queue' = Append(queue, v),
           UNCHANGED <<stage, building, cacheVars>>,
           forced' \subseteq {w \in Viewers : w \in forced \/ w = v},
           v = Refresher => cached
    PROVE  Lock'
<1>1. /\ queue' \in Seq(Tasks) /\ OneEach(queue') /\ queue' # <<>>
      /\ \A w : Waits(queue', w) <=> Waits(queue, w) \/ w = v
    BY Queued DEF Lock
<1> QED BY <1>1, LineAfter DEF Lock, cacheVars

LEMMA LockKept ==
    ASSUME Lock, Docs, [Next]_vars PROVE Lock'
<1>1. CASE UNCHANGED vars \/ \E c \in Callers : SummaryStep(c) \/ SummaryLost(c)
    <2>1. UNCHANGED <<cacheVars, lockVars>>
        BY <1>1 DEF vars, SummaryStep, AskSummary, SummaryFetch, SummaryAccept,
                    SummaryAnswer, SummaryLost, CallOver
    <2> QED BY <2>1 DEF Lock, cacheVars, lockVars, Waits, OneEach
<1>2. CASE Tick
    <2>1. UNCHANGED <<queue, stage, forced, cached>>
        BY <1>2 DEF Tick
    <2>2. Aged(Nothing) = Nothing
        BY DEF Aged, Nothing
    <2>3. viewAge' \in 0 .. CacheTtl
        BY <1>2, MonitorConstants DEF Tick, Lock
    <2> QED BY <1>2, <2>1, <2>2, <2>3 DEF Tick, Lock, Waits, OneEach
<1>3. CASE Restart
    <2>1. /\ queue' = <<>> /\ stage' = "none" /\ building' = Nothing /\ forced' = {}
          /\ cached' = FALSE /\ viewAge' = 0
        BY <1>3 DEF Restart
    <2>2. queue' \in Seq(Tasks) /\ OneEach(queue') /\ \A w : ~Waits(queue', w)
        BY <2>1, NobodyWaits
    <2>3. viewAge' \in 0 .. CacheTtl
        BY <2>1, MonitorConstants
    <2> QED BY <2>1, <2>2, <2>3, LineAfter DEF Lock
<1>4. CASE StartBuild \/ BuildFetch \/ BuildAccept
    <2>1. /\ UNCHANGED <<queue, forced, cacheVars>> /\ queue # <<>>
          /\ stage' \in {"fetch", "accept", "finish"}
          /\ stage' = "fetch" => building' = Nothing
        BY <1>4 DEF StartBuild, BuildFetch, BuildAccept, Lock
    <2> QED BY <2>1 DEF Lock, cacheVars, Waits, OneEach
<1>5. CASE FindBuilt \/ BuildFinish \/ BuildFail
    <2>1. Release /\ queue # <<>>
        BY <1>5 DEF FindBuilt, BuildFinish, BuildFail, Lock
    <2>2. cached' \in BOOLEAN /\ (cached => cached') /\ viewAge' \in 0 .. CacheTtl
        <3>1. CASE FindBuilt \/ BuildFail
            BY <3>1 DEF FindBuilt, BuildFail, Lock, cacheVars
        <3>2. CASE BuildFinish
            BY <3>2, MonitorConstants DEF BuildFinish
        <3> QED BY <1>5, <3>1, <3>2
    <2> QED BY <2>1, <2>2, HolderLeaves
<1>6. ASSUME NEW v \in Viewers, NEW force \in BOOLEAN, AskCached(v, force) PROVE Lock'
    <2>1. UNCHANGED <<stage, building, forced, cacheVars>> /\ cached
        BY <1>6 DEF AskCached
    <2>2. CASE queue' = queue
        BY <2>1, <2>2 DEF Lock, cacheVars, Waits, OneEach
    <2>3. CASE queue' = Append(queue, Refresher) /\ Idle(Refresher)
        <3>1. forced' \subseteq {w \in Viewers : w \in forced \/ w = Refresher}
            BY <2>1 DEF Lock
        <3> QED BY <2>1, <2>3, <3>1, IdleTypes, TaskComes DEF Tasks
    <2> QED BY <1>6, <2>2, <2>3 DEF AskCached
<1>7. ASSUME NEW v \in Viewers, NEW force \in BOOLEAN, AskFirst(v, force) PROVE Lock'
    <2>1. /\ UNCHANGED <<stage, building, cacheVars>> /\ queue' = Append(queue, v)
          /\ ~Waits(queue, v)
          /\ forced' \subseteq {w \in Viewers : w \in forced \/ w = v}
        BY <1>7, IdleTypes DEF AskFirst, Lock
    <2> QED BY <2>1, TaskComes, MonitorConstants DEF Tasks
<1>8. ASSUME NEW v \in Viewers, Cancel(v) PROVE Lock'
    <2>1. PICK k \in DOMAIN queue :
              /\ queue[k] = v /\ queue' = Seqs!RemoveAt(queue, k)
              /\ IF k = 1 THEN stage' = "none" /\ building' = Nothing
                          ELSE UNCHANGED <<stage, building>>
        BY <1>8 DEF Cancel
    <2>2. forced' = forced \ {v} /\ UNCHANGED cacheVars
        BY <1>8 DEF Cancel
    <2>3. /\ queue' \in Seq(Tasks) /\ OneEach(queue')
          /\ \A w : Waits(queue', w) <=> Waits(queue, w) /\ w # v
          /\ k # 1 => queue' # <<>>
        BY <2>1, LeftAnywhere DEF Lock
    <2> QED BY <2>1, <2>2, <2>3, LineAfter DEF Lock, cacheVars
<1> QED BY <1>1, <1>2, <1>3, <1>4, <1>5, <1>6, <1>7, <1>8 DEF Next, Build

\* The lock is fair and held by whoever builds, only the first views are built
\* by viewers, there is one refresh task at most, and all else has its type.
THEOREM TypeCorrect == Spec => []TypeOK
<1>1. Init => Lock
    <2> SUFFICES ASSUME Init PROVE Lock
        OBVIOUS
    <2>1. queue \in Seq(Tasks) /\ OneEach(queue) /\ \A w : ~Waits(queue, w)
        BY NobodyWaits DEF Init
    <2>2. viewAge \in 0 .. CacheTtl
        BY MonitorConstants DEF Init
    <2> QED BY <2>1, <2>2 DEF Init, Lock
<1>2. Lock /\ MInv /\ [Next]_vars => Lock'
    BY LockKept DEF MInv
<1>3. Lock /\ MInv => TypeOK
    <2> SUFFICES ASSUME Lock, MInv PROVE TypeOK
        OBVIOUS
    <2>1. before \in [Callers -> SUBSET shown]
        BY DEF MInv, Docs, CallsAhead
    <2>2. \A i, j \in DOMAIN queue : queue[i] = queue[j] => i = j
        BY DEF Lock, OneEach
    <2>3. forced \subseteq {v \in Viewers : ~Idle(v)} /\ (~Idle(Refresher) => cached)
        BY IdleTypes DEF Lock
    <2> QED BY <2>1, <2>2, <2>3 DEF MInv, Docs, Lock, Tasks, TypeOK
<1> QED BY <1>1, <1>2, <1>3, MonitorInvariant, PTL DEF Spec

-----------------------------------------------------------------------------
(* The checkpoint is a ledger.  A history variable keeps every claim the   *)
(* database row has held.                                                  *)

VARIABLE accepted

Remembers == accepted' = accepted \cup ({checkpoint'} \ {None})

HSpec ==
    /\ Spec /\ accepted = {}
    /\ [][Remembers]_<<vars, accepted>>

\* The row's WHERE clause compares revisions and truths; of keys and times,
\* which the entries of the Workers' checkpoints have too, it says nothing.
AsEntry(k) ==
    [key |-> None, rev |-> k.rev, verified |-> 0, observed |-> 0, truth |-> k.truth]

Recorded(claims) == {AsEntry(k) : k \in claims}

Ledger == INSTANCE RevisionLedger
          WITH Entries <- Recorded(Claims), ledger <- Recorded(accepted)

\* The row holds the newest of them, and what is or may still be shown is one.
LedgerInv ==
    /\ accepted \subseteq Claims
    /\ checkpoint = None => accepted = {}
    /\ checkpoint # None => checkpoint \in accepted
    /\ \A k \in accepted : UpTo(k, checkpoint)
    /\ \A k : Passed(k) => k \in accepted

\* Nothing comes to be shown, now or later, but what the checkpoint has just
\* accepted.
LEMMA PassedByCheckpoint ==
    ASSUME MInv, [Next]_vars
    PROVE  /\ \A k : Passed(k)' => Passed(k) \/ (k = checkpoint' /\ k # None)
           /\ \/ UNCHANGED checkpoint
              \/ checkpoint' \in Claims /\ (checkpoint # None => UpTo(checkpoint, checkpoint'))
<1> USE DocTypes DEF MInv, Docs
<1>1. CASE Tick
    <2>1. /\ view'.claim = view.claim /\ building'.claim = building.claim
          /\ \A c \in Callers : carried'[c].claim = carried[c].claim
          /\ UNCHANGED <<checkpoint, stage, call, shown>>
        BY <1>1 DEF Tick
    <2> QED BY <2>1 DEF Passed
<1>2. CASE \/ StartBuild \/ BuildFail \/ Restart \/ BuildFetch \/ UNCHANGED vars
           \/ \E v \in Viewers :
                 Cancel(v) \/ \E force \in BOOLEAN : AskFirst(v, force)
    <2>1. /\ UNCHANGED <<checkpoint, shown>> /\ view' \in {view, Nothing}
          /\ stage' = "finish" => stage = "finish" /\ building' = building
          /\ \/ UNCHANGED <<call, carried>>
             \/ call' = [c \in Callers |-> "idle"]
        BY <1>2 DEF StartBuild, BuildFail, Restart, BuildFetch, Release, Cancel, AskFirst,
                    vars, cacheVars, lockVars, callVars
    <2> QED BY <2>1 DEF Passed
<1>3. CASE FindBuilt \/ \E v \in Viewers, force \in BOOLEAN : AskCached(v, force)
    <2>1. /\ UNCHANGED <<checkpoint, view, call, carried>>
          /\ stage' = "finish" => stage = "finish" /\ building' = building
          /\ shown' = IF view.claim = None THEN shown ELSE shown \cup {view.claim}
        BY <1>3 DEF FindBuilt, AskCached, AnswerView, Show, Release, cacheVars, callVars
    <2> QED BY <2>1 DEF Passed
<1>4. CASE BuildFinish
    <2>1. /\ UNCHANGED <<checkpoint, call, carried>> /\ stage = "finish" /\ stage' = "none"
          /\ view' = Current(building)
          /\ \/ UNCHANGED shown
             \/ shown' = IF view'.claim = None THEN shown ELSE shown \cup {view'.claim}
        BY <1>4 DEF BuildFinish, AnswerView, Show, Release, callVars
    <2>2. view'.claim \in {building.claim, None}
        BY <2>1
    <2> QED BY <2>1, <2>2 DEF Passed
<1>5. CASE BuildAccept
    <2>1. UNCHANGED <<view, shown, call, carried>>
        BY <1>5 DEF BuildAccept, cacheVars, callVars
    <2>2. Checkpointed(building, building') /\ building' \in {building, Nothing}
        BY <1>5 DEF BuildAccept, Checkpointed
    <2>3. CASE building' = building /\ checkpoint' = building.claim
        BY <2>1, <2>2, <2>3, CheckpointedClaim, ClaimTypes DEF Passed
    <2>4. CASE building' = Nothing /\ UNCHANGED checkpoint
        BY <2>1, <2>4 DEF Passed
    <2> QED BY <2>2, <2>3, <2>4, CheckpointedClaim
<1>6. ASSUME NEW c \in Callers, AskSummary(c) \/ SummaryFetch(c)
      PROVE  UNCHANGED checkpoint /\ \A k : Passed(k)' => Passed(k)
    <2>1. /\ UNCHANGED <<checkpoint, view, stage, building, shown>>
          /\ call' = [call EXCEPT ![c] = call'[c]] /\ call'[c] # "answer"
          /\ \A o \in Callers : o # c => carried'[o] = carried[o]
        BY <1>6 DEF AskSummary, SummaryFetch, cacheVars, lockVars
    <2> QED BY <2>1 DEF Passed
<1>7. ASSUME NEW c \in Callers, SummaryAnswer(c) \/ SummaryLost(c)
      PROVE  UNCHANGED checkpoint /\ \A k : Passed(k)' => Passed(k)
    <2>1. /\ UNCHANGED <<checkpoint, view, stage, building>>
          /\ call' = [call EXCEPT ![c] = "idle"]
          /\ carried' = [carried EXCEPT ![c] = Nothing]
        BY <1>7 DEF SummaryAnswer, SummaryLost, CallOver, cacheVars, lockVars
    <2>2. \A k \in shown' : k \in shown \/ (call[c] = "answer" /\ k = carried[c].claim /\ k # None)
        BY <1>7 DEF SummaryAnswer, SummaryLost, Show
    <2> QED BY <2>1, <2>2 DEF Passed
<1>8. ASSUME NEW c \in Callers, SummaryAccept(c)
      PROVE  /\ \A k : Passed(k)' => Passed(k) \/ (k = checkpoint' /\ k # None)
             /\ \/ UNCHANGED checkpoint
                \/ checkpoint' \in Claims
                   /\ (checkpoint # None => UpTo(checkpoint, checkpoint'))
    <2>1. PICK d \in {carried[c], Nothing} :
              Checkpointed(carried[c], d) /\ carried' = [carried EXCEPT ![c] = d]
        BY <1>8 DEF SummaryAccept
    <2>2. /\ call' = [call EXCEPT ![c] = "answer"]
          /\ UNCHANGED <<view, stage, building, shown>>
        BY <1>8 DEF SummaryAccept, cacheVars, lockVars
    <2>3. CASE d = carried[c] /\ checkpoint' = d.claim
        BY <2>1, <2>2, <2>3, CheckpointedClaim, ClaimTypes DEF Passed
    <2>4. CASE d = Nothing /\ UNCHANGED checkpoint
        BY <2>1, <2>2, <2>4 DEF Passed
    <2> QED BY <2>1, <2>3, <2>4, CheckpointedClaim
<1> QED BY <1>1, <1>2, <1>3, <1>4, <1>5, <1>6, <1>7, <1>8 DEF Next, Build, SummaryStep

LEMMA LedgerStep ==
    ASSUME MInv, LedgerInv, [Next]_vars, [Remembers]_<<vars, accepted>>
    PROVE  LedgerInv' /\ [Ledger!Next]_(Recorded(accepted))
<1>1. /\ \A k : Passed(k)' => Passed(k) \/ (k = checkpoint' /\ k # None)
      /\ \/ UNCHANGED checkpoint
         \/ checkpoint' \in Claims /\ (checkpoint # None => UpTo(checkpoint, checkpoint'))
    BY PassedByCheckpoint
<1>2. checkpoint \in Claims \cup {None} /\ checkpoint' \in Claims \cup {None}
    BY <1>1 DEF MInv, Docs
<1>3. accepted' = accepted \cup ({checkpoint'} \ {None})
    <2>1. CASE UNCHANGED <<vars, accepted>>
        BY <2>1, <1>2 DEF vars, LedgerInv
    <2> QED BY <2>1 DEF Remembers
<1>4. CASE checkpoint' \in accepted \cup {None}
    <2>1. accepted' = accepted
        BY <1>3, <1>4
    <2>2. UNCHANGED checkpoint
        BY <1>1, <1>2, <1>4, ClaimTypes DEF LedgerInv, UpTo
    <2>3. \A k : Passed(k)' => k \in accepted
        <3> SUFFICES ASSUME NEW k, Passed(k)' PROVE k \in accepted
            OBVIOUS
        <3>1. CASE Passed(k)
            BY <3>1 DEF LedgerInv
        <3> QED BY <1>1, <1>4, <3>1
    <2> QED BY <2>1, <2>2, <2>3 DEF LedgerInv, UpTo
<1>5. CASE checkpoint' \notin accepted \cup {None}
    <2>1. checkpoint' \in Claims /\ accepted' = accepted \cup {checkpoint'}
        BY <1>2, <1>3, <1>5
    <2>2. ASSUME NEW k \in accepted PROVE k \in Claims /\ k.rev < checkpoint'.rev
        <3>1. checkpoint # None /\ k \in Claims /\ UpTo(k, checkpoint) /\ checkpoint \in Claims
            BY <1>2 DEF LedgerInv
        <3>2. checkpoint.rev < checkpoint'.rev
            BY <1>1, <1>5, <3>1 DEF LedgerInv, UpTo
        <3> QED BY <2>1, <3>1, <3>2, ClaimTypes DEF UpTo
    <2>3. LedgerInv'
        BY <1>1, <2>1, <2>2, ClaimTypes DEF LedgerInv, UpTo
    <2> DEFINE e == AsEntry(checkpoint')
    <2>4. Recorded(accepted)' = Recorded(accepted) \cup {e}
        BY <2>1 DEF Recorded, AsEntry
    <2>5. \A p \in Recorded(accepted) : Ledger!Follows(p, e)
        BY <2>2 DEF Recorded, AsEntry, Ledger!Follows
    <2>6. e \in Recorded(Claims)
        BY <2>1 DEF Recorded
    <2> QED BY <2>3, <2>4, <2>5, <2>6 DEF Ledger!Next, Ledger!Record
<1> QED BY <1>4, <1>5

LEMMA LedgerInvariant == HSpec => [](LedgerInv /\ MInv)
<1>1. Init /\ accepted = {} => LedgerInv
    BY DocTypes DEF Init, LedgerInv, Passed
<1>2. MInv /\ LedgerInv /\ [Next]_vars /\ [Remembers]_<<vars, accepted>> => LedgerInv'
    BY LedgerStep
<1> QED BY <1>1, <1>2, MonitorInvariant, PTL DEF HSpec, Spec

\* What the row of authority_revision_checkpoints has held, by whichever of the
\* view's builds and the summary calls, is an append-only ledger: of each
\* revision it has accepted one truth, and never a revision below one it had
\* accepted before, also across restarts.
THEOREM CheckpointImplementsLedger == HSpec => Ledger!Spec
<1>1. Init /\ accepted = {} => Ledger!Init
    BY DEF Ledger!Init, Recorded
<1>2. MInv /\ LedgerInv /\ [Next]_vars /\ [Remembers]_<<vars, accepted>>
          => [Ledger!Next]_(Recorded(accepted))
    BY LedgerStep
<1> QED BY <1>1, <1>2, LedgerInvariant, PTL DEF HSpec, Spec, Ledger!Spec

\* Neither a view nor a summary ever shows what that row had not accepted: no
\* path of _build_snapshot or cloud_mcp_summary goes around the checkpoint.
THEOREM ShownIsAccepted == HSpec => [](shown \subseteq accepted)
<1>1. LedgerInv => shown \subseteq accepted
    BY DEF LedgerInv, Passed
<1> QED BY <1>1, LedgerInvariant, PTL
=============================================================================
