------------------------------- MODULE WidgetHub -------------------------------
(***************************************************************************)
(* One widget of the dashboard's board: its entry in board-widgets.yaml,   *)
(* its result in the hub's cache, and the runs that fill it.  (The widgets *)
(* of a board share nothing but the build they are gathered by.)           *)
(*                                                                         *)
(* The dashboard builds one view at a time, but a build that fails, or     *)
(* whose viewer leaves, does not cancel its task for the widgets: that run *)
(* goes on beside the next build's.  A run that reads files or repositories*)
(* does so in a thread, which goes on when the run has timed out.          *)
(*                                                                         *)
(* A payload is what it was made from, what it says of itself, and the age *)
(* of what it shows.                                                       *)
(***************************************************************************)
EXTENDS Integers, FiniteSets

CONSTANTS
    Configs,      \* entries: [type, tool, complete]; not complete: an option
                  \* its provider cannot do without is missing or not allowed
    Missing,      \* no entry, no file, or a file that is not valid
    Ttl,          \* _TTL_SECONDS of each type, in Ticks
    ToolTtl,      \* _MCP_TOOL_TTL_SECONDS of the tools that have one of their own
    FailTtl,      \* ... at least, of a result that is a failure (15 s)
    Budget,       \* _MCP_TIMEOUT, _PROVIDER_TIMEOUT of each type
    ScanMax,      \* longest life of a scanning thread
    Slots,        \* bound: runs and abandoned threads side by side
    MaxUnrest     \* bound: edits of the entry and builds that fail

CardPayloads == [config : Configs, age : Nat,
             says : {"plain", "current", "stale", "unknown", "failed"}]
Results == [payload : CardPayloads, left : Nat]

\* A run that has timed out is abandoned: of it only its thread goes on.
Runs == [config : Configs, spent : Nat, abandoned : BOOLEAN]

InThread(c) == c.type \in {"agenda", "projects"}

HubConstants ==
    /\ Missing \notin Configs /\ Missing \notin Slots /\ Missing \notin Runs
    /\ Missing \notin Results
    /\ \A c \in Configs : {Ttl[c.type], Budget[c.type]} \subseteq Nat /\ c.complete \in BOOLEAN
    /\ \A tool \in DOMAIN ToolTtl : ToolTtl[tool] \in Nat
    /\ {ScanMax, MaxUnrest} \subseteq Nat
    /\ {FailTtl, Budget["projects"]} \subseteq Nat \ {0}
    /\ \A c \in Configs : InThread(c) => Budget[c.type] = Budget["projects"]

VARIABLES
    config,       \* the entry now
    cache,        \* _cache: [payload, left], or Missing
    runs,         \* the runs that are under way, and the threads of past ones
    awaited,      \* the run the current build waits for, or Missing
    answer,       \* the payload just given to a build, or Missing
    asked,        \* history: ... and the entry that build had read
    unrest        \* history: edits and failed builds

vars == <<config, cache, runs, awaited, answer, asked, unrest>>

UnderWay(s) == runs[s] # Missing /\ ~runs[s].abandoned

Init ==
    /\ config \in Configs \cup {Missing}
    /\ cache = Missing /\ runs = [s \in Slots |-> Missing]
    /\ awaited = Missing
    /\ answer = Missing /\ asked = Missing /\ unrest = 0

-----------------------------------------------------------------------------
(* The providers: what a payload may say of itself.                        *)

TextSays(c) == IF c.complete THEN {"plain"} ELSE {"failed"}
AgendaSays == {"plain", "failed"}
ProjectsSays(c) == IF c.complete THEN {"current", "failed"} ELSE {"current"}
RemoteSays(c) == IF c.complete THEN {"plain", "failed"} ELSE {"failed"}

\* _present_mcp_payload: the freshness each tool's summary claims.
Presented(tool) ==
    CASE tool \in {"personal_cloud_sync_overview", "foxlink_get_today_summary"} ->
             {"current", "stale"}
      [] tool = "unknown" -> {"current", "unknown"}
      [] OTHER -> {"current"}

McpSays(c) == IF c.complete THEN Presented(c.tool) \cup {"failed"} ELSE {"failed"}

Says(c) == CASE c.type = "text" -> TextSays(c)
             [] c.type = "agenda" -> AgendaSays
             [] c.type = "projects" -> ProjectsSays(c)
             [] c.type = "mcp" -> McpSays(c)
             [] OTHER -> RemoteSays(c)

\* A provider that has nothing to wait for.
AtOnce(c) == c.type = "text" \/ (~c.complete /\ c.type # "agenda")

-----------------------------------------------------------------------------
(* _run.                                                                   *)

Payload(c, says, age) == [config |-> c, says |-> says, age |-> age]

TimeToLive(c) == IF c.type = "mcp" /\ c.tool \in DOMAIN ToolTtl THEN ToolTtl[c.tool] ELSE Ttl[c.type]

\* A result is kept for its time to live, which a failure lengthens.
Keeps(c, says) == IF says = "failed" /\ TimeToLive(c) < FailTtl THEN FailTtl ELSE TimeToLive(c)

\* Variant of Kept that keeps only what succeeded.
KeptSuccesses(p) ==
    cache' = IF p.says = "failed" THEN cache
             ELSE [payload |-> p, left |-> TimeToLive(p.config)]

Kept(p) ==
    cache' = [payload |-> p, left |-> Keeps(p.config, p.says)]

Answered(p, c) == answer' = p /\ asked' = c

\* Variant of Hit that looks for the widget's id only.
HitAnyConfig(c) == cache # Missing /\ cache.left > 0

\* The fingerprint is that of the whole entry.
Hit(c) == cache # Missing /\ cache.payload.config = c /\ cache.left > 0

\* A build asks for the widget: the cached payload, a payload made at once, or
\* a run.
Ask(s) ==
    /\ awaited = Missing /\ runs[s] = Missing /\ config # Missing
    /\ IF Hit(config)
       THEN /\ Answered(cache.payload, config)
            /\ UNCHANGED <<cache, runs, awaited>>
       ELSE IF AtOnce(config)
       THEN \E says \in Says(config) :
                LET p == Payload(config, says, 0)
                IN  Answered(p, config) /\ Kept(p) /\ UNCHANGED <<runs, awaited>>
       ELSE /\ runs' = [runs EXCEPT ![s] = [config |-> config, spent |-> 0,
                                           abandoned |-> FALSE]]
            /\ awaited' = s
            /\ UNCHANGED <<cache, answer, asked>>
    /\ UNCHANGED <<config, unrest>>

\* The run is over with this payload and leaves this in its slot; its build is
\* answered, if it still waits.
RunEnds(s, p, rest) ==
    /\ Kept(p)
    /\ runs' = [runs EXCEPT ![s] = rest]
    /\ IF awaited = s
       THEN awaited' = Missing /\ Answered(p, runs[s].config)
       ELSE UNCHANGED <<awaited, answer, asked>>
    /\ UNCHANGED <<config, unrest>>

\* The provider returns what it has sampled since the run began.
Provide(s) ==
    /\ UnderWay(s)
    /\ \E says \in Says(runs[s].config), age \in 0 .. runs[s].spent :
          RunEnds(s, Payload(runs[s].config, says, age), Missing)

TimeOut(s) ==
    /\ UnderWay(s) /\ runs[s].spent = Budget[runs[s].config.type]
    /\ RunEnds(s, Payload(runs[s].config, "failed", 0),
               IF InThread(runs[s].config) THEN [runs[s] EXCEPT !.abandoned = TRUE]
               ELSE Missing)

-----------------------------------------------------------------------------
(* What happens around a run.                                              *)

\* Another task of the build raised, or its viewer left.
BuildFails ==
    /\ awaited # Missing /\ unrest < MaxUnrest
    /\ awaited' = Missing /\ unrest' = unrest + 1
    /\ UNCHANGED <<config, cache, runs, answer, asked>>

Edit(c) ==
    /\ c # config /\ unrest < MaxUnrest
    /\ config' = c /\ unrest' = unrest + 1
    /\ UNCHANGED <<cache, runs, awaited, answer, asked>>

ScanEnds(s) ==
    /\ runs[s] # Missing /\ runs[s].abandoned
    /\ runs' = [runs EXCEPT ![s] = Missing]
    /\ UNCHANGED <<config, cache, awaited, answer, asked, unrest>>

\* A timeout is punctual, and a thread ends in its time.
Tick ==
    /\ \A s \in Slots : UnderWay(s) => runs[s].spent < Budget[runs[s].config.type]
    /\ runs' = [s \in Slots |-> IF runs[s] = Missing \/ (~UnderWay(s) /\ runs[s].spent >= ScanMax)
                                THEN Missing ELSE [runs[s] EXCEPT !.spent = @ + 1]]
    /\ cache' = IF cache = Missing \/ cache.left = 0 THEN cache
                ELSE [payload |-> [cache.payload EXCEPT !.age = @ + 1],
                      left |-> cache.left - 1]
    /\ answer' = Missing /\ asked' = Missing
    /\ UNCHANGED <<config, awaited, unrest>>

Next ==
    \/ Tick \/ BuildFails
    \/ \E s \in Slots : Ask(s) \/ Provide(s) \/ TimeOut(s) \/ ScanEnds(s)
    \/ \E c \in Configs \cup {Missing} : Edit(c)

Spec == Init /\ [][Next]_vars

-----------------------------------------------------------------------------
(* Properties.                                                             *)

TypeOK ==
    /\ config \in Configs \cup {Missing}
    /\ cache \in Results \cup {Missing}
    /\ runs \in [Slots -> Runs \cup {Missing}]
    /\ awaited # Missing => awaited \in Slots /\ UnderWay(awaited)
    /\ answer # Missing => answer \in CardPayloads /\ asked \in Configs
    /\ unrest \in 0 .. MaxUnrest

\* What a card shows was made from the entry its build had read, and was
\* sampled at most a run and a time to live before, although a run of a failed
\* build may put its own result into the cache at any later moment.
ShownIsRecent ==
    answer # Missing =>
        /\ answer.config = asked
        /\ answer.says \in Says(asked)
        /\ answer.age <= Budget[asked.type] + Keeps(asked, answer.says)

\* Inductive: what is cached is as recent by the time it has left, and a run is
\* of an entry that needs one, and in time.
CachedIsRecent ==
    cache # Missing =>
        LET c == cache.payload.config IN
        /\ cache.payload.says \in Says(c)
        /\ cache.payload.age + cache.left <= Budget[c.type] + Keeps(c, cache.payload.says)

RunsInTime ==
    \A s \in Slots : runs[s] # Missing =>
        IF runs[s].abandoned
        THEN /\ InThread(runs[s].config) /\ runs[s].spent >= Budget["projects"]
             /\ runs[s].spent \in {Budget["projects"]} \cup 0 .. ScanMax
        ELSE ~AtOnce(runs[s].config) /\ runs[s].spent <= Budget[runs[s].config.type]

HubInv == TypeOK /\ CachedIsRecent /\ RunsInTime /\ ShownIsRecent

Scanning == {s \in Slots : runs[s] # Missing /\ InThread(runs[s].config)}

\* "A disconnected device [...] must not start a multi-second retry on every
\* dashboard poll": the threads that scan for a widget, all of them in the one
\* pool the database uses too, are as few as their lifetime makes of a run and
\* a time to live; only edits and failed builds add one each.
Spacing == Budget["projects"] + FailTtl

ScansBounded == Cardinality(Scanning) <= ScanMax \div Spacing + 1 + unrest

\* Inductive, with HubInv: the failed builds and edits have paid for the slots in
\* extra, and may have one more to their credit.  The other scans started apart,
\* and a new one will: a young one is awaited still, or its failure is cached.
PaidFor(extra, credit) ==
    /\ IsFiniteSet(extra) /\ Cardinality(extra) + credit <= unrest
    /\ \A s \in Slots : UnderWay(s) => s = awaited \/ s \in extra

Apart(s, t) ==
    runs[s].spent + Spacing <= runs[t].spent \/ runs[t].spent + Spacing <= runs[s].spent

Young(extra) == {s \in Scanning \ extra : runs[s].spent < Spacing}

Guarded(s) ==
    \/ s = awaited
    \/ /\ runs[s].abandoned /\ awaited = Missing /\ cache # Missing
       /\ cache.payload.config = config /\ cache.left + runs[s].spent >= Spacing

\* No run that goes on is younger than those; one of another entry, which will
\* overwrite what is cached, is older or will be paid for.
Overtaken(s, extra, credit) ==
    /\ \A t \in Young(extra) : runs[t].spent <= runs[s].spent
    /\ \/ runs[s].config = config \/ credit = 1
       \/ runs[s].spent > 0 /\ \A t \in Young(extra) : runs[t].spent < runs[s].spent

ScansPaidFor(extra, credit) ==
    /\ PaidFor(extra, credit)
    /\ \A s, t \in Scanning \ extra : s = t \/ Apart(s, t)
    /\ \A s \in Young(extra) : Guarded(s)
    /\ \A s \in Scanning : UnderWay(s) => Overtaken(s, extra, credit)

ScansInv == \E extra \in SUBSET Slots, credit \in {0, 1} : ScansPaidFor(extra, credit)
=============================================================================
