# PersonalMcpGateway: a TLA+ development

This directory specifies, model-checks and partly proves the parts of PersonalMcpGateway in
which several processes, threads, callers or machines meet: the two-Worker chain that signs and
verifies a product's sync truth, the repair button with its files, the fleet watchdog with its
restart budget, the update script that works beside it, the dashboard's shared view, its widgets
and its profile in the browser, the gateway's start and stop, the cloud sync agent, and the desktop
board with its polling, its cards and its window. Paths below are relative to the repository's root.

## 1. The system

| Component | Source | State it keeps | Operations |
|---|---|---|---|
| Signer Worker, `AuthorityIssuer` | `cloud/authority/src/index.ts` | per product the row `source-checkpoint-v1` in a Durable Object | fetch and validate the product's observation, pin it in a transaction, sign a document of at most five minutes |
| Cloud Worker, `AuthorityCheckpoint` | `cloud/src/index.ts` | per product the row `checkpoint-v3`; OAuth grants in the provider's KV store | fetch the document through a service binding, verify signature and times, accept it in a transaction, answer the summary |
| Repair button | `src/personal_mcp_gateway/admin/fleet.py`, `fleet/watchdog.ps1` | `repair-<s>.json`, `.repair-<s>.lease.json`, `*.processing`, `maintenance.flag` | file a request; find, claim, run a forced pass, remove or restore the claim |
| Fleet watchdog | `fleet/watchdog.ps1` | `$script:State` (failures, attempts, backoff per service), `restart-state.json` | pass over every project: look, probe, count, start, restart within the budget |
| Dashboard monitor | `src/personal_mcp_gateway/admin/dashboard.py` | `_cache`, `_cached_at`, `_cache_lock`, `_refresh_task`; table `authority_revision_checkpoints` | `snapshot`, background refresh, `cloud_mcp_summary`, acceptance of a revision |
| Runtime and registry | `core/runtime.py`, `core/registry.py`, `mcp/sdk_compat.py` | `ready`, `_lifecycle_users`, load errors, each module's state | `start`, `stop`, `restart`, `invoke` |
| Idempotency store, circuit breaker | `storage/idempotency_store.py`, `core/circuit_breaker.py` | table `idempotency_records`; failure count, state, instant of opening | `claim`, `complete`; `before_call`, `success`, `failure` |
| Database | `storage/database.py` | one SQLite file | one connection and transaction per statement, under a lock |
| Profile store of the page | `admin/static/dashboard-profile.js` | IndexedDB: entities, outbox, conflicts, meta | `save`, `prepareExchange`, `applyExchange` |
| Board widgets | `admin/widgets.py` | per-widget cache, scanning threads | `snapshot`, `_run`, the providers of each type |
| Desktop refresh | `desktop/client.py`, `desktop/app.py`, `desktop/static/desktop.js` | last good answer and its file, failures, `_next_attempt_at`; `_snapshot`, `_wake`; `pullInFlight`, `forcePullQueued`, `timer`, `pollGeneration` | fetch, wake, bridge calls, pull, schedule a poll |
| Desktop cards | `desktop/app.py`, `desktop/window_state.py`, `desktop/native_window.py` | five windows; saved geometry and visibility, `window-state.json`, the save timer | show, hide, replay, move, resize, reset, save, shut down, launch |
| Management window | `desktop/native_window.py`, `desktop/shell.py` | `_resize_sessions`, `_resize_hooks`, each drag's thread | begin a drag, follow the pointer, end, window destroyed |
| Cloud sync agent | `fleet/cloud_sync.py` | status file: result per item and project, last attempt, last complete push | one pass over projects and tools |
| Update script | `fleet/Update-PoyiFleet.ps1` | `maintenance.flag`, the installed wheel | stop, install, start, restart the watchdog |
| Installers, tunnel and service scripts, audit | `fleet/Install-PoyiFleet.ps1`, `service/`, `tunnel/`, `standards/` | none between runs | run by hand or by the SCM |

How they meet. The cloud Worker calls the signer Worker, which calls the product; every caller of
the summary drives a chain of calls of its own, so any number of them overlap, and only the two
transactions are atomic. The desktop process and the watchdog share nothing but files. The
watchdog and the services share the SCM. The dashboard's viewers and the MCP tool's callers share
one asyncio loop, one cache and one database row. The runtime is entered by both the ASGI lifespan
and the MCP server's lifespan, which is why it counts its users. The desktop's worker thread and
the threads of the bridge calls share one snapshot and one event.

What is hard: documents that overtake one another, replies that are lost after the other side has
committed, clocks captured before an await and used after it, crashes between two file operations,
budgets that must survive a crash, a cache whose content expires before the cache does.
`PROJECT.json` lists each of these hazards at the line where it bites, with the property that
covers it or the reason why none does.

What makes each component correct, in a sentence each: the chain shows one history of each product
and never goes back (section 3.1); a click on the repair button is answered by a forced pass or by
one that has begun since (3.2); no service is restarted beyond its budget and none is given up
(3.3); the dashboard and the tool agree on every revision and an old view is replaced (3.4); a
click on refresh is never lost and the board catches up with a gateway that answers (3.6); a
tool call only reaches a module that runs, and the last user stops them all (3.7); a request
identifier is executed by one claimant at a time (3.8); a dependency that has failed is left alone
(3.9); a widget shows what its entry says, sampled recently, and its scans do not pile up (3.10);
the cards on the screen are those the user left there, where he left them (3.11); one drag at a time
sizes the window (3.12); a profile mutation stays in the outbox until the authority has taken it
(3.13); what the dashboard calls fresh the mirror holds (3.14); an update leaves the new code
running (3.5).

## 2. Modules

| Module | Role |
|---|---|
| `RevisionLedger` | abstract specification: an append-only ledger of signed truths |
| `AuthorityChain` | both Workers and both checkpoints; refines `RevisionLedger` |
| `AuthorityChainProofs` | type correctness, both inductive invariants, linearity, real-time order, the refinement |
| `FleetRepair` | `request_repair` and the watchdog's handling of requests, over the files |
| `FleetRepairProofs` | type correctness, the inductive invariants, wake-up, coalescing, and that no request expires unserved |
| `FleetWatchdog` | a watchdog pass over one project, with its budget and its file |
| `FleetUpdate` | composes the update script with `FleetWatchdog`'s pass over the gateway and its tunnel |
| `DashboardMonitor` | the shared view, the summary tool and the revision checkpoint |
| `DesktopRefresh` | the desktop's worker, its client and the page that polls it |
| `GatewayLifecycle` | the runtime's users, the registry's start, stop and restart, and tool calls |
| `IdempotencyStore` | `claim`, `complete` and `fail` of one request, by concurrent callers |
| `CircuitBreaker` | `before_call`, `success`, `failure` of overlapping calls |
| `WidgetHub` | one widget: its entry, cache, runs, abandoned scans |
| `DesktopCards` | the cards' windows, visibility and places, over shutdown, kill and launch |
| `NativeWindow` | the trackers that size the management window and the table of them |
| `ProfileStore` | two tabs over one IndexedDB profile, its outbox and its exchange |
| `CloudSync` | a pass of `cloud_sync.py`, its status file, and the dashboard's reading of it |
| `DesktopRefreshProofs`, `DashboardMonitorProofs`, `FleetWatchdogProofs`, `GatewayLifecycleProofs` | proofs of the modules they are named for (section 5) |
| `FleetUpdateProofs` | proofs about `FleetUpdate`; takes what `FleetWatchdogProofs` shows of a pass |
| `MCParts` | the eight models from `GatewayLifecycle` to `CloudSync` side by side, each in the same registers (section 4) |
| `PartsProofs` | proofs about those eight, stated of `MCParts`' specification |
| `MC*` | instances for TLC; the values are in the `.cfg` files |

A definition called "Variant of X" is X with a plausible mistake in it; no specification uses it.
Each property was seen to fail when X is replaced by such a variant, and `PROJECT.json` says which.

## 3. What is modelled

### 3.1 AuthorityChain

One product, because each has Durable Objects of its own (`idFromName`). For each caller `pc[c]`
is the point its chain of calls has reached, and `held[c]` what it carries:

| stage | carries | next action | code |
|---|---|---|---|
| `idle` | nothing | `Start`: captures `now` | `verifyAuthority` entered |
| `fetching` | nothing | `FetchObservation` | `fetchObservation`, `validateObservation` |
| `observed` | observation | `IssuerCommit` / `IssuerRefuse` | second validation, the issuer's transaction |
| `committed` | entry | `IssueDocument` / `IssueTooLate` | expiry, signature |
| `signed` | document | `CheckDocument` / `RejectDocument` | the checks of `verifyAuthority`, against the captured `now` |
| `checked` | entry | `VerifierAccept` / `VerifierRefuse` | the verifier's transaction |
| `verified` | entry | `Serve` | `cloudSummary` returns |

`Fail` loses a chain at any stage, before or after the other side has committed: a timeout, a lost
reply, an eviction. The product is external and may report anything the validation lets through,
old revisions and two truths of one revision included. `ReplaceIssuer` empties the issuer's object
(its name carries a version), `RotateSigningKey` and `RotatePinnedKey` are deployments.
Cryptography is ideal: a signature is the key that made it, a hash is what it hashes. Left out:
size limits, media types, redirects, and OAuth, which decide only whether a chain fails.
`issuedLedger`, `ledger`, `served` and `before` are history variables.

### 3.2 FleetRepair

Files are represented by their age (`Absent` when there is none), since both programs look only at
ages. `request_repair` takes four steps (look at the trigger; look at it again, and at the lease,
which nobody else writes; write one; write the other); it may die after each. The watchdog's
iteration takes a step per file operation: scan, gate (maintenance, one minute since the last forced
pass), one move per claim (without `-Force`), the ACL check that either proceeds or puts the claims
back, the forced pass, and the removal of the claims. `Abort` is an exception caught by the main
loop, `Crash` the process dying; `Wake` is the sleeping loop with its three-second look at the
files. One `Tick` is one period of the loop; `busy <= MaxBusy` bounds an iteration. `excused` is a
history variable: the sources whose waiting request met maintenance or an ACL failure, which the
code may delay for ever; a source that clicks again outside maintenance is excused no longer. A
claim left behind by a crash ages like a request (`OldRequest` when it is older than any limit looks
at): it holds up its own source only, and `NoneExpiresUnserved` says so of every other.

### 3.3 FleetWatchdog

`Invoke-FleetPass` for an MCP service and its tunnel, one action per call of the SCM or probe:
`LookAtMcp`, `ProbeMcp`, `StartMcp`, `StopPairTunnel`, `StopMcp`, `RestartMcp`, `RestartTunnel`,
`ProbeMcpAgain`, `LookAtTunnel`, `ProbeTunnel`, `StopTunnel`, `StartTunnel`. The services change
state between any two of them (`ServiceChanges`). `Allowed`, `Refuse` and `Charge` are
`Test-RestartAllowed`, `Register-Restart` and `Save-RestartState`; `CrashAndRestart` ends the
process and loads the file, adding `UtcOffset` to every age as the comparison of UTC with local
ticks does. Instants are ages; an age above an hour is forgotten, as the code prunes it. `attempts`
is what the watchdog remembers, `persisted` the file, and `restarts` a history variable: how many
restarts of each age there were (`AgedCounts`), so that forgetting is visible.

### 3.4 DashboardMonitor

One product. The asyncio lock is a fair queue; its head holds it, and `stage` says how far the
holder's build has come: `StartBuild`, `BuildFetch`, `BuildAccept` (the SQL upsert with its `WHERE`
clause), `BuildFinish`; `BuildFail` is any task of the build raising, `Cancel` a viewer leaving
while it waits or builds. `AskCached` answers at once and may start the one refresh task;
`AskFirst` waits. The MCP tool's call passes the same checkpoint with its own document
(`AskSummary`, `SummaryFetch`, `SummaryAccept`, `SummaryAnswer`, `SummaryLost`). `Restart` keeps the
database row only. The authority may replay any document that is still current and may equivocate.

### 3.5 FleetUpdate

The script's stages are the values of `upc`; each action is one `sc.exe` call with its wait, or one
stretch of work that may throw (`StepThrows`), after which `Finally` removes the flag. `Kill` ends
the script without it. The watchdog is `W == INSTANCE FleetWatchdog` over the same variables, so a
pass takes the same steps as there; it begins only without the flag and is never interrupted by it.
`StopWatchdog` is that module's `CrashAndRestart`, with the service down until `StartWatchdog`.
`wheel` is what the gateway's Python holds and `loaded` what the running gateway started from; a
gateway that starts while `wheel = "mixed"` has loaded half of each. The SCM is a third actor: its
recovery actions (`service/gateway-service.xml:16-20`, `Set-BoundedFailureActions`) restart a service
that failed 5, 15 and 60 seconds later, and neither a stop nor the flag calls a pending one off.
`ServiceChanges` lets it start a service at any moment; its count of failures and its delays are not
kept, so the model's SCM can do more than the real one. `disturbed` is a history variable: a pass was
under way when the flag went up, or the SCM has started the gateway among half-copied files.

### 3.6 DesktopRefresh

`poller` is where `poll_forever` stands: `BeginFetch` and `RequestAnswered` or `RequestFails` are
`fetch` with `apply` (one thread does both), `Wakes` and `Clears` the two calls on `_wake`, which a
click may come between. `pull` is the page's call over the bridge: `sent`, then `replied` once it
has run in its own thread (`BridgeRuns`), then rendered (`PullRenders`) or given up
(`PullTimesOut`, after which a refresh call still runs some time: `LateCallRuns`). `NextTurn` is the
loop in `pull` and what its end sets off: a timer's callback of the current generation (`chained`)
sets the next one. `Reschedule` is `schedulePoll(0)`, which ends the generation. `Restart` keeps
the file of the last good answer only; writing it may fail, and so may any request. `owed` is a
history variable: a click that no fetch has followed. A fetch that follows it during a backoff
makes no request, as in the code: a refresh does not end a backoff.

### 3.7 GatewayLifecycle

`at[s]` is where a session stands between `start` and `stop`: `toStart` and `toStop` wait for
`_lifecycle_lock`, `starting` migrates the database, `modules` and `stopping` are in the registry,
`inside` may call tools. Coroutines change places at awaits only, so an action is what runs between
two of them; a module succeeds or fails at each. `Cancel` is a client that goes away: a
`CancelledError` is no `Exception`, so `start` does not take its count back (`leaked`). `Restart` is
the registry's, under a lock `start` and `stop` do not take. `astray` is a history variable: the
modules a restart that is under way or has failed, or a stop that did not come through, may have
left so that the registry is wrong about them. Three things the code does are therefore not
promised: a restart may start a module after the gateway has stopped it, calls go on to a module
whose restart failed, and after a cancelled start the last user stops nothing.

### 3.8 IdempotencyStore

One request. `Claim` reads the clock; `DeleteExpired`, `InsertOrIgnore` and `Select` are the three
statements of `claim`, each under the database's lock with nothing that holds them together;
`Finish` is `complete` or `fail`, `Abandon` a caller that vanishes. A payload stands for its hash.
Once somebody works beyond the expiry of its claim (`overrun`) its late answer completes the next
owner's row: that is the code, and `ClaimIsExclusive` is about the time before.

### 3.9 CircuitBreaker

`Pass` is `before_call` letting a call through (any number of them in `HALF_OPEN`), `Success` and
`Failure` report it, `Drop` is a caller that is cancelled and reports neither. `row` and `quiet`
count failures in a row and the time since the last, by which `LeftAlone` says when a call must not
have passed.

### 3.10 WidgetHub

One widget of any type over its entry (`Edit`), its cached payload and the runs that fill it. A
build that fails does not cancel its task for the widgets (`BuildFails`), so runs may be side by
side (`Slots`). A run that reads files or repositories does so in a thread (`InThread`), which
`TimeOut` leaves behind in its slot (`abandoned`) until the scan ends (`ScanEnds`, at the latest
after `ScanMax`). What a provider finds is what its payload says of itself (`Says`): plain, current,
stale, unknown, failed. `TimeToLive` is that of the type, or of the MCP tool if it has one of its
own. A payload carries the entry it was made from, which is what the fingerprint compares.

### 3.11 DesktopCards

Each thread (`Startup`, which shows the cards and shows them again three times, and the bridge and
tray threads, `Users`) works through a list of cards, with a stage per native call. What runs under
`_card_state_lock` is one action, `save_state` included. `Hears` and `Remembers` are a moved event's
handler before and in its lock; `suppressed` and `armed` decide whether it listens; `Realize` and
`LateHide` are WebView2's late reports. `End` is shutdown, `Killed` the process ending, `Launch` the
next start from the file. History variables name what is not promised: a card shown and hidden at
the same moment (`raced`, also when a hide that is still on a thread's list, `Queued`, crosses a
show: the thread hides it without another look), one a native call failed for (`failed`), a save
that failed (`unsaved`). `spoiled` are the cards to which one of these has happened since the start:
put to two places at a time (moved by the user or a command while it is being placed, while a reset
has yet to place it, or while its last event is on its way); an event of the app's own placing that
is heard after the placement has ended; a first placement the system refused, after which the window
is shown though nobody listens to it; an event not heard before the app began to stop, not handled
before the end, or not saved before a kill. Each is recorded by the step that causes it, and none by
the event being dropped, so `RememberedAsLeft` sees a drag that is forgotten for any other reason.
When one window could not be created no card is shown at all (`ShowAll`), as in the code.

### 3.12 NativeWindow

A rectangle is its span along one axis. `Grab` and `Register` are `begin_window_resize`, the second
under `_resize_session_lock`; `LooksAtEvent`, `LooksAtButton`, `Moves` and `Leaves` are the
tracker's loop. `Destroyed` is `WM_NCDESTROY`, which clears the table if the subclass was installed.

### 3.13 ProfileStore

One entity of one profile. A transaction of IndexedDB is one action, and other tabs take steps
between two of them: `BootLooks` and `BootMakes`, `ReadEntity`, `Updated` and `CommitUpdate`,
`Prepare`, `ReadOutbox`, `ApplyExchange`. The authority (`Exchange`), another device
(`ElsewhereWrites`) and reloads are the environment; an answer may be lost after the authority has
acted on it. `crossed` and `doubled` are history variables for two things the code allows: an
update whose base another tab has replaced meanwhile, and two tabs that make the first key at a time.
`OutboxPreserved` says what the page may rely on: the last update is in the outbox or was taken; the
profile is a change the authority made at that revision, or is in the outbox to become it; it is not
behind the cursor, unless tabs crossed; and it can be read, unless they made two keys. It does not say
that a change the cursor has passed was stored. The code does not see to that, even with one tab: when
another device's change has the revision of an update that is still in the outbox, or a lower one,
`applyExchange` skips it (351) and writes the cursor (383), so it is not asked for again. The update
then stands in its place, and the authority, which compares revisions only, answers it with a
conflict or, once another update has raised its number, takes it over the change nobody has seen.

### 3.14 CloudSync

The program starts afresh for each pass and remembers only its status file. For each project:
`BeginProject`, `Connect`, `CallTool` (one tool may fail), `CloudStores` (the mirror has stored,
the answer may be lost), `PushAnswered` or `PushFails`; `SyncJournal` for a journal; `WriteStatus`
or `EndsEarly`. A timestamp is its age; `Malformed` is text the mirror answered that is none.
`Observed` and `SnapshotState` are the dashboard's reading, which calls the mirror fresh.

## 4. Runs

| Run | Question | Answer |
|---|---|---|
| `authority_served` | Do two overlapping chains ever show two truths of a revision, or an older one than was shown before the call began? | no |
| `authority_keys` | With keys rotated at any moment: is the verifier ever ahead of the issuer, does one issuer storage sign two histories, is the verifier's checkpoint an append-only ledger? | no, no, yes |
| `repair_button` | With one crash or exception at any step: until then, is the loop woken only for a claimable request and a coalesced click covered? Is every request served before it expires, but for those of the source whose claim was left behind, and is each wake-up followed by a claim? | yes, yes |
| `repair_crash` | The comment above `Test-RepairWakePending`, with a crash | **violated**, section 6 |
| `watchdog_budget` | Hourly cap and cooldown through passes, failures and one crash, local time = UTC; is a stopped or hung service always tried again? | kept; yes |
| `watchdog_local_time` | The cooldown with the shipped proportions on a host at UTC+8 | **violated**, section 6 |
| `update_quiet` | If no pass was under way: does anybody but the SCM start the gateway while its files change, and if the SCM did not, does a finished update run the new code? In any case: does the gateway come back? | no, yes, yes |
| `update_race` | The comment at the top of the update script: does the watchdog never start the gateway mid-copy? | **violated**, section 6 |
| `desktop_refresh` | Is a click ever lost, does data once shown vanish or go back, does the page catch up with a gateway that answers again? | no, no, yes |
| `dashboard_shared` | Do views and summaries agree, never go back, and are old views replaced, through races, failures, cancellations and restarts? | yes |
| `dashboard_expired` | Is an expired record never shown? | **violated**, section 6 |
| `parts` | The properties of 3.7 to 3.14, each in a sentence in section 1 | they hold |

`parts` is one run for eight models that share no state. Its variable `part` says which of them the
behaviour is of, and each model's variables are mapped onto the same registers `r1` ... `r23`, which
the others leave blank; so the reachable states are those of the eight side by side, not their
product, and each action of each model is an action of the run.

### Bounds

* `authority_*`: two callers suffice for one chain to overtake another, and for a document signed
  before a call to be accepted after it. `authority_served` takes two truths, two revisions, one
  key and two instants, so documents expire in flight; `authority_keys` takes two keys, one truth,
  and products that observe at once or one instant after they verified (`MaxLag = 1`).
  One replacement of the issuer's storage gives two issuer histories. The theorems of section 5
  remove all of these bounds. Callers are interchangeable, hence the symmetry.
* `repair_*`: two sources interfere through `sinceForced` only (`repair_crash` needs one); the limits
  keep the order of the shipped ones (lease and forced gap shorter than a request's life: 5, 2 and 2
  Ticks), so that a request can be turned away and served later. `MaxBusy = 1` lets a request age
  while a pass runs. One crash or exception: it leaves at most one claim of each source behind.
* `watchdog_budget`: two restarts an hour with a cooldown of one Tick, an hour of two and a backoff
  of one, so the cap, the cooldown and the backoff all bind; one crash. `watchdog_local_time`: ten-minute
  Ticks, so the shipped values (1, 6, 5, 3), and 48 Ticks of offset.
* `update_*`: one run of the script, thresholds and budget of one: what matters is where the pass
  stands, not how often it may act. The SCM may restart a service any number of times.
* `dashboard_shared`: two viewers (one builds, one waits or leaves), the refresh task, one summary
  call, two truths, two revisions, documents that live one Tick, a cache of two: a document may
  expire within a build, in the cache before the cache does, and in a summary call.

* `desktop_refresh`: one page, since the others are seen as further sources of refreshes
  (`RefreshElsewhere`); two versions of the data, so an answer may be overtaken; one backoff of two
  Ticks, so it can be looked at while it lasts; one restart.

* `parts`: two sessions and two modules (one stops while the other is inside, or starts), one
  cancellation that leaks; a snapshot and a journal project, two tools, staleness of one Tick; two
  claimants with two payloads and claims that live one Tick of three; three calls over a threshold
  of two failures and a recovery of two Ticks; seven widget entries, so each type, an incomplete
  one, and an MCP tool with a time to live of its own, four runs and threads side by side, threads
  that live five Ticks, two edits or failed builds; one card, the startup's thread with one replay
  and one user with two operations, two places (cards share only the file, the replay is the same
  each time); two drags, two pointer positions that would make the window too small; two tabs,
  interchangeable, with two updates in all and two revisions.

### Fairness

`FleetRepair`, `FleetWatchdog`: the watchdog is one thread that waits on nothing without a timeout
(`Wait-ServiceStatus`, `Test-Probe`, `Start-Sleep`), so its step is weakly fair; in `FleetWatchdog`
time is too, because a backoff ends by time. In `FleetUpdate` the script is a second such thread
(its waits have deadlines); nobody is obliged to start it or to kill it, nor the SCM to restart
anything. Fairness there is of the steps that bring a thread to another place (`WF_pc`, `WF_upc`).
Nothing is assumed of the services or of users. `DashboardMonitor`: builds (every probe has a
timeout, and a holder that fails releases the lock) and one open page, which polls every four
seconds (`dashboard.js`: each refresh sets a timer for the next). `StaleIsReplaced` also assumes, in
its statement, that builds do not fail for ever. `DesktopRefresh`: the worker, whose request and
wait both have timeouts, the timer of a visible page, and time. A bridge call only copies the
snapshot and takes far less than the eight seconds it has, but single ones may be given up; so
`BridgeRuns` and `PullRenders` are strongly fair. `PageCatchesUp` assumes, in its statement, that
the gateway goes on answering and the page stays visible. `WakeLeadsToClaim` counts a crash as the
end of nothing: the restarted watchdog still has to claim what no leftover claim blocks.
`AuthorityChain` and the models of `parts` need none: all their properties are safety.

## 5. What is proved

TLAPS proves the following for every value of the constants that satisfies the assumptions stated in
the modules (`ConstantsAssumption`, `NoneAssumption`; `RepairConstants`: limits are positive, and
neither lease nor gap exceeds a request's life; `MonitorConstants`, `RefreshConstants`,
`WatchdogConstants`, `UpdateConstants`, `PartsAssumption`: constants are of their kind and bounds
are numbers; of the widgets also that both types with a thread have one budget and a failure is kept
some time, as at `admin/widgets.py:64,285,319`). A theorem that needs more of them says so in its
own hypothesis.

*AuthorityChain.* `TypeCorrect` shows `TypeOK`, including what each stage carries. `ServedLinear` is
not inductive: a caller that is about to be served holds an entry that may have been superseded, and
nothing in the formula says that it was once recorded. `VerifierInv` adds this: everything served or
held at `verified` is in the ledger; the checkpoint is in the ledger and equal to or follows every
other entry of it; what was served before a call began is in the ledger too, and a `verified` call
holds an entry that is or follows all of it. Transitivity of `Follows` (`FollowsTransitive`) and the
verdict of the transaction (`AcceptedFollows`) carry the step. From it follow `ServedIsLinear`,
`ServedNeverRollsBack` and `ChainImplementsLedger`, the last because `VerifierAccept` either repeats
the checkpoint or appends what follows the whole ledger (`AcceptAppends`). `IssuerInv` is the same
for the issuer, per storage, with what is in flight between the two Workers; it gives
`VerifierStaysBehindIssuer` and `IssuerIsLinear`.

*FleetRepair.* What the comments promise of the wake-up and of the lease holds until a crash or
exception, so both theorems (`ConsumableUntilCrash`, `CoalescedIsCovered`) are of the form `crashes
= 0 => ...`. `RepairInv` says that, until then, claims on disk are exactly those in the watchdog's
hands, a live lease is covered, and so is a request that is between its two writes; the last is the
strengthening that makes it inductive, since `WriteLease` alone would otherwise create an uncovered
lease. `WakeIsConsumable` and `CoalescingIsCovered` follow.

`ServedBeforeExpiry` (`NoneExpiresUnserved`) needs a request's life to be long enough, and
`TimeToServe` says how long: `ForcedGap - 1` Ticks, three iterations, and one more for each crash or
exception. The run's values meet it exactly. With the shipped ones (a Tick is `loopSeconds`, 30 s;
gap 2 and life 20 Ticks) it allows iterations of three minutes, of two with one crash. That is an
assumption about the host: the code's timeouts (30 s for each start and stop, of up to eight
services) would allow longer ones, and then a request may expire while the watchdog is at work.
`ServeInv` gives each request that is `Owed` (nothing excuses the watchdog, no claim is left behind)
a deadline by where the watchdog is: an iteration that has `Missed` it when it collected the
requests has lasted as long as the request; until the last forced pass is `ForcedGap` old the
request is at most an iteration older than that pass; afterwards it may grow older by the rest of
this iteration and by the next, which claims it. A sleeping watchdog lets no Tick pass while it
could claim one, and what is cut short costs an iteration (`Spent`).

*DesktopRefresh.* `TypeCorrect` holds the one part of the types that is not one: a visible page that
is not about to poll has a timer (`Polling`). `RefreshNotLost` is inductive: a click is owed only
while it is queued or on its way over the bridge, the event is set, or the worker is about to fetch;
`Clears` is the step that could forget it. `DataRemains` needs `DataOrdered`: snapshot, last good
answer, file and gateway are in that order of age, over failures and restarts.

*DashboardMonitor.* `TypeCorrect` is about the lock as well: nobody is in line twice, whoever builds
is the first in line, forced requests are in line, and the refresh task is there only once something
is cached. Its lemmas say what comes to the end of a line (`Queued`) and what leaves it from any
place (`Left`). `ShownLinear` alone says nothing of what is about to be shown. `MInv` adds it: all
that has passed the checkpoint and is shown, cached, built or about to be answered (`Passed`) is in
one line with the checkpoint (`InLine`); a call's answer follows what it saw when it began
(`CallsAhead`); the last view, the cached one and the one being finished follow one another
(`ViewsAhead`). The theorems hold for any number of viewers, callers, truths and revisions.

The checkpoint of *DashboardMonitor* is a `RevisionLedger` as well. The database row keeps only the
last claim, so a history variable (`accepted`) is added to the specification (`HSpec`) that keeps
them all, and `LedgerInv` ties it to the row, which holds the newest, and to what is or may be
shown. `CheckpointImplementsLedger` is the refinement; `ShownIsAccepted` says that nothing is shown
which was never in the row. The row's `WHERE` clause compares neither keys nor times, so all entries
of this ledger have the same: a key that changes or times that go back, which the cloud Worker's
checkpoint refuses, the row itself would let pass. No run checks these two.

*FleetUpdate.* `TypeCorrect` takes the watchdog's types from `FleetWatchdogProofs`, whose instance
has the same steps (`SamePass`, `StepOfWatchdog`): the script's own steps leave its budget and file
alone, and `StopWatchdog` is its `CrashAndRestart`. `UInv` says that the flag is up while the script
runs and that without a pass under way when it went up none begins (`Paused`). So nobody but the SCM
starts the gateway before the script does, and unless the SCM did so among half-copied files, what
the gateway loads after the installation is new, whoever starts it (`Clean`). `QuietUpdate` follows
for any number of updates, thresholds and budgets, however often the SCM restarts a service.
`BudgetSurvivesUpdate` carries the cap and the cooldown of *FleetWatchdog* over an update, for one
update and local time at UTC, as there: the script's restart of the watchdog is its one crash. No
run checks these two beside the script; it follows from the watchdog's invariant, which every step
of the composition keeps (`WatchdogHonest`).

*FleetWatchdog.* `TypeCorrect` holds for any limits. `CapIsKept` and `CooldownIsKept` assume
`UtcOffset = 0`, since the run `watchdog_local_time` refutes them otherwise, and `MaxCrashes <= 1`,
since a second crash before the tunnel was looked at loses its saved restarts
(`Save-RestartState` writes only the services it has looked at). `Honestly` is the invariant: what
the watchdog remembers is exactly the restarts of the last hour, spaced by the cooldown and within
the cap, and until the crash the file says the same; `Looked` says that a service that is probed has
been looked at, so what is saved includes it.

*GatewayLifecycle.* For any sessions and modules that satisfy `LifecycleConstants`: `LInv` adds to the
properties that whoever starts or stops holds the lock and nobody is inside meanwhile (`Held`), that
somebody is counted while the modules are offered (`Numbers`), that what a start has come past runs
or has a load error or is astray (`Available`), and that what is not offered does not run but for
what a start or stop is at (`Leftover`). The last user finds nobody inside because the count, a
cardinality, has come down to the leaks (`LastUser`).

*PartsProofs* states the properties of `parts` for the specification that run checks
(`PartsAssumption`: the constants of each of the eight models are of their kind). A behaviour is of
one part for ever and a step of it is a step of that part's model (`WindowStep`, ...), so each part
is argued with its own invariant.

* `OneDrag`: `OneDragGoesOn` is inductive with the types: a drag takes the table's entry in the step in
  which it cancels the one before it, and takes away only an entry of its own.
* `SickLeftAlone`: `BreakerInv` ties the breaker's count, state and instant to the failures in a row
  and the time since the last one, which are what the property speaks of.
* `ClaimExclusive`: `ClaimInv`. Who has inserted the row is at its work or about to look (`Inserters`),
  and until somebody overruns its claim the row is still the one it inserted (`RowIsKept`), so no
  deletion of an expired row and no second insertion has come in between.
* `CallsReach`, `LastStops`: the theorems of *GatewayLifecycle*, by instance.
* `FreshHeld`: `SyncInv`. What the mirror has of a tool is at least as young as every stamp of it, in
  memory and in the file, and as those its push may yet be given (`StampsAreHeld`).
* `ShownRecent`: `HubInv`. The age of what is cached and the time it has left add up to no more than a
  run and a time to live (`CachedIsRecent`), and a run is in time (`RunsInTime`).
* `ScansAreFew`: the threads that scan for one widget are at most as many as a thread's life makes of
  `Spacing`, a run's budget and a failure's time to live, and one; each edit and each failed build may
  add one. A failed build leaves a run that nobody waits for, and an edit makes what is cached useless,
  so either may be followed by a scan that begins too early. `ScansInv` therefore sets slots apart that
  these have paid for, with at most one still to be used (`extra`, `credit`): every run that goes on
  unawaited is in one of them (`PaidFor`), and all other scans began `Spacing` apart (`Apart`). That a
  new one will too is what has to be carried along: whatever began less than `Spacing` ago is still
  awaited, or its failure is cached for the entry as it is and for as long (`Guarded`), and no run that
  goes on can end and put something else into the cache before that without having been paid for
  (`Overtaken`). Scans that are `Spacing` apart and live `ScanMax` at most have different quotients by
  `Spacing` (`SpreadOut`), and there are no more of those (`PaidIsBounded`). With the shipped budget of
  4 s, 15 s for a failure and `git` calls of 3 s, four for each of at most twelve repositories, that is
  eight threads for a widget. In the run `parts` the bound is two scans, and
  three after one edit or failed build; its four slots could exceed both. After two such events there is
  no slot for a fifth scan, and what holds then is the theorem's.
* `CardsVisible`, `CardsRemembered`: `CardsInv`. A thread has at each place the card and the job it
  needs there (`Threading`), nothing outlives the app (`EndIsBlank`), a card that is not spoiled is
  listened to once its window may be on the screen, and an event of the user on its way tells where
  he put it and is sure to be heard, since the card is armed and nobody is placing it (`EventsTell`;
  it is what would fail if a card were never armed), and a card that is not on the screen as it
  should be will be, through somebody who is to show or to hide it, and nobody does what the other
  undoes (`OnItsWay`). Proving this for several users showed that a hide which is still on a
  thread's list crosses a later show (`Queued`, 3.11).
* `ProfilePreserved`: `ProfileInv`. What the authority has, or has answered, is a change it made at
  that revision, and what it acknowledges it has taken (`AnswersAreTaken`); an update leaves the
  outbox only with such an acknowledgement, and the profile is replaced only by such a change or by
  an update that is put into the outbox in the same transaction. No task and no call knows a cursor
  the profile has not come to (`CursorsBehind`), and there is one key (`OneKey`).
* `PartsTypes` collects the types.

Only model-checked: all liveness (`WakeLeadsToClaim`, `StoppedIsStarted`, `SickMcpIsRestarted`,
`GatewayComesBack`, `StaleIsReplaced`, `PageCatchesUp`), which is beyond TLAPS. Every safety property
that a passing run checks is stated by a theorem.

## 6. Findings

1. `repair_crash`. A claim is a rename to `*.processing` without `-Force`; only the pass that made
   it removes it. After a crash or an exception between the two, the next request of that source can
   never be claimed, and the loop is woken every three seconds for it, against the comment at
   `fleet/watchdog.ps1:479-482`, until the request is ten minutes old. `repair_button` shows
   that other sources are not held up.
2. `watchdog_local_time`. `Save-RestartState` writes UTC, `Load-RestartState` compares with local
   ticks. East of UTC a restarted watchdog has forgotten every restart, against the budget of
   `docs/fleet-operations.md:29`; west of UTC it would take them for restarts in the future.
3. `update_race`. The flag is looked at only before a pass. One that is under way when the update
   script raises it finds the gateway stopped and starts it on half-installed files, which
   `fleet/Update-PoyiFleet.ps1:112-113` says the flag prevents; since the exit code of the later
   `sc.exe start` is not looked at, the update may then finish with a gateway that never loaded the
   new code. `update_quiet` shows that in the model there is one other way: the SCM restarts a gateway
   that failed shortly before the script stopped it, five seconds to a minute later.
4. `dashboard_expired`. The first viewer after a while is shown the cached view whatever its age,
   so also a signed truth that has expired, against `docs/dashboard.md:46-47`. `dashboard_shared`
   shows what holds instead: the view is replaced while a page polls, and no view ever goes back.

## 7. Not modelled, and the plan

Left out for good: OAuth (its provider is a library and its requests are stateless), rendering and
the tiles of the desktop page, hit testing and styles of windows (calls that keep no state a later
one depends on), installers and service scripts (run by hand), the module loader, redaction and
settings (conversions), the admin routes and the support bundle (stateless handlers over what is
modelled). The `components` of `PROJECT.json` give the reason for each.

Behaviour that is in the models and in no property, because the code promises nothing there: the
restart races and the leak of 3.7, the late owner of 3.8, the free trial calls of 3.9, the cards of
3.11 when one window is missing, the drags of a card whose first placement was refused (3.11), the
crossing tabs, double keys and passed-over changes of 3.13, the SCM's restart of a gateway among
half-copied files (3.5), a newer request overwritten by a claim that is put back, the second forced
pass within a minute after the watchdog restarts, and a second crash of the watchdog.

What the plan has left: the bridge calls whose answers carry a snapshot (`desktop.js:3434-3480`), in
`DesktopRefresh`.
