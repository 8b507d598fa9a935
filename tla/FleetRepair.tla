----------------------------- MODULE FleetRepair -----------------------------
(***************************************************************************)
(* The "try automatic repair" button: the desktop process drops a request  *)
(* file, and the fleet watchdog (another process, another language, only   *)
(* the file system in between) claims it and runs a forced pass.           *)
(*                                                                         *)
(* Per source there are three files: repair-<s>.json (the trigger),        *)
(* .repair-<s>.lease.json (the requester's memory of its last request) and *)
(* repair-<s>.json.processing (a trigger the watchdog has claimed).  A     *)
(* file's payload is the instant it was requested at; only its age matters,*)
(* so a file is its age, Absent when there is none, and ages stop growing  *)
(* where no code tells them apart any more.  One Tick is one period of the *)
(* watchdog's loop.                                                        *)
(*                                                                         *)
(* Timing assumptions: a sleeping watchdog polls often enough to act in    *)
(* the Tick in which it is woken; one iteration of its loop lasts at most  *)
(* MaxBusy Ticks; a request_repair call, a few file operations, ends in    *)
(* the Tick in which it read the clock, so what it writes has age 0.       *)
(***************************************************************************)
EXTENDS Integers, FiniteSets

CONSTANTS
    Sources,      \* names a request may be filed under; one requester each
    RequestTtl,   \* a request older than this is ignored (600 s)
    LeaseWindow,  \* _REPAIR_COOLDOWN_SECONDS (60 s)
    ForcedGap,    \* least time between two forced passes (60 s)
    MaxBusy,      \* bound: longest iteration of the watchdog's loop
    MaxCrashes    \* bound: watchdog crashes and aborted iterations

ASSUME RepairConstants ==
    /\ {RequestTtl, LeaseWindow, ForcedGap} \subseteq Nat \ {0}
    /\ {MaxBusy, MaxCrashes} \subseteq Nat
    /\ LeaseWindow <= RequestTtl /\ ForcedGap <= RequestTtl

Absent == -1
OldRequest == RequestTtl + 1
OldPass == IF LeaseWindow <= ForcedGap THEN ForcedGap ELSE LeaseWindow
Requests == {Absent} \cup 0 .. OldRequest
Leases == {Absent} \cup 0 .. LeaseWindow

VARIABLES
    trigger,      \* age of repair-<s>.json
    lease,        \* age of .repair-<s>.lease.json
    processing,   \* age of repair-<s>.json.processing
    maintenance,  \* maintenance.flag exists
    reqPc,        \* where each request_repair call stands
    pc,           \* where the watchdog stands
    busy,         \* Ticks since the watchdog woke
    slept,        \* the full sleep period has passed
    found,        \* $requests still to be claimed
    claimed,      \* $claimed
    sinceForced,  \* age of $script:LastForcedPass
    crashes,      \* crashes and aborts so far
    excused       \* history: the waiting ones maintenance or an ACL failure met

fileVars == <<trigger, lease, processing>>
memVars == <<found, claimed, sinceForced>>
vars == <<fileVars, maintenance, reqPc, pc, busy, slept, memVars, crashes,
          excused>>

Init ==
    /\ trigger = [s \in Sources |-> Absent]
    /\ lease = [s \in Sources |-> Absent]
    /\ processing = [s \in Sources |-> Absent]
    /\ maintenance = FALSE
    /\ reqPc = [s \in Sources |-> "idle"]
    /\ pc = "scan" /\ busy = 0 /\ slept = FALSE
    /\ found = {} /\ claimed = {}
    /\ sinceForced = OldPass      \* DateTime.MinValue
    /\ crashes = 0
    /\ excused = {}

-----------------------------------------------------------------------------
(* What both programs read from the files.                                 *)

Valid(age) == age # Absent /\ age <= RequestTtl

\* Get-ValidRepairRequests
ValidRequests == {s \in Sources : Valid(trigger[s])}

\* Variant of WakePending: the least time between forced passes is left to
\* Test-RepairTrigger.
WakePendingAnyTime == ~maintenance /\ ValidRequests # {}

\* Test-RepairWakePending
WakePending ==
    /\ ~maintenance
    /\ sinceForced >= ForcedGap
    /\ ValidRequests # {}

\* _trigger_is_current and _lease_is_current
TriggerCurrent(s) == Valid(trigger[s])
LeaseCurrent(s) == lease[s] # Absent /\ lease[s] < LeaseWindow

-----------------------------------------------------------------------------
(* Time, and the operator's maintenance flag.                              *)

Older(age, cap) == IF age \in {Absent, cap} THEN age ELSE age + 1

\* A claim is put back with its age; nobody reads that of one left behind.
OlderClaim(s) ==
    IF s \in claimed \/ processing[s] = Absent
    THEN Older(processing[s], OldRequest) ELSE OldRequest

Tick ==
    /\ \/ pc = "sleep" /\ ~slept /\ ~WakePending
       \/ pc # "sleep" /\ busy < MaxBusy
    /\ \A s \in Sources : reqPc[s] = "idle"
    /\ trigger' = [s \in Sources |-> Older(trigger[s], OldRequest)]
    /\ processing' = [s \in Sources |-> OlderClaim(s)]
    /\ lease' = [s \in Sources |-> Older(lease[s], LeaseWindow)]
    /\ sinceForced' = Older(sinceForced, OldPass)
    /\ slept' = (pc = "sleep")
    /\ busy' = IF pc = "sleep" THEN 0 ELSE busy + 1
    /\ UNCHANGED <<maintenance, reqPc, pc, found, claimed, crashes, excused>>

\* Every request that waits to be claimed.
Waiting == {s \in Sources : trigger[s] # Absent}

SetMaintenance ==
    /\ ~maintenance
    /\ maintenance' = TRUE
    /\ excused' = excused \cup Waiting
    /\ UNCHANGED <<fileVars, reqPc, pc, busy, slept, memVars, crashes>>

ClearMaintenance ==
    /\ maintenance
    /\ maintenance' = FALSE
    /\ excused' = excused \cup Waiting
    /\ UNCHANGED <<fileVars, reqPc, pc, busy, slept, memVars, crashes>>

-----------------------------------------------------------------------------
(* request_repair(s), under the requester's _REPAIR_LOCK.                  *)

ReadTrigger(s) ==
    /\ reqPc[s] = "idle"
    /\ ~TriggerCurrent(s)        \* else nothing more is done
    /\ reqPc' = [reqPc EXCEPT ![s] = "lease?"]
    /\ UNCHANGED <<fileVars, maintenance, pc, busy, slept, memVars, crashes,
                   excused>>

\* A second look at the trigger, which the watchdog may have put back by now or
\* removed, and one at the lease, which nobody but this call writes.
ReadLease(s) ==
    /\ reqPc[s] = "lease?"
    /\ reqPc' = [reqPc EXCEPT ![s] =
                    IF trigger[s] = Absent /\ LeaseCurrent(s)
                    THEN "idle" ELSE "write"]
    /\ UNCHANGED <<fileVars, maintenance, pc, busy, slept, memVars,
                   crashes, excused>>

WriteTrigger(s) ==
    /\ reqPc[s] = "write"
    /\ trigger' = [trigger EXCEPT ![s] = 0]
    /\ excused' = IF maintenance THEN excused \cup {s} ELSE excused \ {s}
    /\ reqPc' = [reqPc EXCEPT ![s] = "lease!"]
    /\ UNCHANGED <<lease, processing, maintenance, pc, busy, slept,
                   memVars, crashes>>

WriteLease(s) ==
    /\ reqPc[s] = "lease!"
    /\ lease' = [lease EXCEPT ![s] = 0]
    /\ reqPc' = [reqPc EXCEPT ![s] = "idle"]
    /\ UNCHANGED <<trigger, processing, maintenance, pc, busy, slept,
                   memVars, crashes, excused>>

\* The desktop process is killed, or a write fails, in the middle of a call.
RequesterDies(s) ==
    /\ reqPc[s] # "idle"
    /\ reqPc' = [reqPc EXCEPT ![s] = "idle"]
    /\ UNCHANGED <<fileVars, maintenance, pc, busy, slept, memVars,
                   crashes, excused>>

\* Variant of RequesterStep: the lease is written before the trigger.
LeaseFirst(s) ==
    \/ ReadTrigger(s) \/ ReadLease(s)
    \/ /\ reqPc[s] = "write"
       /\ lease' = [lease EXCEPT ![s] = 0]
       /\ reqPc' = [reqPc EXCEPT ![s] = "lease!"]
       /\ UNCHANGED <<trigger, processing, maintenance, pc, busy, slept,
                      memVars, crashes, excused>>
    \/ /\ reqPc[s] = "lease!"
       /\ trigger' = [trigger EXCEPT ![s] = 0]
       /\ reqPc' = [reqPc EXCEPT ![s] = "idle"]
       /\ UNCHANGED <<lease, processing, maintenance, pc, busy, slept,
                      memVars, crashes, excused>>

RequesterStep(s) ==
    \/ ReadTrigger(s) \/ ReadLease(s) \/ WriteTrigger(s) \/ WriteLease(s)

-----------------------------------------------------------------------------
(* The watchdog's loop.                                                    *)

Goto(stage) == pc' = stage /\ UNCHANGED <<busy, slept>>

Sleep == pc' = "sleep" /\ busy' = 0 /\ slept' = FALSE

Wake ==
    /\ pc = "sleep"
    /\ slept \/ WakePending
    /\ pc' = "scan" /\ busy' = 0 /\ slept' = FALSE
    /\ UNCHANGED <<fileVars, maintenance, reqPc, memVars, crashes, excused>>

Scan ==
    /\ pc = "scan"
    /\ found' = ValidRequests
    /\ Goto(IF ValidRequests = {} THEN "plain" ELSE "gate")
    /\ UNCHANGED <<fileVars, maintenance, reqPc, claimed, sinceForced, crashes,
                   excused>>

\* Variant of Gate: a request turned away starts the minute again.
GateExtending ==
    /\ pc = "gate"
    /\ LET refused == maintenance \/ sinceForced < ForcedGap
       IN  /\ found' = IF refused THEN {} ELSE found
           /\ sinceForced' = IF refused THEN 0 ELSE sinceForced
           /\ Goto(IF refused THEN "plain" ELSE "claim")
    /\ UNCHANGED <<fileVars, maintenance, reqPc, claimed, crashes, excused>>

Gate ==
    /\ pc = "gate"
    /\ LET refused == maintenance \/ sinceForced < ForcedGap
       IN  /\ found' = IF refused THEN {} ELSE found
           /\ Goto(IF refused THEN "plain" ELSE "claim")
    /\ UNCHANGED <<fileVars, maintenance, reqPc, claimed, sinceForced, crashes,
                   excused>>

\* Move-Item without -Force: it fails when the claim's name is taken.
Claim(s) ==
    LET moved == trigger[s] # Absent /\ processing[s] = Absent
    IN  /\ pc = "claim" /\ s \in found
        /\ found' = found \ {s}
        /\ IF moved
           THEN /\ trigger' = [trigger EXCEPT ![s] = Absent]
                /\ processing' = [processing EXCEPT ![s] = trigger[s]]
                /\ claimed' = claimed \cup {s}
                /\ excused' = excused \ {s}
           ELSE UNCHANGED <<trigger, processing, claimed, excused>>
        /\ UNCHANGED <<lease, maintenance, reqPc, pc, busy, slept, sinceForced,
                       crashes>>

\* Variant of ClaimsDone: maintenance is looked at once more, too late.
ClaimsDoneThenChecked ==
    /\ pc = "claim" /\ found = {}
    /\ sinceForced' = IF claimed = {} THEN sinceForced ELSE 0
    /\ Goto(IF claimed = {} \/ maintenance THEN "plain" ELSE "acl")
    /\ UNCHANGED <<fileVars, maintenance, reqPc, found, claimed, crashes,
                   excused>>

ClaimsDone ==
    /\ pc = "claim" /\ found = {}
    /\ sinceForced' = IF claimed = {} THEN sinceForced ELSE 0
    /\ Goto(IF claimed = {} THEN "plain" ELSE "acl")
    /\ UNCHANGED <<fileVars, maintenance, reqPc, found, claimed, crashes,
                   excused>>

\* What remains when the claims of these sources are gone.
Without(S) == [s \in Sources |-> IF s \in S THEN Absent ELSE processing[s]]

AclVerified ==
    /\ pc = "acl"
    /\ Goto("forced")
    /\ UNCHANGED <<fileVars, maintenance, reqPc, memVars, crashes, excused>>

\* The claims are put back under their old names, over newer requests too.
AclFailed ==
    /\ pc = "acl"
    /\ trigger' = [s \in Sources |->
                     IF s \in claimed THEN processing[s] ELSE trigger[s]]
    /\ processing' = Without(claimed)
    /\ excused' = excused \cup claimed
    /\ claimed' = {}
    /\ Goto("plain")
    /\ UNCHANGED <<lease, maintenance, reqPc, found, sinceForced, crashes>>

\* Variant of ForcedPassDone: the claims are forgotten, their files stay.
ForcedPassDoneLeavingClaims ==
    /\ pc = "forced"
    /\ claimed' = {}
    /\ Sleep
    /\ UNCHANGED <<trigger, lease, processing, maintenance, reqPc, found,
                   sinceForced, crashes, excused>>

\* The forced pass (see FleetWatchdog) ends and the claims are removed.
ForcedPassDone ==
    /\ pc = "forced"
    /\ processing' = Without(claimed)
    /\ claimed' = {}
    /\ Sleep
    /\ UNCHANGED <<trigger, lease, maintenance, reqPc, found, sinceForced,
                   crashes, excused>>

\* An iteration without a forced pass: skipped in maintenance, else a normal
\* pass.
PlainPass ==
    /\ pc = "plain"
    /\ Sleep
    /\ UNCHANGED <<fileVars, maintenance, reqPc, memVars, crashes, excused>>

\* An exception ends the iteration; the catch of the main loop logs it.
Abort ==
    /\ crashes < MaxCrashes
    /\ pc \in {"scan", "gate", "claim", "acl", "forced", "plain"}
    /\ crashes' = crashes + 1
    /\ found' = {} /\ claimed' = {}
    /\ Sleep
    /\ UNCHANGED <<fileVars, maintenance, reqPc, sinceForced, excused>>

\* The watchdog's process dies and WinSW starts it again.
Crash ==
    /\ crashes < MaxCrashes
    /\ crashes' = crashes + 1
    /\ found' = {} /\ claimed' = {} /\ sinceForced' = OldPass
    /\ pc' = "scan" /\ busy' = 0 /\ slept' = FALSE
    /\ UNCHANGED <<fileVars, maintenance, reqPc, excused>>

WatchdogStep ==
    \/ Wake \/ Scan \/ Gate \/ ClaimsDone \/ AclVerified \/ AclFailed
    \/ ForcedPassDone \/ PlainPass
    \/ \E s \in Sources : Claim(s)

Next ==
    \/ Tick \/ SetMaintenance \/ ClearMaintenance
    \/ WatchdogStep \/ Abort \/ Crash
    \/ \E s \in Sources : RequesterStep(s) \/ RequesterDies(s)

\* A live watchdog keeps running its loop: it is one thread that never blocks
\* on anything but calls with a timeout.
Spec == Init /\ [][Next]_vars /\ WF_vars(WatchdogStep)

-----------------------------------------------------------------------------
(* Properties.                                                             *)

\* Types; what the watchdog holds in memory is on disk under the claim's
\* name, and it holds claims only while it works on them.
TypeOK ==
    /\ trigger \in [Sources -> Requests] /\ lease \in [Sources -> Leases]
    /\ processing \in [Sources -> Requests] /\ maintenance \in BOOLEAN
    /\ reqPc \in [Sources -> {"idle", "lease?", "write", "lease!"}]
    /\ pc \in {"sleep", "scan", "gate", "claim", "acl", "forced", "plain"}
    /\ busy \in 0 .. MaxBusy /\ slept \in BOOLEAN
    /\ found \subseteq Sources
    /\ claimed \subseteq {s \in Sources : processing[s] # Absent}
    /\ sinceForced \in 0 .. OldPass
    /\ crashes \in 0 .. MaxCrashes
    /\ excused \subseteq Sources
    /\ claimed # {} => pc \in {"claim", "acl", "forced"}
    /\ found # {} => pc \in {"gate", "claim"}

\* The comment above Test-RepairWakePending: a sleeping watchdog is woken
\* early only by a request that a forced pass can actually consume.
WakeOnlyIfConsumable ==
    pc = "sleep" /\ WakePending => \E s \in ValidRequests : processing[s] = Absent

\* That comment is right as long as the watchdog has not been interrupted in
\* the middle of an iteration (afterwards it is not: run repair_crash).
ConsumableUntilCrash == crashes = 0 => WakeOnlyIfConsumable

\* Until then, a second click is answered from the lease only if the first one
\* reached the watchdog: its trigger is still there, or has been claimed, or a
\* forced pass began after it was written.
CoalescedIsCovered ==
    crashes = 0 =>
        \A s \in Sources :
            lease[s] \in 0 .. (LeaseWindow - 1) /\ trigger[s] = Absent =>
                s \in claimed \/ sinceForced <= lease[s]

\* A request is claimed before it expires, whatever else the watchdog was doing
\* when it arrived, unless maintenance or an ACL failure held it up.  A crash
\* or an aborted iteration holds up only the sources whose claims it left
\* behind: a .processing file of one never delays the request of another.
NoneExpiresUnserved ==
    \A s \in Sources :
        trigger[s] > RequestTtl =>
            s \in excused \/ (crashes > 0 /\ processing[s] # Absent)

\* Waking early is not in vain, also when the watchdog crashes on the way: when
\* a request wakes it that nothing has held up so far and no claim left behind
\* stands in the way of, a claim follows, or maintenance begins.
WakeLeadsToClaim ==
    (pc = "sleep" /\ WakePending
        /\ \E s \in ValidRequests \ excused : processing[s] = Absent)
    ~> (claimed # {} \/ maintenance)
=============================================================================
