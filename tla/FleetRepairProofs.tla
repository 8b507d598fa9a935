-------------------------- MODULE FleetRepairProofs --------------------------
(* Proofs about FleetRepair, for any number of sources and any limits.  As  *)
(* long as the watchdog has neither crashed nor aborted an iteration, a     *)
(* wake-up can be consumed and a coalesced request is covered.              *)
EXTENDS FleetRepair, TLAPS

\* The limits, and the ages derived from them, are numbers.
LEMMA LimitTypes ==
    /\ RequestTtl \in Nat /\ LeaseWindow \in Nat /\ ForcedGap \in Nat
    /\ MaxBusy \in Nat /\ MaxCrashes \in Nat
    /\ OldRequest \in Nat /\ OldPass \in Nat /\ LeaseWindow <= OldPass
BY RepairConstants DEF OldRequest, OldPass

\* An age stays within its range, and a file that is there stays there.
LEMMA OlderTypes ==
    ASSUME NEW cap \in Nat, NEW age \in {Absent} \cup 0 .. cap
    PROVE  /\ Older(age, cap) \in {Absent} \cup 0 .. cap
           /\ age = Absent <=> Older(age, cap) = Absent
           /\ age # Absent => Older(age, cap) \in 0 .. cap
BY DEF Older, Absent

\* So does a claim, left behind or in hand.
LEMMA OlderClaimTypes ==
    ASSUME TypeOK, NEW s \in Sources
    PROVE  /\ OlderClaim(s) \in Requests
           /\ processing[s] = Absent <=> OlderClaim(s) = Absent
BY LimitTypes, OlderTypes DEF OlderClaim, TypeOK, Requests, Absent

\* The initial state of the watchdog and an empty repair directory are typed.
LEMMA TypesInit == Init => TypeOK
<1> SUFFICES ASSUME Init PROVE TypeOK
    OBVIOUS
<1>1. maintenance \in BOOLEAN /\ slept \in BOOLEAN
    BY Zenon DEF Init
<1> QED BY <1>1, LimitTypes DEF Init, TypeOK, Requests, Leases

\* Time passing keeps the types: ages stop at their caps.
LEMMA TypesTick == ASSUME TypeOK, Tick PROVE TypeOK'
<1>1. trigger' \in [Sources -> Requests] /\ processing' \in [Sources -> Requests]
    BY LimitTypes, OlderTypes, OlderClaimTypes DEF TypeOK, Tick, Requests
<1>2. lease' \in [Sources -> Leases]
    BY LimitTypes, OlderTypes DEF TypeOK, Tick, Leases
<1>3. sinceForced' \in 0 .. OldPass
    BY LimitTypes, OlderTypes DEF TypeOK, Tick, Absent
<1>4. \A s \in Sources : processing[s] # Absent => processing'[s] # Absent
    BY OlderClaimTypes DEF Tick
<1>5. claimed' \subseteq {s \in Sources : processing'[s] # Absent}
    BY <1>4 DEF TypeOK, Tick
<1>6. busy' \in 0 .. MaxBusy
    BY LimitTypes DEF TypeOK, Tick
<1>7. slept' \in BOOLEAN
    BY Zenon DEF Tick
<1> QED BY <1>1, <1>2, <1>3, <1>5, <1>6, <1>7 DEF TypeOK, Tick

\* Each step of request_repair, and its process dying, keeps the types.
LEMMA TypesRequester ==
    ASSUME TypeOK, NEW s \in Sources, RequesterStep(s) \/ RequesterDies(s)
    PROVE  TypeOK'
<1>1. 0 \in Requests /\ 0 \in Leases
    BY LimitTypes DEF Requests, Leases
<1> QED BY <1>1 DEF RequesterStep, ReadTrigger, ReadLease, WriteTrigger,
                    WriteLease, RequesterDies, TypeOK, memVars, fileVars

\* Each step of the watchdog's loop and of Test-RepairTrigger keeps the types.
LEMMA TypesWatchdog == ASSUME TypeOK, WatchdogStep PROVE TypeOK'
<1> USE DEF TypeOK, memVars, fileVars, Goto, Sleep
<1>1. CASE Wake
    <2>1. slept' \in BOOLEAN
        BY <1>1, Zenon DEF Wake
    <2> QED BY <1>1, <2>1, LimitTypes DEF Wake
<1>2. CASE Scan
    BY <1>2 DEF Scan, ValidRequests
<1>3. CASE Gate
    BY <1>3 DEF Gate
<1>4. ASSUME NEW s \in Sources, Claim(s) PROVE TypeOK'
    <2>1. Absent \in Requests
        BY DEF Requests
    <2> QED BY <1>4, <2>1 DEF Claim
<1>5. CASE ClaimsDone
    BY <1>5, LimitTypes DEF ClaimsDone
<1>6. CASE AclVerified
    BY <1>6 DEF AclVerified
<1>7. CASE AclFailed
    BY <1>7 DEF AclFailed, Without, Requests
<1>8. CASE ForcedPassDone
    <2>1. slept' \in BOOLEAN
        BY <1>8, Zenon DEF ForcedPassDone
    <2> QED BY <1>8, <2>1, LimitTypes DEF ForcedPassDone, Without, Requests
<1>9. CASE PlainPass
    <2>1. slept' \in BOOLEAN
        BY <1>9, Zenon DEF PlainPass
    <2> QED BY <1>9, <2>1, LimitTypes DEF PlainPass
<1> QED BY <1>1, <1>2, <1>3, <1>4, <1>5, <1>6, <1>7, <1>8, <1>9
        DEF WatchdogStep

\* Type correctness: in particular the watchdog's $claimed are always on disk
\* as .processing files, and it sleeps with none in hand.
THEOREM TypeCorrect == Spec => []TypeOK
<1>1. TypeOK /\ [Next]_vars => TypeOK'
    <2> SUFFICES ASSUME TypeOK, [Next]_vars PROVE TypeOK'
        OBVIOUS
    <2>1. CASE Tick
        BY <2>1, TypesTick
    <2>2. CASE SetMaintenance \/ ClearMaintenance
        BY <2>2 DEF SetMaintenance, ClearMaintenance, Waiting, TypeOK, memVars,
                    fileVars
    <2>3. CASE WatchdogStep
        BY <2>3, TypesWatchdog
    <2>4. CASE Abort \/ Crash
        <3>1. slept' \in BOOLEAN
            BY <2>4, Zenon DEF Abort, Crash, Sleep
        <3> QED BY <2>4, <3>1, LimitTypes DEF Abort, Crash, Sleep, TypeOK, fileVars
    <2>5. ASSUME NEW s \in Sources, RequesterStep(s) \/ RequesterDies(s)
          PROVE  TypeOK'
        BY <2>5, TypesRequester
    <2>6. CASE UNCHANGED vars
        BY <2>6 DEF vars, TypeOK, memVars, fileVars
    <2> QED BY <2>1, <2>2, <2>3, <2>4, <2>5, <2>6 DEF Next
<1> QED BY <1>1, TypesInit, PTL DEF Spec

-----------------------------------------------------------------------------
\* Every claim on disk is in the watchdog's hands.
ClaimsHeld == \A s \in Sources : processing[s] # Absent => s \in claimed

\* A request of this age whose trigger is gone has reached the watchdog: it is
\* among the claims being collected, or the forced pass began after it.
Reached(s, age) == (pc = "claim" /\ s \in claimed) \/ sinceForced <= age

LeaseReached ==
    \A s \in Sources :
        trigger[s] = Absent /\ lease[s] \in 0 .. (LeaseWindow - 1) =>
            Reached(s, lease[s])

\* ... also before its lease is written, when its age is still 0.
WrittenReached ==
    \A s \in Sources :
        trigger[s] = Absent /\ reqPc[s] = "lease!" => Reached(s, 0)

Undisturbed == ClaimsHeld /\ LeaseReached /\ WrittenReached
RepairInv == crashes = 0 => Undisturbed

\* Time passing keeps the claims in hand and the requests reached: a lease and
\* the time since the forced pass age together.
LEMMA RepairTick == ASSUME TypeOK, Undisturbed, Tick PROVE Undisturbed'
<1> USE LimitTypes
<1>1. ClaimsHeld'
    BY OlderClaimTypes DEF Undisturbed, ClaimsHeld, Tick
<1>2. WrittenReached'
    BY DEF TypeOK, WrittenReached, Tick
<1>3. LeaseReached'
    <2> SUFFICES ASSUME NEW s \in Sources, trigger'[s] = Absent,
                        lease'[s] \in 0 .. (LeaseWindow - 1)
                 PROVE  Reached(s, lease[s])'
        BY DEF LeaseReached
    <2>1. trigger[s] = Absent
        BY OlderTypes DEF TypeOK, Tick, Requests
    <2>2. lease[s] \in 0 .. (LeaseWindow - 1) /\ lease'[s] = lease[s] + 1
        BY DEF TypeOK, Tick, Older, Leases, Absent
    <2>3. Reached(s, lease[s])
        BY <2>1, <2>2 DEF Undisturbed, LeaseReached
    <2>4. sinceForced <= lease[s] => sinceForced' <= lease[s] + 1
        BY <2>2 DEF TypeOK, Tick, Older, Absent
    <2> QED BY <2>2, <2>3, <2>4 DEF Reached, Tick
<1> QED BY <1>1, <1>2, <1>3 DEF Undisturbed

\* Each step of request_repair keeps them: a trigger is on disk before its lease.
LEMMA RepairRequester ==
    ASSUME TypeOK, Undisturbed, NEW r \in Sources,
           RequesterStep(r) \/ RequesterDies(r)
    PROVE  Undisturbed'
<1> USE LimitTypes DEF Undisturbed, ClaimsHeld, LeaseReached, WrittenReached,
                       Reached, TypeOK, fileVars, memVars
<1>1. CASE ReadTrigger(r) \/ ReadLease(r) \/ RequesterDies(r)
    BY <1>1 DEF ReadTrigger, ReadLease, RequesterDies
<1>2. CASE WriteTrigger(r)
    BY <1>2 DEF WriteTrigger, Absent
<1>3. CASE WriteLease(r)
    BY <1>3 DEF WriteLease
<1> QED BY <1>1, <1>2, <1>3 DEF RequesterStep

\* Each step of the watchdog keeps them: a trigger is removed only by claiming
\* it, and the forced pass is stamped with the claims in hand.
LEMMA RepairWatchdog ==
    ASSUME TypeOK, Undisturbed, WatchdogStep
    PROVE  Undisturbed'
<1> USE LimitTypes DEF Undisturbed, ClaimsHeld, LeaseReached, WrittenReached,
                       Reached, TypeOK, fileVars, memVars, Goto, Sleep
<1>1. CASE Wake \/ Scan \/ Gate \/ AclVerified \/ PlainPass
    BY <1>1 DEF Wake, Scan, Gate, AclVerified, PlainPass
<1>2. ASSUME NEW s \in Sources, Claim(s) PROVE Undisturbed'
    BY <1>2 DEF Claim
<1>3. CASE ClaimsDone
    BY <1>3 DEF ClaimsDone
<1>4. CASE AclFailed
    BY <1>4 DEF AclFailed, Without
<1>5. CASE ForcedPassDone
    BY <1>5 DEF ForcedPassDone, Without
<1> QED BY <1>1, <1>2, <1>3, <1>4, <1>5 DEF WatchdogStep

\* Until the watchdog first crashes or aborts an iteration, every claim on disk
\* is in its hands, and every leased request has reached it.
THEOREM RepairInvariant == Spec => []RepairInv
<1>1. Init => RepairInv
    BY LimitTypes DEF Init, RepairInv, Undisturbed, ClaimsHeld, LeaseReached,
                      WrittenReached, Absent
<1>2. TypeOK /\ TypeOK' /\ RepairInv /\ [Next]_vars => RepairInv'
    <2> SUFFICES ASSUME TypeOK, RepairInv, [Next]_vars, crashes' = 0
                 PROVE  Undisturbed'
        BY DEF RepairInv
    <2>1. ~Abort /\ ~Crash
        BY LimitTypes DEF Abort, Crash, TypeOK
    <2>2. CASE Tick
        BY <2>2, RepairTick DEF Tick, RepairInv
    <2>3. CASE SetMaintenance \/ ClearMaintenance \/ UNCHANGED vars
        BY <2>3 DEF SetMaintenance, ClearMaintenance, vars, RepairInv,
                    Undisturbed, ClaimsHeld, LeaseReached, WrittenReached,
                    Reached, memVars, fileVars
    <2>4. CASE WatchdogStep
        <3>1. crashes' = crashes
            BY <2>4 DEF WatchdogStep, Wake, Scan, Gate, Claim, ClaimsDone,
                        AclVerified, AclFailed, ForcedPassDone, PlainPass
        <3> QED BY <2>4, <3>1, RepairWatchdog DEF RepairInv
    <2>5. ASSUME NEW s \in Sources, RequesterStep(s) \/ RequesterDies(s)
          PROVE  Undisturbed'
        <3>1. crashes' = crashes
            BY <2>5 DEF RequesterStep, ReadTrigger, ReadLease, WriteTrigger,
                        WriteLease, RequesterDies
        <3> QED BY <2>5, <3>1, RepairRequester DEF RepairInv
    <2> QED BY <2>1, <2>2, <2>3, <2>4, <2>5 DEF Next
<1> QED BY <1>1, <1>2, TypeCorrect, PTL DEF Spec

\* Until a crash, Test-RepairWakePending wakes the loop only for a request
\* that Test-RepairTrigger can claim.
THEOREM WakeIsConsumable == Spec => []ConsumableUntilCrash
<1>1. TypeOK /\ RepairInv => ConsumableUntilCrash
    BY DEF TypeOK, RepairInv, Undisturbed, ClaimsHeld, ConsumableUntilCrash,
           WakeOnlyIfConsumable, WakePending, ValidRequests
<1> QED BY <1>1, TypeCorrect, RepairInvariant, PTL

\* Until a crash, request_repair answers a click from the lease only when the
\* earlier request has reached the watchdog.
THEOREM CoalescingIsCovered == Spec => []CoalescedIsCovered
<1>1. RepairInv => CoalescedIsCovered
    BY DEF RepairInv, Undisturbed, LeaseReached, Reached, CoalescedIsCovered
<1> QED BY <1>1, RepairInvariant, PTL

-----------------------------------------------------------------------------
(* No request expires unserved.                                            *)

\* A request has time for an iteration that missed it, for the forced pass of
\* that iteration to be ForcedGap old, for the iteration then under way, for
\* the one that claims it, and for each of these that is cut short.
TimeToServe ==
    /\ MaxBusy >= 1
    /\ (ForcedGap - 1) + 3 * MaxBusy + MaxCrashes * MaxBusy <= RequestTtl

\* The time that iterations cut short may have cost.
Spent == crashes * MaxBusy

\* A request that is to be served: nothing excuses the watchdog, and no claim
\* is left behind under its name.
Owed(s) ==
    /\ trigger[s] # Absent /\ s \notin excused
    /\ processing[s] = Absent \/ s \in claimed

\* This iteration has collected the requests, and not this one.
Missed(s) == pc \in {"gate", "claim"} /\ s \notin found

\* This iteration will meet it, and can if the last forced pass is old enough.
Meets(s) == pc = "scan" \/ (pc \in {"gate", "claim"} /\ s \in found)

\* How old it can be, by how far it and the watchdog have come.
InTime(s) ==
    /\ Missed(s) => trigger[s] <= busy
    /\ sinceForced < ForcedGap /\ ~Missed(s) => trigger[s] <= sinceForced + MaxBusy
    /\ sinceForced >= ForcedGap =>
           /\ pc = "sleep" => trigger[s] <= (ForcedGap - 1) + 2 * MaxBusy + Spent
           /\ Meets(s) => trigger[s] <= (ForcedGap - 1) + 2 * MaxBusy + Spent + busy
           /\ pc \in {"acl", "forced", "plain"} =>
                 trigger[s] <= (ForcedGap - 1) + MaxBusy + busy

ServeInv ==
    /\ maintenance => Waiting \subseteq excused
    /\ claimed \cap found = {}
    /\ pc = "claim" => sinceForced >= ForcedGap
    /\ \A s \in Sources : Owed(s) => InTime(s)

\* All that is added up here are numbers.
LEMMA TimeTypes ==
    ASSUME TypeOK
    PROVE  /\ Spent \in Nat /\ Spent <= MaxCrashes * MaxBusy
           /\ ForcedGap \in Nat \ {0} /\ MaxBusy \in Nat /\ RequestTtl \in Nat
           /\ busy \in 0 .. MaxBusy /\ sinceForced \in 0 .. OldPass
           /\ OldPass \in Nat /\ ForcedGap <= OldPass
           /\ OldRequest \in Nat /\ crashes \in Nat
           /\ \A s \in Sources : trigger[s] # Absent => trigger[s] \in Nat
<1>1. crashes \in Nat /\ MaxBusy \in Nat /\ MaxCrashes - crashes \in Nat
    BY LimitTypes DEF TypeOK
<1>2. \A a, b \in Nat : a * b \in Nat
    OBVIOUS
<1>3. Spent \in Nat /\ (MaxCrashes - crashes) * MaxBusy \in Nat
    BY <1>1, <1>2 DEF Spent
<1>4. Spent <= MaxCrashes * MaxBusy
    BY <1>1, <1>3, LimitTypes DEF Spent
<1>5. \A s \in Sources : trigger[s] # Absent => trigger[s] \in Nat
    BY LimitTypes DEF TypeOK, Requests
<1> QED BY <1>1, <1>3, <1>4, <1>5, LimitTypes, RepairConstants DEF TypeOK, OldPass

\* A request that is in time has not expired, and is one the watchdog counts.
LEMMA StillValid ==
    ASSUME TimeToServe, TypeOK, NEW s \in Sources, Owed(s), InTime(s)
    PROVE  trigger[s] <= RequestTtl /\ s \in ValidRequests
<1>1. trigger[s] <= RequestTtl
    <2>1. trigger[s] <= (ForcedGap - 1) + 3 * MaxBusy + Spent
        <3>1. CASE Missed(s)
            BY <3>1, TimeTypes DEF InTime, Missed, Owed
        <3>2. CASE sinceForced < ForcedGap /\ ~Missed(s)
            BY <3>2, TimeTypes DEF InTime, Owed, TimeToServe
        <3>3. CASE sinceForced >= ForcedGap /\ ~Missed(s)
            BY <3>3, TimeTypes DEF InTime, Meets, Missed, Owed, TypeOK, TimeToServe
        <3> QED BY <3>1, <3>2, <3>3, TimeTypes
    <2> QED BY <2>1, TimeTypes, LimitTypes DEF TimeToServe, Owed
<1> QED BY <1>1 DEF ValidRequests, Valid, Owed

\* While one is owed, there is no maintenance.
LEMMA NoMaintenance ==
    ASSUME ServeInv, NEW s \in Sources, Owed(s) PROVE ~maintenance
BY DEF ServeInv, Owed, Waiting

-----------------------------------------------------------------------------
\* A Tick: a sleeping watchdog does not let one pass while a request that it
\* could claim waits.
LEMMA ServeTick == ASSUME TimeToServe, TypeOK, ServeInv, Tick PROVE ServeInv'
<1>1. /\ UNCHANGED <<maintenance, pc, found, claimed, crashes, excused>>
      /\ UNCHANGED Spent
    BY DEF Tick, Spent
<1>2. \A s \in Sources : trigger'[s] = Absent <=> trigger[s] = Absent
    BY OlderTypes, LimitTypes DEF Tick, TypeOK, Requests
<1>3. \A s \in Sources : processing'[s] = Absent <=> processing[s] = Absent
    BY OlderClaimTypes DEF Tick
<1>4. ASSUME NEW s \in Sources, Owed(s)' PROVE InTime(s)'
    <2>1. Owed(s) /\ InTime(s)
        BY <1>1, <1>2, <1>3, <1>4 DEF Owed, ServeInv
    <2>2. s \in ValidRequests /\ ~maintenance
        BY <2>1, StillValid, NoMaintenance
    <2>3. trigger[s] \in Nat /\ trigger'[s] \in Nat /\ trigger'[s] <= trigger[s] + 1
        BY <2>1, TimeTypes DEF Tick, Older, Owed, Absent
    <2>4. pc = "sleep" => sinceForced < ForcedGap
        BY <2>2, TimeTypes DEF Tick, WakePending
    <2>5. pc # "sleep" => busy' = busy + 1
        BY DEF Tick
    <2>6. sinceForced < ForcedGap => sinceForced' = sinceForced + 1
        BY TimeTypes DEF Tick, Older, Absent
    <2>7. /\ sinceForced >= ForcedGap => sinceForced' >= ForcedGap
          /\ sinceForced' \in Nat
        BY TimeTypes DEF Tick, Older, Absent
    <2>8. (Missed(s)' <=> Missed(s)) /\ (Meets(s)' <=> Meets(s))
        BY <1>1 DEF Missed, Meets
    <2>9. Missed(s) => trigger'[s] <= busy'
        BY <2>1, <2>3, <2>5, TimeTypes DEF InTime, Missed
    <2>10. sinceForced' < ForcedGap /\ ~Missed(s) =>
               trigger'[s] <= sinceForced' + MaxBusy
        <3>1. CASE sinceForced < ForcedGap
            BY <2>1, <2>3, <2>6, <3>1, TimeTypes DEF InTime
        <3>2. CASE sinceForced >= ForcedGap
            BY <2>7, <3>2, TimeTypes
        <3> QED BY <3>1, <3>2, TimeTypes
    <2>11. ASSUME sinceForced' >= ForcedGap
           PROVE  /\ pc = "sleep" => trigger'[s] <= (ForcedGap - 1) + 2 * MaxBusy + Spent
                  /\ Meets(s) =>
                        trigger'[s] <= (ForcedGap - 1) + 2 * MaxBusy + Spent + busy'
                  /\ pc \in {"acl", "forced", "plain"} =>
                        trigger'[s] <= (ForcedGap - 1) + MaxBusy + busy'
        <3>1. CASE sinceForced >= ForcedGap
            BY <2>1, <2>3, <2>4, <2>5, <3>1, TimeTypes DEF InTime, Meets
        <3>2. CASE sinceForced < ForcedGap /\ ~Missed(s)
            <4>1. trigger'[s] <= (ForcedGap - 1) + MaxBusy + 1
                BY <2>1, <2>3, <2>6, <2>11, <3>2, TimeTypes DEF InTime
            <4> QED BY <2>3, <2>5, <4>1, TimeTypes DEF TimeToServe, Meets
        <3>3. CASE Missed(s)
            BY <3>3 DEF Missed, Meets
        <3> QED BY <3>1, <3>2, <3>3, TimeTypes
    <2> QED BY <1>1, <2>8, <2>9, <2>10, <2>11 DEF InTime
<1>5. (maintenance => Waiting \subseteq excused)'
    BY <1>1, <1>2 DEF ServeInv, Waiting
<1>6. sinceForced >= ForcedGap => sinceForced' >= ForcedGap
    BY TimeTypes DEF Tick, Older, Absent
<1> QED BY <1>1, <1>4, <1>5, <1>6 DEF ServeInv

\* What changes nothing of an owed request, nor where the watchdog is with it.
LEMMA ServeSame ==
    ASSUME ServeInv,
           UNCHANGED <<trigger, processing, pc, busy, found, claimed, sinceForced, crashes>>,
           excused \subseteq excused', maintenance' => Waiting \subseteq excused'
    PROVE  ServeInv'
<1>1. \A s \in Sources : Owed(s)' => Owed(s)
    BY DEF Owed
<1>2. \A s \in Sources : InTime(s)' <=> InTime(s)
    BY DEF InTime, Missed, Meets, Spent
<1>3. (maintenance => Waiting \subseteq excused)'
    BY DEF Waiting
<1> QED BY <1>1, <1>2, <1>3 DEF ServeInv

\* request_repair: a request that is written is new.
LEMMA ServeRequester ==
    ASSUME TimeToServe, TypeOK, ServeInv, NEW r \in Sources,
           RequesterStep(r) \/ RequesterDies(r)
    PROVE  ServeInv'
<1>1. CASE ReadTrigger(r) \/ ReadLease(r) \/ WriteLease(r) \/ RequesterDies(r)
    <2>1. UNCHANGED <<trigger, processing, maintenance, pc, busy, memVars, crashes, excused>>
        BY <1>1 DEF ReadTrigger, ReadLease, WriteLease, RequesterDies, fileVars
    <2> QED BY <2>1, ServeSame DEF memVars, ServeInv
<1>2. CASE WriteTrigger(r)
    <2>1. /\ trigger' = [trigger EXCEPT ![r] = 0]
          /\ excused' = IF maintenance THEN excused \cup {r} ELSE excused \ {r}
          /\ UNCHANGED <<processing, maintenance, pc, busy, found, claimed, sinceForced,
                         crashes>>
        BY <1>2 DEF WriteTrigger, memVars
    <2>2. (maintenance => Waiting \subseteq excused)'
        BY <2>1 DEF ServeInv, Waiting, TypeOK
    <2>3. InTime(r)'
        <3>1. trigger'[r] = 0
            BY <2>1 DEF TypeOK
        <3> QED BY <2>1, <3>1, TimeTypes DEF InTime, Missed, Meets, Spent, TimeToServe
    <2>4. ASSUME NEW s \in Sources, s # r, Owed(s)' PROVE InTime(s)'
        <3>1. trigger'[s] = trigger[s]
            BY <2>1, <2>4 DEF TypeOK
        <3>2. Owed(s)
            BY <2>1, <2>4, <3>1 DEF Owed
        <3>3. InTime(s)
            BY <3>2 DEF ServeInv
        <3> QED BY <2>1, <3>1, <3>3 DEF InTime, Missed, Meets, Spent
    <2> QED BY <2>1, <2>2, <2>3, <2>4 DEF ServeInv
<1> QED BY <1>1, <1>2 DEF RequesterStep

\* Where the watchdog goes on, with no request claimed or put back: those that
\* are owed were so before, and are if they are in time at its new place.
LEMMA ServeGoesOn ==
    ASSUME TimeToServe, TypeOK, ServeInv,
           UNCHANGED <<trigger, maintenance, excused, crashes>>,
           \A s \in Sources : Owed(s)' => Owed(s),
           claimed' \cap found' = {}, pc' = "claim" => sinceForced' >= ForcedGap,
           \A s \in Sources : Owed(s) /\ InTime(s) => InTime(s)'
    PROVE  ServeInv'
<1>1. (maintenance => Waiting \subseteq excused)'
    BY DEF ServeInv, Waiting
<1> QED BY <1>1 DEF ServeInv

\* The watchdog wakes, looks, and finds every request that is owed.
LEMMA ServeScan ==
    ASSUME TimeToServe, TypeOK, ServeInv, Wake \/ Scan PROVE ServeInv'
<1>1. UNCHANGED <<trigger, processing, maintenance, excused, crashes, claimed, sinceForced>>
    BY DEF Wake, Scan, fileVars, memVars
<1>2. \A s \in Sources : Owed(s)' => Owed(s)
    BY <1>1 DEF Owed
<1>3. claimed' \cap found' = {}
    BY <1>1 DEF ServeInv, Wake, Scan, TypeOK, memVars
<1>4. ASSUME NEW s \in Sources, Owed(s), InTime(s) PROVE InTime(s)'
    <2>1. CASE Wake
        <3>1. pc = "sleep" /\ pc' = "scan" /\ busy' = 0
            BY <2>1 DEF Wake
        <3> QED BY <1>1, <1>4, <3>1, TimeTypes DEF InTime, Missed, Meets, Spent, Owed
    <2>2. CASE Scan
        <3>1. s \in ValidRequests
            BY <1>4, StillValid
        <3>2. pc = "scan" /\ pc' = "gate" /\ s \in found' /\ UNCHANGED busy
            BY <2>2, <3>1 DEF Scan, Goto
        <3> QED BY <1>1, <1>4, <3>2, TimeTypes DEF InTime, Missed, Meets, Spent, Owed
    <2> QED BY <2>1, <2>2
<1>5. pc' # "claim"
    BY DEF Wake, Scan, Goto
<1> QED BY <1>1, <1>2, <1>3, <1>4, <1>5, ServeGoesOn

\* Test-RepairTrigger turns away what the last forced pass is too young for.
LEMMA ServeGate == ASSUME TimeToServe, TypeOK, ServeInv, Gate PROVE ServeInv'
<1>1. /\ UNCHANGED <<trigger, processing, maintenance, excused, crashes, claimed,
                     sinceForced, busy>>
      /\ pc = "gate" /\ claimed = {}
    BY DEF Gate, Goto, fileVars, TypeOK
<1>2. \A s \in Sources : Owed(s)' => Owed(s)
    BY <1>1 DEF Owed
<1>3. ASSUME NEW s \in Sources, Owed(s), InTime(s) PROVE InTime(s)'
    <2>1. ~maintenance
        BY <1>3, NoMaintenance
    <2>2. \/ sinceForced < ForcedGap /\ pc' = "plain"
          \/ sinceForced >= ForcedGap /\ pc' = "claim" /\ found' = found
        BY <2>1, TimeTypes DEF Gate, Goto
    <2>3. CASE sinceForced < ForcedGap /\ pc' = "plain"
        BY <1>1, <1>3, <2>3, TimeTypes DEF InTime, Missed, Meets, Spent, Owed
    <2>4. CASE sinceForced >= ForcedGap /\ pc' = "claim" /\ found' = found
        BY <1>1, <1>3, <2>4, TimeTypes DEF InTime, Missed, Meets, Spent, Owed
    <2> QED BY <2>2, <2>3, <2>4
<1>4. pc' = "claim" => sinceForced' >= ForcedGap
    BY <1>1, TimeTypes DEF Gate, Goto
<1>5. claimed' \cap found' = {}
    BY <1>1
<1> QED BY <1>1, <1>2, <1>3, <1>4, <1>5, ServeGoesOn

\* A request that this iteration has found is claimed: one whose claim's name is
\* taken is not owed.
LEMMA ServeClaim ==
    ASSUME TimeToServe, TypeOK, ServeInv, NEW r \in Sources, Claim(r)
    PROVE  ServeInv'
<1>1. /\ UNCHANGED <<maintenance, pc, busy, sinceForced, crashes>>
      /\ pc = "claim" /\ r \in found /\ found' = found \ {r}
    BY DEF Claim
<1>2. CASE trigger[r] # Absent /\ processing[r] = Absent
    <2>1. /\ trigger' = [trigger EXCEPT ![r] = Absent]
          /\ processing' = [processing EXCEPT ![r] = trigger[r]]
          /\ claimed' = claimed \cup {r} /\ excused' = excused \ {r}
        BY <1>2 DEF Claim
    <2>2. claimed' \cap found' = {}
        BY <1>1, <2>1 DEF ServeInv
    <2>3. (maintenance => Waiting \subseteq excused)'
        BY <1>1, <2>1 DEF ServeInv, Waiting, TypeOK
    <2>4. ASSUME NEW s \in Sources, Owed(s)' PROVE InTime(s)'
        <3>1. s # r /\ trigger'[s] = trigger[s]
            BY <2>1, <2>4 DEF Owed, TypeOK
        <3>2. Owed(s)
            BY <2>1, <2>4, <3>1 DEF Owed, TypeOK
        <3>3. InTime(s)
            BY <3>2 DEF ServeInv
        <3> QED BY <1>1, <3>1, <3>3 DEF InTime, Missed, Meets, Spent
    <2> QED BY <1>1, <2>2, <2>3, <2>4 DEF ServeInv
<1>3. CASE ~(trigger[r] # Absent /\ processing[r] = Absent)
    <2>1. UNCHANGED <<trigger, processing, claimed, excused>>
        BY <1>3 DEF Claim
    <2>2. ~Owed(r)
        BY <1>1, <1>3 DEF Owed, ServeInv
    <2>3. ASSUME NEW s \in Sources, Owed(s), InTime(s) PROVE InTime(s)'
        BY <1>1, <2>1, <2>2, <2>3 DEF InTime, Missed, Meets, Spent
    <2>4. \A s \in Sources : Owed(s)' => Owed(s)
        BY <2>1 DEF Owed
    <2> QED BY <1>1, <2>1, <2>3, <2>4, ServeGoesOn DEF ServeInv
<1> QED BY <1>2, <1>3

\* The requests are collected: those that are still owed came too late for it.
LEMMA ServeClaimsDone ==
    ASSUME TimeToServe, TypeOK, ServeInv, ClaimsDone PROVE ServeInv'
<1>1. /\ UNCHANGED <<trigger, processing, maintenance, excused, crashes, claimed, busy>>
      /\ pc = "claim" /\ found = {} /\ found' = {} /\ pc' \in {"plain", "acl"}
      /\ sinceForced' \in {sinceForced, 0}
    BY DEF ClaimsDone, Goto, fileVars
<1>2. \A s \in Sources : Owed(s)' => Owed(s)
    BY <1>1 DEF Owed
<1>3. ASSUME NEW s \in Sources, Owed(s), InTime(s) PROVE InTime(s)'
    <2>1. trigger[s] <= busy
        BY <1>1, <1>3 DEF InTime, Missed
    <2> QED BY <1>1, <1>3, <2>1, TimeTypes DEF InTime, Missed, Meets, Spent, Owed
<1> QED BY <1>1, <1>2, <1>3, ServeGoesOn

\* The pass that the claims asked for, or another, is over.
LEMMA ServePass ==
    ASSUME TimeToServe, TypeOK, ServeInv, AclVerified \/ ForcedPassDone \/ PlainPass
    PROVE  ServeInv'
<1>1. /\ UNCHANGED <<trigger, maintenance, excused, crashes, sinceForced>>
      /\ found' = {} /\ found = {}
      /\ pc \in {"acl", "forced", "plain"} /\ pc' \in {"forced", "sleep"}
      /\ pc' = "forced" => busy' = busy
    BY DEF AclVerified, ForcedPassDone, PlainPass, Goto, Sleep, fileVars, memVars, TypeOK
<1>2. \A s \in Sources : Owed(s)' => Owed(s)
    <2>1. CASE AclVerified \/ PlainPass
        BY <2>1 DEF AclVerified, PlainPass, Owed, fileVars, memVars
    <2>2. CASE ForcedPassDone
        BY <2>2 DEF ForcedPassDone, Without, Owed
    <2> QED BY <2>1, <2>2
<1>3. ASSUME NEW s \in Sources, Owed(s), InTime(s) PROVE InTime(s)'
    BY <1>1, <1>3, TimeTypes DEF InTime, Missed, Meets, Spent, Owed
<1> QED BY <1>1, <1>2, <1>3, ServeGoesOn

\* Claims that are put back are excused; the others are not touched.
LEMMA ServeAclFailed == ASSUME TimeToServe, TypeOK, ServeInv, AclFailed PROVE ServeInv'
<1>1. /\ UNCHANGED <<maintenance, crashes, sinceForced, busy, found>>
      /\ pc = "acl" /\ pc' = "plain" /\ claimed' = {} /\ excused' = excused \cup claimed
      /\ \A s \in Sources : trigger'[s] = IF s \in claimed THEN processing[s] ELSE trigger[s]
      /\ \A s \in Sources : processing'[s] = IF s \in claimed THEN Absent ELSE processing[s]
    BY DEF AclFailed, Goto, Without
<1>2. (maintenance => Waiting \subseteq excused)'
    BY <1>1 DEF ServeInv, Waiting
<1>3. ASSUME NEW s \in Sources, Owed(s)' PROVE InTime(s)'
    <2>1. s \notin claimed /\ trigger'[s] = trigger[s]
        BY <1>1, <1>3 DEF Owed
    <2>2. Owed(s)
        BY <1>1, <1>3, <2>1 DEF Owed
    <2>3. InTime(s)
        BY <2>2 DEF ServeInv
    <2> QED BY <1>1, <2>1, <2>3 DEF InTime, Missed, Meets, Spent
<1> QED BY <1>1, <1>2, <1>3 DEF ServeInv

\* An iteration that is cut short costs the time it lasted.
LEMMA ServeCutShort ==
    ASSUME TimeToServe, TypeOK, ServeInv, Abort \/ Crash PROVE ServeInv'
<1>1. /\ UNCHANGED <<trigger, processing, maintenance, excused>>
      /\ crashes' = crashes + 1 /\ found' = {} /\ claimed' = {} /\ busy' = 0
      /\ \/ pc' = "sleep" /\ sinceForced' = sinceForced /\ pc # "sleep"
         \/ pc' = "scan" /\ sinceForced' = OldPass
    BY DEF Abort, Crash, Sleep, fileVars
<1>2. Spent' = Spent + MaxBusy
    BY <1>1, TimeTypes DEF Spent
<1>3. ASSUME NEW s \in Sources, Owed(s)' PROVE InTime(s)'
    <2>1. Owed(s) /\ InTime(s)
        BY <1>1, <1>3 DEF Owed, ServeInv
    <2>2. trigger[s] \in Nat /\ trigger'[s] = trigger[s]
        BY <1>1, <2>1, TimeTypes DEF Owed
    <2>3. trigger[s] <= (ForcedGap - 1) + 3 * MaxBusy + Spent
        BY <2>1, <2>2, TimeTypes DEF InTime, Missed, Meets, TypeOK, TimeToServe
    <2>4. sinceForced < ForcedGap => trigger[s] <= sinceForced + MaxBusy
        BY <1>1, <2>1, <2>2, TimeTypes DEF InTime, Missed, ServeInv
    <2> QED BY <1>1, <1>2, <2>2, <2>3, <2>4, TimeTypes DEF InTime, Missed, Meets
<1>4. (maintenance => Waiting \subseteq excused)'
    BY <1>1 DEF ServeInv, Waiting
<1> QED BY <1>1, <1>3, <1>4 DEF ServeInv

LEMMA ServeStep ==
    ASSUME TimeToServe, TypeOK, ServeInv, [Next]_vars PROVE ServeInv'
<1>1. CASE SetMaintenance \/ ClearMaintenance
    <2>1. /\ UNCHANGED <<trigger, processing, pc, busy, memVars, crashes>>
          /\ excused' = excused \cup Waiting
        BY <1>1 DEF SetMaintenance, ClearMaintenance, fileVars
    <2> QED BY <2>1, ServeSame DEF memVars
<1>2. CASE UNCHANGED vars
    <2>1. UNCHANGED <<trigger, processing, pc, busy, memVars, crashes, excused, maintenance>>
        BY <1>2 DEF vars, fileVars
    <2> QED BY <2>1, ServeSame DEF memVars, ServeInv
<1> QED BY <1>1, <1>2, ServeTick, ServeRequester, ServeScan, ServeGate, ServeClaim,
           ServeClaimsDone, ServePass, ServeAclFailed, ServeCutShort
        DEF Next, WatchdogStep

\* With time to serve it, a request is claimed before it expires, whatever the
\* watchdog was doing when it arrived and however often it is cut short, unless
\* maintenance, an ACL failure or a claim left behind under its name holds it up.
THEOREM ServedBeforeExpiry == ASSUME TimeToServe PROVE Spec => []NoneExpiresUnserved
<1>1. Init => ServeInv
    BY DEF Init, ServeInv, Owed, Waiting
<1>2. TypeOK /\ ServeInv /\ [Next]_vars => ServeInv'
    BY ServeStep
<1>3. TypeOK /\ RepairInv /\ ServeInv => NoneExpiresUnserved
    <2> SUFFICES ASSUME TypeOK, RepairInv, ServeInv, NEW s \in Sources,
                        trigger[s] > RequestTtl, s \notin excused
                 PROVE  crashes > 0 /\ processing[s] # Absent
        BY DEF NoneExpiresUnserved
    <2>1. trigger[s] # Absent
        BY LimitTypes DEF Absent
    <2>2. ~Owed(s)
        <3> SUFFICES ASSUME Owed(s) PROVE FALSE
            OBVIOUS
        <3>1. trigger[s] <= RequestTtl
            BY StillValid DEF ServeInv
        <3> QED BY <2>1, <3>1, TimeTypes
    <2>3. processing[s] # Absent /\ s \notin claimed
        BY <2>1, <2>2 DEF Owed
    <2>4. crashes # 0
        BY <2>3 DEF RepairInv, Undisturbed, ClaimsHeld
    <2> QED BY <2>3, <2>4, TimeTypes
<1> QED BY <1>1, <1>2, <1>3, TypeCorrect, RepairInvariant, PTL DEF Spec
=============================================================================
