--------------------------- MODULE IdempotencyStore ---------------------------
(***************************************************************************)
(* One (scope, requestId) of the idempotency table, as concurrent callers  *)
(* use it: claim, then do the work, then complete or fail.  A claim is     *)
(* three statements, each under the database's lock, and nothing holds     *)
(* them together; the expiry it writes is counted from its first moment.   *)
(* A payload stands for its hash, and a result for the payload that was    *)
(* executed to get it.  (The package's tests are its only callers so far.) *)
(***************************************************************************)
EXTENDS Integers

CONSTANTS
    Claimants,
    Payloads,
    ClaimTtl,         \* ttl_seconds of a claim, in Ticks
    MaxTime,     \* bound: the last Tick
    NoPayload    \* no row, no answer

ClaimConstants == ClaimTtl \in Nat /\ MaxTime \in Nat

VARIABLES
    clock,       \* time.time()
    record,      \* the row: its hash, status, result and expires_at
    claimPc,     \* where each caller stands
    payload,     \* what it claims with
    began,       \* its "now"
    inserted,    \* whether its INSERT added the row
    given,       \* the result it was given instead of doing the work
    overrun      \* history: somebody worked beyond the expiry of its claim

vars == <<clock, record, claimPc, payload, began, inserted, given, overrun>>

NoRow == [hash |-> NoPayload, status |-> "none", result |-> NoPayload, expires |-> 0]

Init ==
    /\ clock = 0 /\ record = NoRow
    /\ claimPc = [c \in Claimants |-> "idle"]
    /\ payload = [c \in Claimants |-> NoPayload]
    /\ began = [c \in Claimants |-> 0]
    /\ inserted = [c \in Claimants |-> FALSE]
    /\ given = [c \in Claimants |-> NoPayload]
    /\ overrun = FALSE

Goes(c, place) == claimPc' = [claimPc EXCEPT ![c] = place]

\* Somebody holds a claim that has expired.
Overrunning == \E c \in Claimants : inserted[c] /\ clock > began[c] + ClaimTtl

Tick ==
    /\ clock < MaxTime /\ clock' = clock + 1
    /\ UNCHANGED <<record, claimPc, payload, began, inserted, given>>
    /\ overrun' = (overrun \/ Overrunning')

-----------------------------------------------------------------------------
(* claim.                                                                  *)

Claim(c, p) ==
    /\ claimPc[c] = "idle"
    /\ Goes(c, "delete")
    /\ payload' = [payload EXCEPT ![c] = p]
    /\ began' = [began EXCEPT ![c] = clock]
    /\ given' = [given EXCEPT ![c] = NoPayload]
    /\ UNCHANGED <<clock, record, inserted, overrun>>

DeleteExpired(c) ==
    /\ claimPc[c] = "delete"
    /\ record' = IF record # NoRow /\ record.expires < began[c] THEN NoRow ELSE record
    /\ Goes(c, "insert")
    /\ UNCHANGED <<clock, payload, began, inserted, given, overrun>>

InsertOrIgnore(c) ==
    /\ claimPc[c] = "insert"
    /\ record' = IF record = NoRow
              THEN [hash |-> payload[c], status |-> "in_progress",
                    result |-> NoPayload, expires |-> began[c] + ClaimTtl]
              ELSE record
    /\ inserted' = [inserted EXCEPT ![c] = record = NoRow]
    /\ Goes(c, "select")
    /\ UNCHANGED <<clock, payload, began, given>>
    /\ overrun' = (overrun \/ Overrunning')

\* The claim ends with no work to do: this is the answer, if it is one.
Answered(c, result) ==
    /\ Goes(c, "idle")
    /\ given' = [given EXCEPT ![c] = result]
    /\ inserted' = [inserted EXCEPT ![c] = FALSE]

\* Variant of Select that does not look at the hash.
SelectAnyHash(c) ==
    /\ claimPc[c] = "select"
    /\ \/ (record = NoRow \/ (~inserted[c] /\ record.status = "in_progress"))
          /\ Answered(c, NoPayload)
       \/ record # NoRow /\ record.status # "in_progress" /\ Answered(c, record.result)
       \/ /\ record # NoRow /\ inserted[c] /\ record.status = "in_progress"
          /\ Goes(c, "work") /\ UNCHANGED <<given, inserted>>
    /\ UNCHANGED <<clock, record, payload, began, overrun>>

\* Refused (no row, another payload, in progress), answered with what is
\* stored, a result or an error, or the owner.
Select(c) ==
    /\ claimPc[c] = "select"
    /\ \/ /\ \/ record = NoRow \/ record.hash # payload[c]
             \/ ~inserted[c] /\ record.status = "in_progress"
          /\ Answered(c, NoPayload)
       \/ /\ record.hash = payload[c] /\ record.status # "in_progress"
          /\ Answered(c, record.result)
       \/ /\ record.hash = payload[c] /\ inserted[c] /\ record.status = "in_progress"
          /\ Goes(c, "work") /\ UNCHANGED <<given, inserted>>
    /\ UNCHANGED <<clock, record, payload, began, overrun>>

-----------------------------------------------------------------------------
(* complete and fail: whatever row has the key is written to.                *)

Finish(c, status) ==
    /\ claimPc[c] = "work"
    /\ record' = IF record = NoRow THEN record
              ELSE [record EXCEPT !.status = status, !.result = payload[c]]
    /\ Goes(c, "idle")
    /\ inserted' = [inserted EXCEPT ![c] = FALSE]
    /\ UNCHANGED <<clock, payload, began, given, overrun>>

\* The owner dies or is cancelled at its work, or any statement's await is.
Abandon(c) ==
    /\ claimPc[c] # "idle"
    /\ Goes(c, "idle")
    /\ inserted' = [inserted EXCEPT ![c] = FALSE]
    /\ UNCHANGED <<clock, record, payload, began, given, overrun>>

Next ==
    \/ Tick
    \/ \E c \in Claimants :
          \/ \E p \in Payloads : Claim(c, p)
          \/ DeleteExpired(c) \/ InsertOrIgnore(c) \/ Select(c) \/ Abandon(c)
          \/ \E status \in {"completed", "failed"} : Finish(c, status)

Spec == Init /\ [][Next]_vars

-----------------------------------------------------------------------------
(* Properties.                                                             *)

MaybePayload == Payloads \cup {NoPayload}
Rows == [hash : MaybePayload, status : {"none", "in_progress", "completed", "failed"},
         result : MaybePayload, expires : 0 .. MaxTime + ClaimTtl]

TypeOK ==
    /\ clock \in 0 .. MaxTime
    /\ record \in Rows
    /\ claimPc \in [Claimants -> {"idle", "delete", "insert", "select", "work"}]
    /\ payload \in [Claimants -> MaybePayload] /\ given \in [Claimants -> MaybePayload]
    /\ began \in [Claimants -> 0 .. clock] /\ inserted \in [Claimants -> BOOLEAN]
    /\ overrun \in BOOLEAN

Owners == {c \in Claimants : claimPc[c] = "work"}

\* While nobody overruns its claim, one request is worked on by one caller at a
\* time, and a caller is only ever given what the work on its own payload
\* came to: expiries, deletions by other claims and cancellations in between
\* the statements never let two callers own the row, or mix two payloads.
\* (Who overruns writes into the next owner's row.)
ClaimIsExclusive ==
    overrun \/ /\ \A c, d \in Owners : c = d
               /\ \A c \in Claimants : claimPc[c] = "idle" => given[c] \in {payload[c], NoPayload}

\* Inductive: who has inserted the row is at its work or about to look, nobody
\* has an answer before the end of its claim, ...
Inserters ==
    /\ \A c \in Claimants : inserted[c] => claimPc[c] \in {"select", "work"}
    /\ \A c \in Owners : inserted[c]
    /\ \A c \in Claimants : claimPc[c] # "idle" => given[c] = NoPayload

\* ... and until somebody overruns its claim the row is still the one it has
\* inserted, so nobody else has; a row that is done with has the result of its
\* own payload.
RowIsKept ==
    overrun \/
       /\ \A c \in Claimants : inserted[c] =>
              /\ clock <= began[c] + ClaimTtl
              /\ record = [hash |-> payload[c], status |-> "in_progress",
                           result |-> NoPayload, expires |-> began[c] + ClaimTtl]
       /\ \A c, d \in Claimants : inserted[c] /\ inserted[d] => c = d
       /\ record.status = "in_progress" \/ record.result = record.hash

ClaimInv == TypeOK /\ Inserters /\ RowIsKept /\ ClaimIsExclusive
=============================================================================
