---------------------------- MODULE CircuitBreaker ----------------------------
(***************************************************************************)
(* The circuit breaker between concurrent calls and a dependency: each     *)
(* call asks before_call, and reports success or failure when it is over.  *)
(***************************************************************************)
EXTENDS Integers

CONSTANTS
    Calls,        \* concurrent calls
    Threshold,    \* failure_threshold
    Recovery      \* recovery_seconds, in Ticks

BreakerConstants == Threshold \in Nat \ {0} /\ Recovery \in Nat

VARIABLES
    state,        \* "CLOSED", "OPEN" or "HALF_OPEN"
    failures,     \* up to Threshold
    sinceOpened,  \* Ticks since opened_at, up to Recovery
    waiting,      \* the calls that have passed and are not over
    row,          \* history: failures in a row, up to Threshold
    quiet         \* history: Ticks since the last failure, up to Recovery

vars == <<state, failures, sinceOpened, waiting, row, quiet>>

Upto(n, bound) == IF n > bound THEN bound ELSE n

Init ==
    /\ state = "CLOSED" /\ failures = 0 /\ sinceOpened = Recovery
    /\ waiting = {} /\ row = 0 /\ quiet = Recovery

Tick ==
    /\ sinceOpened' = Upto(sinceOpened + 1, Recovery)
    /\ quiet' = Upto(quiet + 1, Recovery)
    /\ UNCHANGED <<state, failures, waiting, row>>

\* before_call lets the call pass, or raises DEPENDENCY_OFFLINE.  In HALF_OPEN
\* any number of calls pass.
Pass(c) ==
    /\ c \notin waiting
    /\ state = "OPEN" => sinceOpened = Recovery
    /\ state' = IF state = "OPEN" THEN "HALF_OPEN" ELSE state
    /\ waiting' = waiting \cup {c}
    /\ UNCHANGED <<failures, sinceOpened, row, quiet>>

Success(c) ==
    /\ c \in waiting
    /\ waiting' = waiting \ {c}
    /\ failures' = 0 /\ state' = "CLOSED"
    /\ row' = 0
    /\ UNCHANGED <<sinceOpened, quiet>>

\* Variant of Failure that opens the circuit, but counts anew.
FailureRestarting(c) ==
    /\ c \in waiting
    /\ waiting' = waiting \ {c}
    /\ IF state = "CLOSED" /\ failures + 1 >= Threshold
       THEN state' = "OPEN" /\ sinceOpened' = 0 /\ failures' = 0
       ELSE failures' = Upto(failures + 1, Threshold) /\ UNCHANGED <<state, sinceOpened>>
    /\ row' = Upto(row + 1, Threshold) /\ quiet' = 0

Failure(c) ==
    /\ c \in waiting
    /\ waiting' = waiting \ {c}
    /\ failures' = Upto(failures + 1, Threshold)
    /\ IF state = "HALF_OPEN" \/ failures' >= Threshold
       THEN state' = "OPEN" /\ sinceOpened' = 0
       ELSE UNCHANGED <<state, sinceOpened>>
    /\ row' = Upto(row + 1, Threshold) /\ quiet' = 0

\* A call that reports nothing (it was cancelled).
Drop(c) ==
    /\ c \in waiting
    /\ waiting' = waiting \ {c}
    /\ UNCHANGED <<state, failures, sinceOpened, row, quiet>>

Next ==
    Tick \/ \E c \in Calls : Pass(c) \/ Success(c) \/ Failure(c) \/ Drop(c)

Spec == Init /\ [][Next]_vars

TypeOK ==
    /\ state \in {"CLOSED", "OPEN", "HALF_OPEN"}
    /\ {failures, row} \subseteq 0 .. Threshold
    /\ {sinceOpened, quiet} \subseteq 0 .. Recovery
    /\ waiting \subseteq Calls

LeftAlone == (\E c \in Calls : Pass(c)) => row < Threshold \/ quiet = Recovery

\* After Threshold failures in a row no call is let through until the
\* dependency has been left alone for the recovery time, counted from the last
\* failure, also when late answers of calls that passed earlier come in while
\* the circuit is open or half open.
SickIsLeftAlone == [][LeftAlone]_vars

\* Inductive: the count is that of the failures in a row, and when it has come
\* to the threshold the time since the circuit was opened is that since the last
\* failure, until which is over it stays open.
BreakerInv ==
    /\ TypeOK
    /\ failures = row
    /\ row = Threshold => sinceOpened = quiet /\ (quiet < Recovery => state = "OPEN")
=============================================================================
