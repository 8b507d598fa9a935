--------------------------- MODULE AuthorityChain ---------------------------
(***************************************************************************)
(* The path of one product's sync truth from the product to a caller of    *)
(* the cloud gateway, through two Workers and two Durable Objects:         *)
(*                                                                         *)
(*   product --observation--> signer Worker --/sign--> AuthorityIssuer     *)
(*      AuthorityIssuer --signed document--> cloud Worker (verifyAuthority)*)
(*      cloud Worker --/accept--> AuthorityCheckpoint --> cloud summary    *)
(*                                                                         *)
(* Every caller of the cloud gateway drives a whole chain of its own, so   *)
(* any number of observations, documents and candidates are in flight and  *)
(* overtake one another; only the two checkpoint transactions are atomic.  *)
(* The product is external and is allowed to misbehave: it may restore an  *)
(* old revision, equivocate (two truths under one revision), or stamp its  *)
(* observations with a clock that lags or leads.  The signing key and the  *)
(* key the verifier pins may be rotated by a deployment at any moment.     *)
(*                                                                         *)
(* Abstractions.  A truth is a model value, so a hash of a truth is the    *)
(* truth; a signature is the key it was made with (Ed25519 is taken as     *)
(* unforgeable); each product has Durable Objects of its own, so one       *)
(* product is modelled and its environment, id and audience are fixed.     *)
(* Time is in units; Clock is the Workers' clock.                          *)
(***************************************************************************)
EXTENDS Integers

CONSTANTS
    Readers,       \* concurrent callers of the cloud summary
    Truths,        \* truth payloads a product may report
    FreshTruths,   \* those whose freshness is "fresh"
    Keys,          \* Ed25519 key pairs that may be deployed
    MaxRev,        \* bound: highest revision a product reports
    MaxClock,      \* bound: the clock stops here
    MaxLag,        \* bound: how long a product verifies before it observes
    Skew,          \* CLOCK_SKEW_MS / AUTHORITY_CLOCK_SKEW_MS
    MaxObsAge,     \* MAX_OBSERVATION_AGE_MS
    ObsTtl,        \* MAX_OBSERVATION_TTL_MS
    DocTtl,        \* SIGNED_DOCUMENT_TTL_MS
    MaxAge,        \* maxAgeSeconds of the verifier's product configuration
    MaxReplaced,   \* bound: how often the issuer's storage may be replaced
    None           \* no observation, document or checkpoint

ASSUME ConstantsAssumption ==
    /\ FreshTruths \subseteq Truths
    /\ MaxRev \in Nat /\ MaxClock \in Nat /\ MaxLag \in Nat /\ Skew \in Nat
    /\ MaxObsAge \in Nat /\ ObsTtl \in Nat /\ DocTtl \in Nat /\ MaxAge \in Nat
    /\ MaxReplaced \in Nat

Revisions == 0 .. MaxRev
\* The product's clock and its last verification may lie before instant 0.
Times == (-(1 + MaxLag)) .. (MaxClock + Skew + ObsTtl)

Observation == [rev : Revisions, truth : Truths,
                verified : Times, observed : Times, expires : Times]
Entry == [key : Keys, rev : Revisions, truth : Truths,
          verified : Times, observed : Times, expires : Times]
Document == [entry : Entry, issued : Times, until : Times]

ASSUME NoneAssumption ==
    None \notin Observation \cup Entry \cup Document

VARIABLES
    clock,         \* Date.now()
    signingKey,    \* AUTHORITY_SIGNING_KEY of the signer Worker
    pinnedKey,     \* publicKey in AUTHORITY_CONFIG_JSON of the cloud Worker
    replaced,      \* how often the issuer's storage has been replaced
    issuerCp,      \* "source-checkpoint-v1" in AuthorityIssuer
    verifierCp,    \* "checkpoint-v3" in AuthorityCheckpoint
    pc,            \* where each caller's chain stands
    startedAt,     \* `now` captured when verifyAuthority was entered
    held,          \* observation, document or candidate the chain carries
    issuedLedger,  \* history: what the issuer recorded, in which storage
    ledger,        \* history: entries the verifier ever recorded
    served,        \* history: entries ever returned to a caller as verified
    before         \* history: what had been served when a call started

vars == <<clock, signingKey, pinnedKey, replaced, issuerCp, verifierCp, pc,
          startedAt, held, issuedLedger, ledger, served, before>>

Stages == {"idle", "fetching", "observed", "committed", "signed",
           "checked", "verified"}

Init ==
    /\ clock = 0
    /\ signingKey \in Keys
    /\ pinnedKey = signingKey
    /\ replaced = 0
    /\ issuerCp = None
    /\ verifierCp = None
    /\ pc = [c \in Readers |-> "idle"]
    /\ startedAt = [c \in Readers |-> 0]
    /\ held = [c \in Readers |-> None]
    /\ issuedLedger = {}
    /\ ledger = {}
    /\ served = {}
    /\ before = [c \in Readers |-> {}]

-----------------------------------------------------------------------------
(* The world outside the two Workers.                                      *)

Tick ==
    /\ clock < MaxClock
    /\ clock' = clock + 1
    /\ UNCHANGED <<signingKey, pinnedKey, replaced, issuerCp, verifierCp, pc,
                   startedAt, held, issuedLedger, ledger, served, before>>

\* What the product may answer now.  Nothing binds it to its past answers; its
\* clock may lag by one unit or lead by the tolerated skew, and it verified
\* the truth at most MaxLag units before it observed it.
Reported ==
    {[rev |-> r, truth |-> t, verified |-> at - lag, observed |-> at,
      expires |-> at + ObsTtl] :
        r \in Revisions, t \in Truths, at \in (clock - 1) .. (clock + Skew),
        lag \in 0 .. MaxLag}

RotateSigningKey(k) ==
    /\ signingKey' = k
    /\ UNCHANGED <<clock, pinnedKey, replaced, issuerCp, verifierCp, pc,
                   startedAt, held, issuedLedger, ledger, served, before>>

RotatePinnedKey(k) ==
    /\ pinnedKey' = k
    /\ UNCHANGED <<clock, signingKey, replaced, issuerCp, verifierCp, pc,
                   startedAt, held, issuedLedger, ledger, served, before>>

\* The issuer's object is addressed by a versioned name ("source-v1:..."); a
\* deployment under another name, or a restored account, starts it empty.
ReplaceIssuer ==
    /\ replaced < MaxReplaced
    /\ replaced' = replaced + 1
    /\ issuerCp' = None
    /\ UNCHANGED <<clock, signingKey, pinnedKey, verifierCp, pc, startedAt, held,
                   issuedLedger, ledger, served, before>>

-----------------------------------------------------------------------------
(* The signer Worker and its Durable Object.                               *)

ValidObservation(o, now) ==
    /\ o.observed <= now + Skew
    /\ now - o.observed <= MaxObsAge
    /\ o.expires > o.observed
    /\ o.expires > now
    /\ o.expires - o.observed <= ObsTtl
    /\ o.verified <= o.observed
    /\ o.truth \in FreshTruths => now - o.verified <= MaxObsAge

Signed(k, o) == [key |-> k, rev |-> o.rev, truth |-> o.truth,
                 verified |-> o.verified, observed |-> o.observed,
                 expires |-> o.expires]

\* Variant of IssuerVerdict that does not compare the source times.
IssuerVerdictUntimed(prior, e) ==
    IF prior = None THEN "record"
    ELSE IF prior.key # e.key \/ e.rev < prior.rev THEN "rollback"
    ELSE IF e.rev = prior.rev
         THEN IF e = prior THEN "repeat" ELSE "rollback"
    ELSE "record"

\* The verdict of the transaction in AuthorityIssuer on a candidate.
IssuerVerdict(prior, e) ==
    IF prior = None THEN "record"
    ELSE IF prior.key # e.key \/ e.rev < prior.rev THEN "rollback"
    ELSE IF e.rev = prior.rev
         THEN IF e = prior THEN "repeat" ELSE "rollback"
    ELSE IF e.verified < prior.verified \/ e.observed < prior.observed
         THEN "rollback" ELSE "record"

Lower(a, b) == IF a <= b THEN a ELSE b

\* A caller enters verifyAuthority: `now` is read before anything is fetched.
Start(c) ==
    /\ pc[c] = "idle"
    /\ pc' = [pc EXCEPT ![c] = "fetching"]
    /\ startedAt' = [startedAt EXCEPT ![c] = clock]
    /\ before' = [before EXCEPT ![c] = served]
    /\ UNCHANGED <<clock, signingKey, pinnedKey, replaced, issuerCp, verifierCp,
                   held, issuedLedger, ledger, served>>

\* The signer Worker reads the product and validates the answer.
FetchObservation(c) ==
    /\ pc[c] = "fetching"
    /\ \E o \in Reported :
          /\ ValidObservation(o, clock)
          /\ held' = [held EXCEPT ![c] = o]
    /\ pc' = [pc EXCEPT ![c] = "observed"]
    /\ UNCHANGED <<clock, signingKey, pinnedKey, replaced, issuerCp, verifierCp,
                   startedAt, issuedLedger, ledger, served, before>>

\* Variant of GiveUp that leaves the carried data behind.
GiveUpKeepingData(c) ==
    /\ pc' = [pc EXCEPT ![c] = "idle"]
    /\ startedAt' = [startedAt EXCEPT ![c] = 0]
    /\ before' = [before EXCEPT ![c] = {}]
    /\ UNCHANGED <<clock, signingKey, pinnedKey, replaced, held, served>>

\* The caller is told "unknown": a rejected or failed step, or a timeout.
GiveUp(c) ==
    /\ pc' = [pc EXCEPT ![c] = "idle"]
    /\ held' = [held EXCEPT ![c] = None]
    /\ startedAt' = [startedAt EXCEPT ![c] = 0]
    /\ before' = [before EXCEPT ![c] = {}]
    /\ UNCHANGED <<clock, signingKey, pinnedKey, replaced, served>>

\* AuthorityIssuer: validate again and decide in a transaction.
IssuerCommit(c) ==
    LET e == Signed(signingKey, held[c])
    IN  /\ pc[c] = "observed"
        /\ ValidObservation(held[c], clock)
        /\ IssuerVerdict(issuerCp, e) # "rollback"
        /\ issuerCp' = e
        /\ issuedLedger' = issuedLedger \cup {[storage |-> replaced, entry |-> e]}
        /\ pc' = [pc EXCEPT ![c] = "committed"]
        /\ held' = [held EXCEPT ![c] = e]
        /\ UNCHANGED <<clock, signingKey, pinnedKey, replaced, verifierCp, startedAt,
                       ledger, served, before>>

\* Variant of Issued that reads the signing key again after the commit.
IssuedRereadingKey(e) == [entry |-> [e EXCEPT !.key = signingKey],
                          issued |-> clock,
                          until |-> Lower(clock + DocTtl, e.expires)]

\* After the commit: the document expires with its observation at the latest.
Issued(e) == [entry |-> e, issued |-> clock,
              until |-> Lower(clock + DocTtl, e.expires)]

IssueDocument(c) ==
    /\ pc[c] = "committed"
    /\ Issued(held[c]).until > clock
    /\ pc' = [pc EXCEPT ![c] = "signed"]
    /\ held' = [held EXCEPT ![c] = Issued(held[c])]
    /\ UNCHANGED <<clock, signingKey, pinnedKey, replaced, issuerCp, verifierCp,
                   startedAt, issuedLedger, ledger, served, before>>

IssuerRefuse(c) ==
    /\ pc[c] = "observed"
    /\ \/ ~ValidObservation(held[c], clock)
       \/ IssuerVerdict(issuerCp, Signed(signingKey, held[c])) = "rollback"
    /\ GiveUp(c)
    /\ UNCHANGED <<issuerCp, verifierCp, issuedLedger, ledger>>

\* The observation expired between the commit and the signature.
IssueTooLate(c) ==
    /\ pc[c] = "committed"
    /\ Issued(held[c]).until <= clock
    /\ GiveUp(c)
    /\ UNCHANGED <<issuerCp, verifierCp, issuedLedger, ledger>>

-----------------------------------------------------------------------------
(* The cloud Worker and its Durable Object.                                *)

\* The checks of verifyAuthority on the document, against the clock reading
\* taken when the call was entered.
DocumentValid(d, now) ==
    /\ d.entry.key = pinnedKey
    /\ d.until > d.issued
    /\ d.entry.expires > d.entry.observed
    /\ d.until <= d.entry.expires
    /\ d.entry.verified <= d.entry.observed
    /\ d.entry.observed <= d.issued + Skew
    /\ d.issued <= now + Skew
    /\ d.until > now
    /\ d.entry.expires > now
    /\ now - d.issued < MaxAge
    /\ now - d.entry.observed < MaxAge
    /\ d.entry.truth \in FreshTruths => now - d.entry.verified < MaxAge

CheckDocument(c) ==
    /\ pc[c] = "signed"
    /\ DocumentValid(held[c], startedAt[c])
    /\ pc' = [pc EXCEPT ![c] = "checked"]
    /\ held' = [held EXCEPT ![c] = held[c].entry]
    /\ UNCHANGED <<clock, signingKey, pinnedKey, replaced, issuerCp, verifierCp,
                   startedAt, issuedLedger, ledger, served, before>>

RejectDocument(c) ==
    /\ pc[c] = "signed"
    /\ ~DocumentValid(held[c], startedAt[c])
    /\ GiveUp(c)
    /\ UNCHANGED <<issuerCp, verifierCp, issuedLedger, ledger>>

\* Variants of VerifierVerdict: one that compares only the truth of an equal
\* revision, one that does not reject a lower revision, one without the key.
VerifierVerdictTruthOnly(prior, e) ==
    IF prior = None THEN "record"
    ELSE IF e.rev < prior.rev \/ e.key # prior.key THEN "rollback"
    ELSE IF e.rev = prior.rev
         THEN IF e.truth = prior.truth THEN "repeat" ELSE "rollback"
    ELSE IF e.verified < prior.verified \/ e.observed < prior.observed
         THEN "rollback" ELSE "record"

VerifierVerdictLowerAllowed(prior, e) ==
    IF prior = None THEN "record"
    ELSE IF e.key # prior.key THEN "rollback"
    ELSE IF e.rev = prior.rev
         THEN IF e = prior THEN "repeat" ELSE "rollback"
    ELSE IF e.verified < prior.verified \/ e.observed < prior.observed
         THEN "rollback" ELSE "record"

VerifierVerdictKeyless(prior, e) ==
    IF prior = None THEN "record"
    ELSE IF e.rev < prior.rev THEN "rollback"
    ELSE IF e.rev = prior.rev
         THEN IF e = prior THEN "repeat" ELSE "rollback"
    ELSE IF e.verified < prior.verified \/ e.observed < prior.observed
         THEN "rollback" ELSE "record"

\* The verdict of the transaction in AuthorityCheckpoint on a candidate.
VerifierVerdict(prior, e) ==
    IF prior = None THEN "record"
    ELSE IF e.rev < prior.rev THEN "rollback"
    ELSE IF e.key # prior.key THEN "rollback"
    ELSE IF e.rev = prior.rev
         THEN IF e = prior THEN "repeat" ELSE "rollback"
    ELSE IF e.verified < prior.verified THEN "rollback"
    ELSE IF e.observed < prior.observed THEN "rollback"
    ELSE "record"

VerifierAccept(c) ==
    /\ pc[c] = "checked"
    /\ VerifierVerdict(verifierCp, held[c]) # "rollback"
    /\ verifierCp' = held[c]
    /\ ledger' = ledger \cup {held[c]}
    /\ pc' = [pc EXCEPT ![c] = "verified"]
    /\ UNCHANGED <<clock, signingKey, pinnedKey, replaced, issuerCp, startedAt,
                   held, issuedLedger, served, before>>

VerifierRefuse(c) ==
    /\ pc[c] = "checked"
    /\ VerifierVerdict(verifierCp, held[c]) = "rollback"
    /\ GiveUp(c)
    /\ UNCHANGED <<issuerCp, verifierCp, issuedLedger, ledger>>

\* The truth leaves the gateway in a summary.
Serve(c) ==
    /\ pc[c] = "verified"
    /\ served' = served \cup {held[c]}
    /\ pc' = [pc EXCEPT ![c] = "idle"]
    /\ held' = [held EXCEPT ![c] = None]
    /\ startedAt' = [startedAt EXCEPT ![c] = 0]
    /\ before' = [before EXCEPT ![c] = {}]
    /\ UNCHANGED <<clock, signingKey, pinnedKey, replaced, issuerCp, verifierCp,
                   issuedLedger, ledger>>

\* A timeout or a failed call loses whatever the chain carried, before or
\* after the other side has committed.
Fail(c) ==
    /\ pc[c] # "idle"
    /\ GiveUp(c)
    /\ UNCHANGED <<issuerCp, verifierCp, issuedLedger, ledger>>

ReaderStep(c) ==
    \/ Start(c) \/ FetchObservation(c) \/ IssuerCommit(c) \/ IssuerRefuse(c)
    \/ IssueDocument(c) \/ IssueTooLate(c)
    \/ CheckDocument(c) \/ RejectDocument(c)
    \/ VerifierAccept(c) \/ VerifierRefuse(c) \/ Serve(c) \/ Fail(c)

Next ==
    \/ Tick
    \/ ReplaceIssuer
    \/ \E k \in Keys : RotateSigningKey(k) \/ RotatePinnedKey(k)
    \/ \E c \in Readers : ReaderStep(c)

Spec == Init /\ [][Next]_vars

-----------------------------------------------------------------------------
(* Properties.                                                             *)

VerifierLedger == INSTANCE RevisionLedger WITH Entries <- Entry

\* What a chain carries at each stage.
Carries(c) ==
    /\ pc[c] \in {"idle", "fetching"} => held[c] = None
    /\ pc[c] = "observed" => held[c] \in Observation
    /\ pc[c] = "signed" => held[c] \in Document
    /\ pc[c] \in {"committed", "checked", "verified"} => held[c] \in Entry

\* Types, and a chain carries exactly what its stage says it carries.
TypeOK ==
    /\ clock \in 0 .. MaxClock
    /\ signingKey \in Keys /\ pinnedKey \in Keys
    /\ replaced \in 0 .. MaxReplaced
    /\ issuerCp \in Entry \cup {None} /\ verifierCp \in Entry \cup {None}
    /\ pc \in [Readers -> Stages]
    /\ startedAt \in [Readers -> 0 .. MaxClock]
    /\ held \in [Readers -> Observation \cup Document \cup Entry \cup {None}]
    /\ issuedLedger \subseteq [storage : 0 .. MaxReplaced, entry : Entry]
    /\ ledger \subseteq Entry
    /\ served \subseteq Entry
    /\ before \in [Readers -> SUBSET Entry]
    /\ \A c \in Readers : Carries(c)

\* Everything ever returned as verified fits one history: no revision was
\* ever returned with two truths, and neither the key nor the order of the
\* source times ever changed, whichever chains overtook one another.
ServedLinear == VerifierLedger!Linear(served)

\* Real-time order: a call that ends verified never returns an older truth
\* than any call that had returned before it began, even though the document
\* it carries may have been signed before those.
NoServedRollback ==
    \A c \in Readers : pc[c] = "verified" =>
        \A e \in before[c] : e = held[c] \/ VerifierLedger!Follows(e, held[c])

\* The verifier never records a truth the issuer had not pinned first, so a
\* lost reply or a failed call leaves the issuer ahead, never behind.
VerifierBehindIssuer == \A e \in ledger : \E x \in issuedLedger : x.entry = e

\* As long as its storage is not replaced the issuer signs one history: a
\* product that restores a backup or equivocates cannot get a second one signed.
IssuerLinear ==
    \A x, y \in issuedLedger : x.storage = y.storage =>
        VerifierLedger!Linear({x.entry, y.entry})

\* The verifier's checkpoint is an append-only ledger (RevisionLedger).
VerifierImplementsLedger == VerifierLedger!Spec
=============================================================================
