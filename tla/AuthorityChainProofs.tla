------------------------ MODULE AuthorityChainProofs ------------------------
(* Proofs about AuthorityChain, for every number of callers, every set of   *)
(* truths and keys, and every value of the time limits.                     *)
EXTENDS AuthorityChain, TLAPS

\* What the product reports is an observation.
LEMMA ReportedIsObservation ==
    ASSUME clock \in 0 .. MaxClock
    PROVE  Reported \subseteq Observation
<1> SUFFICES ASSUME NEW r \in Revisions, NEW t \in Truths,
                    NEW at \in (clock - 1) .. (clock + Skew),
                    NEW lag \in 0 .. MaxLag
             PROVE  [rev |-> r, truth |-> t, verified |-> at - lag,
                     observed |-> at, expires |-> at + ObsTtl] \in Observation
    BY DEF Reported
<1>1. at \in Times /\ at - lag \in Times /\ at + ObsTtl \in Times
    BY ConstantsAssumption DEF Times
<1> QED BY <1>1 DEF Observation

\* Signing an observation yields an entry.
LEMMA SignedIsEntry ==
    ASSUME NEW k \in Keys, NEW o \in Observation
    PROVE  Signed(k, o) \in Entry
BY DEF Signed, Observation, Entry

\* The document issued for an entry is a document.
LEMMA IssuedIsDocument ==
    ASSUME clock \in 0 .. MaxClock, NEW e \in Entry
    PROVE  Issued(e) \in Document
<1>1. e.expires \in Times
    BY DEF Entry
<1>2. clock \in Times /\ Lower(clock + DocTtl, e.expires) \in Times
    BY <1>1, ConstantsAssumption DEF Times, Lower
<1> QED BY <1>2 DEF Issued, Document

\* The types, and what each chain carries, are preserved by a chain's steps.
LEMMA ReaderStepTypes ==
    ASSUME TypeOK, NEW c \in Readers, ReaderStep(c)
    PROVE  TypeOK'
<1> USE DEF TypeOK, Carries, Stages
<1>0. clock \in 0 .. MaxClock
    OBVIOUS
<1>1. CASE Start(c)
    BY <1>1 DEF Start
<1>2. CASE FetchObservation(c)
    BY <1>2, <1>0, ReportedIsObservation DEF FetchObservation
<1>3. CASE IssuerCommit(c)
    <2>1. Signed(signingKey, held[c]) \in Entry
        BY <1>3, SignedIsEntry DEF IssuerCommit
    <2> QED BY <1>3, <2>1 DEF IssuerCommit
<1>4. CASE IssuerRefuse(c)
    BY <1>4, ConstantsAssumption DEF IssuerRefuse, GiveUp
<1>5. CASE IssueDocument(c)
    <2>1. Issued(held[c]) \in Document
        BY <1>5, <1>0, IssuedIsDocument DEF IssueDocument
    <2> QED BY <1>5, <2>1 DEF IssueDocument
<1>6. CASE IssueTooLate(c)
    BY <1>6, ConstantsAssumption DEF IssueTooLate, GiveUp
<1>7. CASE CheckDocument(c)
    <2>1. held[c].entry \in Entry
        BY <1>7 DEF CheckDocument, Document
    <2> QED BY <1>7, <2>1 DEF CheckDocument
<1>8. CASE RejectDocument(c)
    BY <1>8, ConstantsAssumption DEF RejectDocument, GiveUp
<1>9. CASE VerifierAccept(c)
    BY <1>9 DEF VerifierAccept
<1>10. CASE VerifierRefuse(c)
    BY <1>10, ConstantsAssumption DEF VerifierRefuse, GiveUp
<1>11. CASE Serve(c)
    BY <1>11, ConstantsAssumption DEF Serve
<1>12. CASE Fail(c)
    BY <1>12, ConstantsAssumption DEF Fail, GiveUp
<1> QED BY <1>1, <1>2, <1>3, <1>4, <1>5, <1>6, <1>7, <1>8, <1>9, <1>10,
           <1>11, <1>12 DEF ReaderStep

\* Type correctness: at every stage a chain of calls carries exactly what that
\* stage of the code handles (AuthorityIssuer, verifyAuthority,
\* AuthorityCheckpoint).
THEOREM TypeCorrect == Spec => []TypeOK
<1>1. Init => TypeOK
    BY ConstantsAssumption DEF Init, TypeOK, Carries, Stages
<1>2. TypeOK /\ [Next]_vars => TypeOK'
    <2> SUFFICES ASSUME TypeOK, [Next]_vars PROVE TypeOK'
        OBVIOUS
    <2>1. CASE Tick
        BY <2>1, ConstantsAssumption DEF Tick, TypeOK, Carries
    <2>2. CASE ReplaceIssuer
        BY <2>2, ConstantsAssumption DEF ReplaceIssuer, TypeOK, Carries
    <2>3. ASSUME NEW k \in Keys, RotateSigningKey(k) \/ RotatePinnedKey(k)
          PROVE  TypeOK'
        BY <2>3 DEF RotateSigningKey, RotatePinnedKey, TypeOK, Carries
    <2>4. ASSUME NEW c \in Readers, ReaderStep(c) PROVE TypeOK'
        BY <2>4, ReaderStepTypes
    <2>5. CASE UNCHANGED vars
        BY <2>5 DEF vars, TypeOK, Carries
    <2> QED BY <2>1, <2>2, <2>3, <2>4, <2>5 DEF Next
<1> QED BY <1>1, <1>2, PTL DEF Spec
-----------------------------------------------------------------------------
(* The verifier's checkpoint.                                              *)

Follows(p, e) == VerifierLedger!Follows(p, e)

\* An entry accepted after prior is prior again or follows it.
LEMMA AcceptedFollows ==
    ASSUME NEW prior \in Entry \cup {None}, NEW e \in Entry,
           VerifierVerdict(prior, e) # "rollback"
    PROVE  prior = None \/ prior = e \/ (prior \in Entry /\ Follows(prior, e))
BY DEF VerifierVerdict, Follows, VerifierLedger!Follows, Entry, Times, Revisions

\* Following, as the verifier's comparison of revision, truth and times orders
\* entries, is transitive.
LEMMA FollowsTransitive ==
    ASSUME NEW a \in Entry, NEW b \in Entry, NEW e \in Entry,
           Follows(a, b), Follows(b, e)
    PROVE  Follows(a, e)
BY ConstantsAssumption
   DEF Follows, VerifierLedger!Follows, Entry, Times, Revisions

\* The checkpoint is the newest entry of the ledger; everything else in the
\* ledger precedes it, and what is or will be served is in the ledger.
Newest == verifierCp = None => ledger = {}
AllPrecede ==
    verifierCp # None =>
        /\ verifierCp \in ledger
        /\ \A e \in ledger : e = verifierCp \/ Follows(e, verifierCp)
VerifiedRecorded == \A c \in Readers : pc[c] = "verified" => held[c] \in ledger
ServedRecorded == served \subseteq ledger
BeforeServed == \A c \in Readers : before[c] \subseteq served

VerifierInv ==
    /\ TypeOK
    /\ Newest
    /\ AllPrecede
    /\ VerifierLedger!Linear(ledger)
    /\ VerifiedRecorded
    /\ ServedRecorded
    /\ BeforeServed
    /\ NoServedRollback

\* What VerifierAccept does to the ledger: everything in it precedes the new
\* checkpoint.
LEMMA AcceptAppends ==
    ASSUME VerifierInv, NEW c \in Readers, VerifierAccept(c)
    PROVE  /\ held[c] \in Entry
           /\ \A e \in ledger : e = held[c] \/ Follows(e, held[c])
           /\ held[c] \notin ledger => \A e \in ledger : Follows(e, held[c])
<1>1. held[c] \in Entry /\ verifierCp \in Entry \cup {None} /\ ledger \subseteq Entry
    BY DEF VerifierInv, TypeOK, Carries, VerifierAccept
<1>2. VerifierVerdict(verifierCp, held[c]) # "rollback"
    BY DEF VerifierAccept
<1>3. CASE verifierCp = None
    BY <1>1, <1>3 DEF VerifierInv, Newest
<1>4. CASE verifierCp # None
    <2>1. verifierCp = held[c] \/ Follows(verifierCp, held[c])
        BY <1>1, <1>2, <1>4, AcceptedFollows
    <2>2. ASSUME NEW e \in ledger PROVE e = held[c] \/ Follows(e, held[c])
        <3>1. e = verifierCp \/ Follows(e, verifierCp)
            BY <1>4 DEF VerifierInv, AllPrecede
        <3>2. verifierCp \in Entry /\ e \in Entry
            BY <1>1, <1>4
        <3> QED BY <1>1, <2>1, <3>1, <3>2, FollowsTransitive
    <2> QED BY <1>1, <2>2
<1> QED BY <1>3, <1>4

\* A step that touches neither the checkpoint nor the histories, and lets no
\* chain become verified, keeps the invariant.
LEMMA VerifierFrame ==
    ASSUME VerifierInv, TypeOK',
           UNCHANGED <<verifierCp, ledger, served>>,
           \A c \in Readers : pc'[c] = "verified" =>
               pc[c] = "verified" /\ held'[c] = held[c],
           \A c \in Readers : before'[c] \in {before[c], served, {}},
           \A c \in Readers : pc'[c] = "verified" => before'[c] = before[c]
    PROVE  VerifierInv'
<1>1. Newest' /\ AllPrecede' /\ VerifierLedger!Linear(ledger)'
    BY DEF VerifierInv, Newest, AllPrecede, Follows, VerifierLedger!Follows,
           VerifierLedger!Linear
<1>2. VerifiedRecorded' /\ ServedRecorded'
    BY DEF VerifierInv, VerifiedRecorded, ServedRecorded
<1>3. BeforeServed'
    BY DEF VerifierInv, BeforeServed
<1>4. NoServedRollback'
    BY DEF VerifierInv, NoServedRollback, VerifierLedger!Follows
<1> QED BY <1>1, <1>2, <1>3, <1>4 DEF VerifierInv

\* The verifier's invariant holds of empty checkpoints.
LEMMA VerifierInvInit == Init => VerifierInv
<1> SUFFICES ASSUME Init PROVE VerifierInv
    OBVIOUS
<1>1. TypeOK
    BY ConstantsAssumption DEF Init, TypeOK, Carries, Stages
<1> QED BY <1>1 DEF Init, VerifierInv, Newest, AllPrecede, VerifiedRecorded,
              ServedRecorded, BeforeServed, NoServedRollback,
              VerifierLedger!Linear

\* A /commit to AuthorityCheckpoint that is accepted keeps the invariant.
LEMMA VerifierInvAccept ==
    ASSUME VerifierInv, TypeOK', NEW c \in Readers, VerifierAccept(c)
    PROVE  VerifierInv'
<1>1. /\ held[c] \in Entry
      /\ \A e \in ledger : e = held[c] \/ Follows(e, held[c])
    BY AcceptAppends
<1>2. /\ verifierCp' = held[c] /\ ledger' = ledger \cup {held[c]}
      /\ held' = held /\ served' = served /\ before' = before
      /\ pc' = [pc EXCEPT ![c] = "verified"]
    BY DEF VerifierAccept
<1>3. Newest'
    BY <1>1, <1>2, NoneAssumption DEF Newest
<1>4. AllPrecede'
    BY <1>1, <1>2 DEF AllPrecede, Follows, VerifierLedger!Follows
<1>5. VerifierLedger!Linear(ledger)'
    BY <1>1, <1>2 DEF VerifierInv, VerifierLedger!Linear, Follows
<1>6. VerifiedRecorded' /\ ServedRecorded' /\ BeforeServed'
    BY <1>2 DEF VerifierInv, TypeOK, VerifiedRecorded, ServedRecorded, BeforeServed
<1>7. NoServedRollback'
    <2> SUFFICES ASSUME NEW d \in Readers, pc'[d] = "verified", NEW e \in before[d]
                 PROVE  e = held[d] \/ Follows(e, held[d])
        BY <1>2 DEF NoServedRollback, Follows
    <2>1. CASE d = c
        <3>1. e \in ledger
            BY DEF VerifierInv, BeforeServed, ServedRecorded
        <3> QED BY <1>1, <2>1, <3>1
    <2>2. CASE d # c
        BY <1>2, <2>2 DEF VerifierInv, TypeOK, NoServedRollback, Follows
    <2> QED BY <2>1, <2>2
<1> QED BY <1>3, <1>4, <1>5, <1>6, <1>7 DEF VerifierInv

\* Returning a verified summary from cloudSummary keeps the invariant.
LEMMA VerifierInvServe ==
    ASSUME VerifierInv, TypeOK', NEW c \in Readers, Serve(c)
    PROVE  VerifierInv'
<1>1. /\ verifierCp' = verifierCp /\ ledger' = ledger
      /\ served' = served \cup {held[c]} /\ pc[c] = "verified"
      /\ pc' = [pc EXCEPT ![c] = "idle"]
      /\ held' = [held EXCEPT ![c] = None]
      /\ before' = [before EXCEPT ![c] = {}]
    BY DEF Serve
<1>2. Newest' /\ AllPrecede' /\ VerifierLedger!Linear(ledger)'
    BY <1>1 DEF VerifierInv, Newest, AllPrecede, Follows, VerifierLedger!Follows,
                VerifierLedger!Linear
<1>3. VerifiedRecorded' /\ ServedRecorded'
    BY <1>1 DEF VerifierInv, TypeOK, VerifiedRecorded, ServedRecorded
<1>4. BeforeServed'
    BY <1>1 DEF VerifierInv, TypeOK, BeforeServed
<1>5. NoServedRollback'
    BY <1>1 DEF VerifierInv, TypeOK, NoServedRollback, VerifierLedger!Follows
<1> QED BY <1>2, <1>3, <1>4, <1>5 DEF VerifierInv

\* Every step of the chain keeps the verifier's invariant.
LEMMA VerifierInvStep == VerifierInv /\ TypeOK' /\ [Next]_vars => VerifierInv'
<1> SUFFICES ASSUME VerifierInv, TypeOK', [Next]_vars PROVE VerifierInv'
    OBVIOUS
<1>0. TypeOK
    BY DEF VerifierInv
<1>1. CASE Tick \/ ReplaceIssuer \/ UNCHANGED vars
    BY <1>1, VerifierFrame DEF Tick, ReplaceIssuer, vars
<1>2. ASSUME NEW k \in Keys, RotateSigningKey(k) \/ RotatePinnedKey(k)
      PROVE  VerifierInv'
    BY <1>2, VerifierFrame DEF RotateSigningKey, RotatePinnedKey
<1>3. ASSUME NEW c \in Readers, ReaderStep(c) PROVE VerifierInv'
    <2>1. CASE VerifierAccept(c)
        BY <2>1, VerifierInvAccept
    <2>2. CASE Serve(c)
        BY <2>2, VerifierInvServe
    <2>3. CASE Start(c)
        BY <2>3, <1>0, VerifierFrame DEF Start, TypeOK
    <2>4. CASE FetchObservation(c) \/ IssuerCommit(c) \/ IssueDocument(c)
               \/ CheckDocument(c)
        BY <2>4, <1>0, VerifierFrame
           DEF FetchObservation, IssuerCommit, IssueDocument, CheckDocument, TypeOK
    <2>5. CASE IssuerRefuse(c) \/ IssueTooLate(c) \/ RejectDocument(c)
               \/ VerifierRefuse(c) \/ Fail(c)
        BY <2>5, <1>0, VerifierFrame
           DEF IssuerRefuse, IssueTooLate, RejectDocument, VerifierRefuse, Fail,
               GiveUp, TypeOK
    <2> QED BY <1>3, <2>1, <2>2, <2>3, <2>4, <2>5 DEF ReaderStep
<1> QED BY <1>1, <1>2, <1>3 DEF Next

\* In every reachable state the AuthorityCheckpoint record is the newest entry of
\* the ledger, and whatever is or will be served has been recorded there.
THEOREM VerifierInvariant == Spec => []VerifierInv
<1> QED BY VerifierInvInit, VerifierInvStep, TypeCorrect, PTL DEF Spec

\* No caller is ever returned a second truth for a revision, a second key, or
\* times that run backwards, whichever verifyAuthority calls overtake another.
THEOREM ServedIsLinear == Spec => []ServedLinear
<1>1. VerifierInv => ServedLinear
    BY DEF VerifierInv, ServedRecorded, ServedLinear, VerifierLedger!Linear
<1> QED BY <1>1, VerifierInvariant, PTL

\* A call never returns an older truth than a call that returned before it
\* began: AuthorityCheckpoint turns a document signed earlier away.
THEOREM ServedNeverRollsBack == Spec => []NoServedRollback
<1>1. VerifierInv => NoServedRollback
    BY DEF VerifierInv
<1> QED BY <1>1, VerifierInvariant, PTL

\* The checkpoint implements the append-only ledger: every step of the chain
\* records one entry that follows all others, or leaves the ledger alone.
THEOREM ChainImplementsLedger == Spec => VerifierImplementsLedger
<1>1. Init => VerifierLedger!Init
    BY DEF Init, VerifierLedger!Init
<1>2. VerifierInv /\ [Next]_vars => [VerifierLedger!Next]_ledger
    <2> SUFFICES ASSUME VerifierInv, [Next]_vars, ledger' # ledger
                 PROVE  VerifierLedger!Next
        OBVIOUS
    <2>1. PICK c \in Readers : VerifierAccept(c)
        BY DEF Next, vars, Tick, ReplaceIssuer, RotateSigningKey,
               RotatePinnedKey, ReaderStep, Start, FetchObservation,
               IssuerCommit, IssuerRefuse, IssueDocument, IssueTooLate,
               CheckDocument, RejectDocument, VerifierRefuse, Serve, Fail
    <2>2. ledger' = ledger \cup {held[c]}
        BY <2>1 DEF VerifierAccept
    <2>3. held[c] \notin ledger
        BY <2>2
    <2>4. held[c] \in Entry /\ \A e \in ledger : Follows(e, held[c])
        BY <2>1, <2>3, AcceptAppends
    <2>5. VerifierLedger!Record(held[c])
        BY <2>2, <2>4 DEF VerifierLedger!Record, Follows
    <2> QED BY <2>2, <2>4, <2>5 DEF VerifierLedger!Next
<1> QED BY <1>1, <1>2, VerifierInvariant, PTL
        DEF Spec, VerifierImplementsLedger, VerifierLedger!Spec

-----------------------------------------------------------------------------
(* The issuer's checkpoint, and what travels from it to the verifier.      *)

IssuedEntries == {x.entry : x \in issuedLedger}

\* What is on its way from the issuer to the verifier, and what has arrived.
CarriedIssued ==
    \A c \in Readers :
        /\ pc[c] \in {"committed", "checked", "verified"} =>
              held[c] \in IssuedEntries
        /\ pc[c] = "signed" => held[c].entry \in IssuedEntries
LedgerIssued == ledger \subseteq IssuedEntries

\* The issuer's checkpoint is the newest entry issued from its storage.
StorageBounded == \A x \in issuedLedger : x.storage <= replaced
NewestIssued ==
    \A x \in issuedLedger : x.storage = replaced =>
        /\ issuerCp # None
        /\ x.entry = issuerCp \/ Follows(x.entry, issuerCp)

IssuerInv ==
    /\ TypeOK
    /\ CarriedIssued
    /\ LedgerIssued
    /\ StorageBounded
    /\ NewestIssued
    /\ IssuerLinear

\* An entry the issuer's transaction accepts after prior is prior again or
\* follows it.
LEMMA IssuerAcceptedFollows ==
    ASSUME NEW prior \in Entry \cup {None}, NEW e \in Entry,
           IssuerVerdict(prior, e) # "rollback"
    PROVE  prior = None \/ prior = e \/ (prior \in Entry /\ Follows(prior, e))
BY DEF IssuerVerdict, Follows, VerifierLedger!Follows, Entry, Times, Revisions

\* A step in which the issuer records nothing, and each chain carries on with
\* an issued entry only what already was one, keeps the invariant.
LEMMA IssuerFrame ==
    ASSUME IssuerInv, TypeOK',
           UNCHANGED <<issuerCp, issuedLedger, replaced>>,
           CarriedIssued', LedgerIssued'
    PROVE  IssuerInv'
BY DEF IssuerInv, StorageBounded, NewestIssued, IssuerLinear, Follows,
       VerifierLedger!Follows, VerifierLedger!Linear

\* The transaction of AuthorityIssuer.fetch keeps the issuer's invariant.
LEMMA IssuerInvCommit ==
    ASSUME IssuerInv, TypeOK', NEW c \in Readers, IssuerCommit(c)
    PROVE  IssuerInv'
<1> DEFINE e == Signed(signingKey, held[c])
           x == [storage |-> replaced, entry |-> e]
<1>1. e \in Entry /\ issuerCp \in Entry \cup {None}
    BY SignedIsEntry DEF IssuerInv, TypeOK, Carries, IssuerCommit
<1>2. /\ issuerCp' = e /\ issuedLedger' = issuedLedger \cup {x}
      /\ replaced' = replaced /\ ledger' = ledger
      /\ pc' = [pc EXCEPT ![c] = "committed"]
      /\ held' = [held EXCEPT ![c] = e]
    BY DEF IssuerCommit
<1>3. issuerCp = None \/ issuerCp = e \/ (issuerCp \in Entry /\ Follows(issuerCp, e))
    BY <1>1, IssuerAcceptedFollows DEF IssuerCommit
<1> HIDE DEF e
<1>4. \A y \in issuedLedger : y.storage = replaced =>
          y.entry = e \/ Follows(y.entry, e)
    <2> SUFFICES ASSUME NEW y \in issuedLedger, y.storage = replaced
                 PROVE  y.entry = e \/ Follows(y.entry, e)
        OBVIOUS
    <2>1. y.entry \in Entry
        BY DEF IssuerInv, TypeOK
    <2>2. issuerCp # None /\ (y.entry = issuerCp \/ Follows(y.entry, issuerCp))
        BY DEF IssuerInv, NewestIssued
    <2> QED BY <1>1, <1>3, <2>1, <2>2, FollowsTransitive
<1>5. IssuedEntries' = IssuedEntries \cup {e}
    <2>1. x.entry = e
        OBVIOUS
    <2> HIDE DEF x
    <2>2. \A v : v \in IssuedEntries' <=> \E y \in issuedLedger' : y.entry = v
        BY DEF IssuedEntries
    <2>3. \A v : v \in IssuedEntries <=> \E y \in issuedLedger : y.entry = v
        BY DEF IssuedEntries
    <2> QED BY <1>2, <2>1, <2>2, <2>3
<1>6. CarriedIssued'
    BY <1>2, <1>5 DEF IssuerInv, TypeOK, CarriedIssued
<1>7. LedgerIssued'
    BY <1>2, <1>5 DEF IssuerInv, LedgerIssued
<1>8. StorageBounded'
    BY <1>2 DEF IssuerInv, TypeOK, StorageBounded
<1>9. NewestIssued'
    BY <1>1, <1>2, <1>4, NoneAssumption
       DEF NewestIssued, Follows, VerifierLedger!Follows
<1>10. IssuerLinear'
    BY <1>2, <1>4 DEF IssuerInv, IssuerLinear, VerifierLedger!Linear, Follows
<1> QED BY <1>6, <1>7, <1>8, <1>9, <1>10 DEF IssuerInv

\* Addressing another, empty issuer storage keeps the issuer's invariant.
LEMMA IssuerInvReplace ==
    ASSUME IssuerInv, TypeOK', ReplaceIssuer
    PROVE  IssuerInv'
<1>1. /\ replaced' = replaced + 1 /\ issuedLedger' = issuedLedger
      /\ ledger' = ledger /\ pc' = pc /\ held' = held
    BY DEF ReplaceIssuer
<1>2. replaced \in Nat /\ \A x \in issuedLedger : x.storage \in Nat
    BY ConstantsAssumption DEF IssuerInv, TypeOK
<1>3. StorageBounded' /\ NewestIssued'
    BY <1>1, <1>2 DEF IssuerInv, StorageBounded, NewestIssued
<1>4. CarriedIssued' /\ LedgerIssued' /\ IssuerLinear'
    BY <1>1 DEF IssuerInv, CarriedIssued, LedgerIssued, IssuedEntries,
                IssuerLinear, VerifierLedger!Linear, VerifierLedger!Follows
<1> QED BY <1>3, <1>4 DEF IssuerInv

\* Every step of a chain of calls keeps the issuer's invariant.
LEMMA IssuerInvReader ==
    ASSUME IssuerInv, TypeOK', NEW c \in Readers, ReaderStep(c)
    PROVE  IssuerInv'
<1> USE DEF CarriedIssued, LedgerIssued, IssuedEntries
<1>0. TypeOK /\ CarriedIssued /\ LedgerIssued
    BY DEF IssuerInv
<1>1. CASE IssuerCommit(c)
    BY <1>1, IssuerInvCommit
<1>2. CASE Start(c) \/ FetchObservation(c) \/ Serve(c)
    <2>1. CarriedIssued' /\ LedgerIssued'
        BY <1>0, <1>2 DEF Start, FetchObservation, Serve, TypeOK
    <2> QED BY <1>2, <2>1, IssuerFrame DEF Start, FetchObservation, Serve
<1>3. CASE IssueDocument(c)
    <2>1. CarriedIssued' /\ LedgerIssued'
        BY <1>0, <1>3 DEF IssueDocument, Issued, TypeOK
    <2> QED BY <1>3, <2>1, IssuerFrame DEF IssueDocument
<1>4. CASE CheckDocument(c)
    <2>1. CarriedIssued' /\ LedgerIssued'
        BY <1>0, <1>4 DEF CheckDocument, TypeOK
    <2> QED BY <1>4, <2>1, IssuerFrame DEF CheckDocument
<1>5. CASE VerifierAccept(c)
    <2>1. CarriedIssued' /\ LedgerIssued'
        BY <1>0, <1>5 DEF VerifierAccept, TypeOK
    <2> QED BY <1>5, <2>1, IssuerFrame DEF VerifierAccept
<1>6. CASE IssuerRefuse(c) \/ IssueTooLate(c) \/ RejectDocument(c)
           \/ VerifierRefuse(c) \/ Fail(c)
    <2>1. GiveUp(c) /\ UNCHANGED <<issuerCp, issuedLedger, ledger>>
        BY <1>6 DEF IssuerRefuse, IssueTooLate, RejectDocument,
                    VerifierRefuse, Fail
    <2>2. CarriedIssued' /\ LedgerIssued'
        BY <1>0, <2>1 DEF GiveUp, TypeOK
    <2> QED BY <2>1, <2>2, IssuerFrame DEF GiveUp
<1> QED BY <1>1, <1>2, <1>3, <1>4, <1>5, <1>6 DEF ReaderStep

\* In every reachable state each issuer storage holds the newest entry it signed,
\* and only signed entries travel on or are recorded by the verifier.
THEOREM IssuerInvariant == Spec => []IssuerInv
<1>1. Init => IssuerInv
    <2> SUFFICES ASSUME Init PROVE IssuerInv
        OBVIOUS
    <2>1. TypeOK
        BY VerifierInvInit DEF VerifierInv
    <2> QED BY <2>1 DEF Init, IssuerInv, CarriedIssued, LedgerIssued,
                        StorageBounded, NewestIssued, IssuerLinear
<1>2. IssuerInv /\ TypeOK' /\ [Next]_vars => IssuerInv'
    <2> SUFFICES ASSUME IssuerInv, TypeOK', [Next]_vars PROVE IssuerInv'
        OBVIOUS
    <2>1. CASE Tick \/ UNCHANGED vars
        BY <2>1, IssuerFrame
           DEF Tick, vars, IssuerInv, CarriedIssued, LedgerIssued, IssuedEntries
    <2>2. ASSUME NEW k \in Keys, RotateSigningKey(k) \/ RotatePinnedKey(k)
          PROVE  IssuerInv'
        BY <2>2, IssuerFrame
           DEF RotateSigningKey, RotatePinnedKey, IssuerInv, CarriedIssued,
               LedgerIssued, IssuedEntries
    <2>3. CASE ReplaceIssuer
        BY <2>3, IssuerInvReplace
    <2>4. ASSUME NEW c \in Readers, ReaderStep(c) PROVE IssuerInv'
        BY <2>4, IssuerInvReader
    <2> QED BY <2>1, <2>2, <2>3, <2>4 DEF Next
<1> QED BY <1>1, <1>2, TypeCorrect, PTL DEF Spec

\* The verifier records only what the issuer pinned first: no lost reply,
\* failed call or key rotation between the two transactions leaves the
\* verifier ahead.
THEOREM VerifierStaysBehindIssuer == Spec => []VerifierBehindIssuer
<1>1. IssuerInv => VerifierBehindIssuer
    BY DEF IssuerInv, LedgerIssued, IssuedEntries, VerifierBehindIssuer
<1> QED BY <1>1, IssuerInvariant, PTL

\* From one storage the issuer signs one history, whatever the product reports.
THEOREM IssuerIsLinear == Spec => []IssuerLinear
<1>1. IssuerInv => IssuerLinear
    BY DEF IssuerInv
<1> QED BY <1>1, IssuerInvariant, PTL
=============================================================================
