--------------------------- MODULE RevisionLedger ---------------------------
(***************************************************************************)
(* What a revision checkpoint promises to everyone who reads an authority  *)
(* truth through it: an append-only ledger of entries.  An entry is        *)
(* appended only if it carries a higher revision than every earlier one,   *)
(* is signed with the same key, and was neither verified nor observed      *)
(* before an entry that is already there.  Nothing is ever removed or      *)
(* replaced, whatever crashes, retries or reorderings happen underneath.   *)
(*                                                                         *)
(* The verifier's durable checkpoint ("checkpoint-v3") and the table       *)
(* authority_revision_checkpoints of the dashboard are shown to implement  *)
(* this module, each of the issuer's ("source-checkpoint-v1") to hold      *)
(* entries that are Linear.                                                *)
(***************************************************************************)
EXTENDS Integers

CONSTANT Entries   \* every entry that could ever be recorded

VARIABLE ledger    \* the entries recorded so far

Init == ledger = {}

\* e may follow p in the ledger.
Follows(p, e) ==
    /\ p.key = e.key
    /\ p.rev < e.rev
    /\ p.verified <= e.verified
    /\ p.observed <= e.observed

Record(e) ==
    /\ \A p \in ledger : Follows(p, e)
    /\ ledger' = ledger \cup {e}

Next == \E e \in ledger' : e \in Entries /\ Record(e)

Spec == Init /\ [][Next]_ledger

\* Two recorded entries are the same entry or one follows the other: the
\* ledger holds one truth per revision and its times never run backwards.
Linear(S) == \A p, e \in S : p = e \/ Follows(p, e) \/ Follows(e, p)
=============================================================================
