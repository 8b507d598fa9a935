------------------------------ MODULE ProfileStore ------------------------------
(***************************************************************************)
(* The dashboard's encrypted profile: one entity in the browser's          *)
(* IndexedDB, the outbox of what has not been acknowledged, and a cursor   *)
(* into the changes of an authority.  Each tab has a store of its own, all *)
(* of them on one database; a store runs one update or one applyExchange   *)
(* at a time, and prepareExchange beside them.                             *)
(*                                                                         *)
(* A transaction is one action; between two of them other tabs take their  *)
(* steps.  A profile is the operation it was made by, a key the tab that   *)
(* made it.  A change is what the authority now has: with one entity, the  *)
(* changes since any cursor come to that.                                  *)
(***************************************************************************)
EXTENDS Integers, FiniteSets

CONSTANTS
    Tabs,
    NoKey,         \* no key yet; a tombstone needs none either
    OtherKey,      \* the key of another device
    MaxOps,        \* bound: updates in all
    MaxRevision    \* bound: revisions of the authority

ProfileConstants == NoKey \notin Tabs /\ MaxOps \in Nat /\ MaxRevision \in Nat

Operations == 1 .. MaxOps
Elsewhere == 0     \* the operations of other devices
Keys == Tabs \cup {OtherKey}

VARIABLES
    key,        \* the key in the database
    cursor,     \* meta.cursor, 0 for null
    entity,     \* the stored profile: [rev, by, key]
    outbox,     \* the mutations in the outbox: [op, base, key]
    boot,       \* where each tab's bootstrap stands
    pc,         \* ... and its task in the write queue
    had,        \* what that task has read: [key, cursor, rev]
    call,       \* its exchange: [stage, cursor, batch, acks, change]
    authority,  \* what the authority has: [rev, by, key]
    accepted,   \* ... and the mutations it took: [op, rev]
    made,       \* history: updates so far
    crossed,    \* history: an update was made from a profile replaced meanwhile
    doubled     \* history: a second key has replaced the first

dbVars == <<key, cursor, entity, outbox>>
tabVars == <<boot, pc, had, call>>
cloudVars == <<authority, accepted>>
historyVars == <<made, crossed, doubled>>
vars == <<dbVars, tabVars, cloudVars, historyVars>>

Nothing == [rev |-> 0, by |-> Elsewhere, key |-> NoKey]
NoRead == [key |-> NoKey, cursor |-> 0, rev |-> 0]
NoCall == [stage |-> "none", cursor |-> 0, batch |-> {}, acks |-> {}, change |-> Nothing]

Init ==
    /\ key = NoKey /\ cursor = 0 /\ entity = Nothing /\ outbox = {}
    /\ boot = [t \in Tabs |-> "new"] /\ pc = [t \in Tabs |-> "idle"]
    /\ had = [t \in Tabs |-> NoRead] /\ call = [t \in Tabs |-> NoCall]
    /\ authority = Nothing /\ accepted = {}
    /\ made = 0 /\ crossed = FALSE /\ doubled = FALSE

-----------------------------------------------------------------------------
(* bootstrap: the key and the metadata are looked for, and made in a second*)
(* transaction, which does not look again.                                 *)

BootLooks(t) ==
    /\ boot[t] = "new"
    /\ boot' = [boot EXCEPT ![t] = IF key = NoKey THEN "making" ELSE "done"]
    /\ UNCHANGED <<dbVars, pc, had, call, cloudVars, historyVars>>

BootMakes(t) ==
    /\ boot[t] = "making"
    /\ boot' = [boot EXCEPT ![t] = "done"]
    /\ key' = t /\ cursor' = 0
    /\ doubled' = (doubled \/ key # NoKey)
    /\ UNCHANGED <<entity, outbox, pc, had, call, cloudVars, made, crossed>>

-----------------------------------------------------------------------------
(* update.                                                                 *)

\* identity, for the task at the head of the queue.
Identity(t, task) ==
    /\ boot[t] = "done" /\ pc[t] = "idle"
    /\ task = "update" => made < MaxOps
    /\ task = "apply" => call[t].stage = "answered"
    /\ pc' = [pc EXCEPT ![t] = task]
    /\ had' = [had EXCEPT ![t] = [key |-> key, cursor |-> cursor, rev |-> 0]]
    /\ UNCHANGED <<dbVars, boot, call, cloudVars, historyVars>>

ReadEntity(t) ==
    /\ pc[t] = "update"
    /\ pc' = [pc EXCEPT ![t] = "encrypted"]
    /\ had' = [had EXCEPT ![t].rev = entity.rev]
    /\ UNCHANGED <<dbVars, boot, call, cloudVars, historyVars>>

\* What is stored can be read, and is what was to be stored: no write.
Unchanged(t) ==
    /\ pc[t] = "update"
    /\ entity.rev > 0 /\ entity.key = had[t].key
    /\ pc' = [pc EXCEPT ![t] = "idle"] /\ had' = [had EXCEPT ![t] = NoRead]
    /\ UNCHANGED <<dbVars, boot, call, cloudVars, historyVars>>

\* What an update stores, and queues.
Updated(t) == [rev |-> had[t].rev + 1, by |-> made + 1, key |-> had[t].key]
Mutation(t) == [op |-> made + 1, base |-> had[t].rev, key |-> had[t].key]

UpdateOver(t) ==
    /\ pc' = [pc EXCEPT ![t] = "idle"]
    /\ had' = [had EXCEPT ![t] = NoRead]
    /\ made' = made + 1
    /\ crossed' = (crossed \/ entity.rev # had[t].rev)
    /\ UNCHANGED <<key, boot, call, cloudVars, doubled>>

\* The entity, its mutation instead of all earlier ones, and the metadata as
\* they were read.
CommitUpdate(t) ==
    /\ pc[t] = "encrypted" /\ made < MaxOps
    /\ entity' = Updated(t) /\ outbox' = {Mutation(t)}
    /\ cursor' = had[t].cursor
    /\ UpdateOver(t)

-----------------------------------------------------------------------------
(* prepareExchange, the exchange, applyExchange.                           *)

Prepare(t) ==
    /\ boot[t] = "done" /\ call[t].stage = "none"
    /\ call' = [call EXCEPT ![t].stage = "prepared", ![t].cursor = cursor]
    /\ UNCHANGED <<dbVars, boot, pc, had, cloudVars, historyVars>>

ReadOutbox(t) ==
    /\ call[t].stage = "prepared"
    /\ call' = [call EXCEPT ![t].stage = "sent", ![t].batch = outbox]
    /\ UNCHANGED <<dbVars, boot, pc, had, cloudVars, historyVars>>

\* The authority (external): it takes each operation once, and only on top of
\* the revision it was made from; what it says is not in acks is a conflict.
Exchange(t) ==
    LET known == {m \in call[t].batch : \E a \in accepted : a.op = m.op}
        fresh == {m \in call[t].batch \ known : m.base = authority.rev}
    IN  /\ call[t].stage = "sent"
        /\ fresh # {} => authority.rev < MaxRevision
        /\ authority' = IF fresh = {} THEN authority
                        ELSE LET m == CHOOSE m \in fresh : TRUE
                             IN  [rev |-> m.base + 1, by |-> m.op, key |-> m.key]
        /\ accepted' = accepted \cup {[op |-> m.op, rev |-> m.base + 1] : m \in fresh}
        /\ call' = [call EXCEPT
                ![t].stage = "answered", ![t].batch = {},
                ![t].acks = {a \in accepted' : \E m \in call[t].batch : a.op = m.op},
                ![t].change = authority']
        /\ UNCHANGED <<dbVars, boot, pc, had, historyVars>>

\* Another device changes or deletes the profile; the key of the one is not
\* this browser's, the other needs none.
ElsewhereWrites ==
    /\ authority.rev < MaxRevision
    /\ \E k \in {OtherKey, NoKey} :
          authority' = [rev |-> authority.rev + 1, by |-> Elsewhere, key |-> k]
    /\ UNCHANGED <<dbVars, tabVars, accepted, historyVars>>

\* The changes the response carries, if any, all after the cursor sent.
Carries(c) == c.change.rev > c.cursor

Answer(t) ==
    /\ pc' = [pc EXCEPT ![t] = "idle"]
    /\ had' = [had EXCEPT ![t] = NoRead]
    /\ call' = [call EXCEPT ![t] = NoCall]

\* One change that cannot be decrypted, and the whole response is refused.
RefuseExchange(t) ==
    /\ pc[t] = "apply"
    /\ Carries(call[t]) /\ call[t].change.key \notin {had[t].key, NoKey}
    /\ Answer(t)
    /\ UNCHANGED <<dbVars, boot, cloudVars, historyVars>>

\* Variant of Kept: an answer is the end of all that was queued.
KeptNone(acks) == IF acks = {} THEN outbox ELSE {}

\* A mutation leaves the outbox when it is acknowledged at the revision it
\* was to become, and the entity is at least that far.
Kept(acks) ==
    {m \in outbox : ~ \E a \in acks :
        a.op = m.op /\ a.rev = m.base + 1 /\ entity'.rev >= a.rev}

ApplyExchange(t) ==
    /\ pc[t] = "apply"
    /\ Carries(call[t]) => call[t].change.key \in {had[t].key, NoKey}
    /\ entity' = IF Carries(call[t]) /\ call[t].change.rev > entity.rev
                 THEN call[t].change ELSE entity
    /\ outbox' = Kept(call[t].acks)
    /\ cursor' = call[t].change.rev
    /\ Answer(t)
    /\ UNCHANGED <<key, boot, cloudVars, historyVars>>

\* The tab is closed or reloaded, or a transaction aborts: its answer and its
\* task are lost.
Reload(t) ==
    /\ boot' = [boot EXCEPT ![t] = "new"]
    /\ pc' = [pc EXCEPT ![t] = "idle"]
    /\ had' = [had EXCEPT ![t] = NoRead] /\ call' = [call EXCEPT ![t] = NoCall]
    /\ UNCHANGED <<dbVars, cloudVars, historyVars>>

Next ==
    \/ \E t \in Tabs :
          \/ BootLooks(t) \/ BootMakes(t) \/ ReadEntity(t) \/ Unchanged(t)
          \/ CommitUpdate(t)
          \/ \E task \in {"update", "apply"} : Identity(t, task)
          \/ Prepare(t) \/ ReadOutbox(t) \/ Exchange(t)
          \/ RefuseExchange(t) \/ ApplyExchange(t) \/ Reload(t)
    \/ ElsewhereWrites

Spec == Init /\ [][Next]_vars

-----------------------------------------------------------------------------
(* Properties.                                                             *)

Profiles == [rev : Nat, by : {Elsewhere} \cup Operations, key : Keys \cup {NoKey}]
Authorized == {p \in Profiles : p.rev <= MaxRevision}
Mutations == [op : Operations, base : Nat, key : Keys]
Acks == [op : Operations, rev : Nat]
Reads == [key : Tabs \cup {NoKey}, cursor : 0 .. MaxRevision, rev : Nat]
Exchanges == [stage : {"none", "prepared", "sent", "answered"}, cursor : 0 .. MaxRevision,
              batch : SUBSET Mutations, acks : SUBSET Acks, change : Authorized]

\* Types; the outbox has at most the mutation of the last update, and there is
\* no profile and no call before there is a key.
TypeOK ==
    /\ key \in Tabs \cup {NoKey} /\ cursor \in 0 .. MaxRevision
    /\ entity \in Profiles /\ authority \in Authorized
    /\ outbox \subseteq Mutations /\ \A m \in outbox : m.op = made
    /\ accepted \subseteq Acks
    /\ boot \in [Tabs -> {"new", "making", "done"}]
    /\ pc \in [Tabs -> {"idle", "update", "encrypted", "apply"}]
    /\ had \in [Tabs -> Reads] /\ call \in [Tabs -> Exchanges]
    /\ \A t \in Tabs :
          /\ boot[t] # "done" => pc[t] = "idle" /\ call[t] = NoCall
          /\ pc[t] # "idle" => had[t].key # NoKey
          /\ pc[t] = "apply" => call[t].stage = "answered"
    /\ made \in 0 .. MaxOps /\ crossed \in BOOLEAN /\ doubled \in BOOLEAN
    /\ (\E t \in Tabs : boot[t] = "done") => key # NoKey

\* A profile the authority has, or had, at its revision, ...
Taken(profile) ==
    \/ profile.by = Elsewhere /\ \A a \in accepted : a.rev # profile.rev
    \/ [op |-> profile.by, rev |-> profile.rev] \in accepted

\* ... and one that waits in the outbox to become that revision.
Pending(profile) == \E m \in outbox : m.op = profile.by /\ m.base + 1 = profile.rev

\* "It preserves outbox data until an acknowledged response and materialized
\* cursor succeed together" (docs/dashboard.md:76-78), whatever tabs, answers and
\* reloads cross.  The last update is in the outbox or has been taken, whether it
\* is still the profile or a change has replaced it.  The profile is a change the
\* authority made at that revision, or waits in the outbox.  It is not behind the
\* cursor: a change the cursor has passed is in the profile, or a later one is,
\* or an update that is not taken, of its revision or a later one.  Such an
\* update stands in the change's place, which the cursor passes over for good;
\* the authority, which compares revisions, answers with a conflict, or takes an
\* update whose number fits over the change nobody has seen here.  Not behind the
\* cursor is not promised when two tabs cross, one of which updates what the
\* other has replaced meanwhile.  And the profile can be read, unless two of them
\* have made the first key at a time.
OutboxPreserved ==
    /\ made = 0 \/ outbox # {} \/ \E a \in accepted : a.op = made
    /\ Taken(entity) \/ Pending(entity)
    /\ crossed \/ cursor <= entity.rev
    /\ doubled \/ entity.key \in {key, NoKey}

\* Inductive: what the authority has, or has answered, is a change of its own, ...
Known(profile) == Taken(profile) /\ profile.rev <= authority.rev

AnswersAreTaken ==
    /\ Taken(authority)
    /\ \A a \in accepted : a.rev \in 1 .. authority.rev
    /\ entity.by = Elsewhere => entity.rev <= authority.rev
    /\ \A t \in Tabs : Known(call[t].change) /\ call[t].acks \subseteq accepted

\* ... no task and no call knows a cursor the profile has not come to, ...
CursorsBehind ==
    crossed \/ \A t \in Tabs : had[t].cursor <= entity.rev /\ call[t].cursor <= entity.rev

\* ... and there is one key.
OneKey == doubled \/ \A t \in Tabs : had[t].key \in {key, NoKey}

ProfileInv == TypeOK /\ AnswersAreTaken /\ CursorsBehind /\ OneKey /\ OutboxPreserved
=============================================================================
