------------------------------- MODULE Sources -------------------------------
(***************************************************************************)
(* Uploads of the product reference and the storage events that confirm    *)
(* them (uploads.py, b2_webhooks.py, b2_reconciliation.py, source_work.py),*)
(* over the revisions of the project.  The client writes to a quarantine   *)
(* key of its own and then completes the upload; meanwhile notifications   *)
(* of that key arrive late, twice, out of order or never, the reconciler   *)
(* looks for what was missed, and worker items act on both.                *)
(***************************************************************************)
EXTENDS Revisions, Sequences

CONSTANTS
    Uploads,                 \* the upload intents, a quarantine key each
    FileOf,                  \* FileOf[u]: [content, ext], its bytes and the extension of its name
    KindOf,                  \* KindOf[content]: its media kind
    MaxAttempts,             \* WorkItem.max_attempts
    Limit,                   \* the intents the reconciler looks at in one pass
    Watched,                 \* bound: the uploads whose notifications and items are followed
    MaxOperations,           \* bound: MaxOperations[u], writes and deletions of a quarantine key
    MaxFaults,               \* bound: storage failures and lost workers
    MaxEdits                 \* bound: renames of the project

ASSUME SourcesAssumption ==
    /\ \A u \in Uploads : FileOf[u].content \in Images
    /\ Watched \subseteq Uploads
    /\ MaxOperations \in [Uploads -> Nat]
    /\ {MaxAttempts, Limit} \subseteq Nat \ {0} /\ {MaxFaults, MaxEdits} \subseteq Nat

VARIABLES
    intent,          \* intent[u]: UploadIntent.status, "NONE" before initiate
    older,           \* older[u]: the intents that were created before it
    expired,         \* the intents whose signed URL has expired
    log,             \* log[u]: what was done to the key: "right" or "wrong" bytes, "delete"
    rows,            \* B2ObjectEvent: rows[<<u, n>>], the status of the event of log[u][n]; 0 is the discovery
    items,           \* items[<<u, family>>]: the one work item of a key and a family of events
    versions,        \* the uploads that became source versions, in that order
    assets,          \* assets[content]: the key of the asset row
    stored,          \* the canonical objects
    faults, edits

vars == <<number, active, latest, compiled, policy,
          intent, older, expired, log, rows, items, versions, assets, stored, faults, edits>>

uploads == <<intent, older, expired, versions, assets, stored>>

Families == {"create", "delete", "finalize"}
Object(u) == IF log[u] = <<>> \/ log[u][Len(log[u])] = "delete" THEN "absent" ELSE log[u][Len(log[u])]

NoItem == [state |-> "NONE", event |-> 0, tries |-> 0, late |-> FALSE]
Fault == faults < MaxFaults /\ faults' = faults + 1

-----------------------------------------------------------------------------
(* The client *)

Initiate(u) ==
    /\ intent[u] = "NONE"
    /\ intent' = [intent EXCEPT ![u] = "INITIATED"]
    /\ older' = [older EXCEPT ![u] = {v \in Uploads : intent[v] # "NONE"}]
    /\ UNCHANGED <<project, expired, log, rows, items, versions, assets, stored, faults, edits>>

\* The signed URL may be used again; nothing stops a deletion.
Operate(u, what) ==
    /\ intent[u] # "NONE" /\ Len(log[u]) < MaxOperations[u]
    /\ IF what = "delete" THEN Object(u) # "absent" ELSE u \notin expired
    /\ log' = [log EXCEPT ![u] = Append(@, what)]
    /\ UNCHANGED <<project, uploads, rows, items, faults, edits>>

Expire(u) ==
    /\ intent[u] # "NONE" /\ u \notin expired
    /\ expired' = expired \cup {u}
    /\ UNCHANGED <<project, intent, older, log, rows, items, versions, assets, stored, faults, edits>>

\* Variant of Open: an upload can be completed again.
OpenAgain(u) == intent[u] # "NONE" /\ u \notin expired

\* A completed upload is answered from its record.
Open(u) == intent[u] \notin {"NONE", "COMPLETED"} /\ u \notin expired

\* _upsert_asset and _upsert_source: the bytes have one row and one key, the source
\* one kind of media.
Agrees(u) ==
    LET content == FileOf[u].content
    IN /\ content \in DOMAIN assets => assets[content] = FileOf[u]
       /\ latest # NoImage => KindOf[latest] = KindOf[content]

\* UploadService.complete.  The canonical object is written before the transaction
\* is certain to commit, and stays if it does not.
Complete(u) ==
    /\ Open(u) /\ Object(u) = "right"
    /\ stored' = stored \cup {FileOf[u]}
    /\ LET content == FileOf[u].content
       IN \/ /\ Agrees(u) /\ Upload(content)
             /\ assets' = [c \in DOMAIN assets \cup {content} |->
                             IF c \in DOMAIN assets THEN assets[c] ELSE FileOf[u]]
             /\ versions' = Append(versions, u)
             /\ items' = [items EXCEPT ![<<u, "finalize">>] = [NoItem EXCEPT !.state = "QUEUED"]]
             /\ intent' = [intent EXCEPT ![u] = "COMPLETED"]
          \/ /\ ~(Agrees(u) /\ Fits(content) /\ Compiles(Child(content)))
             /\ UNCHANGED <<project, assets, versions, items, intent>>
    /\ UNCHANGED <<older, expired, log, rows, faults, edits>>

-----------------------------------------------------------------------------
(* Notifications and the reconciler *)

FamilyOf(u, n) == IF n > 0 /\ log[u][n] = "delete" THEN "delete" ELSE "create"

\* Variant of ItemFor: an object has one item, whatever happened to it.
ItemForObject(u, n) == <<u, "create">>

\* object_work_dedupe: the item is that of the key and the family.
ItemFor(u, n) == <<u, FamilyOf(u, n)>>

\* Event rows, and the items of their families unless the keys ever had them.
Received(events) ==
    /\ rows' = [e \in DOMAIN rows \cup events |-> IF e \in events THEN "RECEIVED" ELSE rows[e]]
    /\ items' = [i \in Uploads \X Families |->
                   LET of == {e \in events : ItemFor(e[1], e[2]) = i}
                   IN IF items[i].state = "NONE" /\ of # {}
                      THEN [NoItem EXCEPT !.state = "QUEUED", !.event = (CHOOSE e \in of : TRUE)[2]]
                      ELSE items[i]]
    /\ UNCHANGED <<project, uploads, log, faults, edits>>

\* persist: a message or an event that was received before changes nothing.
Deliver(u, n) == <<u, n>> \notin DOMAIN rows /\ Received({<<u, n>>})

\* Variant of AlreadyConfirmed: what storage has done it has also told.
AlreadyNotified(u) == \E n \in DOMAIN log[u] : log[u][n] # "delete"

AlreadyConfirmed(u) == \E n \in 0..Len(log[u]) : <<u, n>> \in DOMAIN rows /\ FamilyOf(u, n) = "create"

\* The intents a pass looks at: of those that still wait, the oldest.  Skipped are those
\* in use by a client or a worker, and those younger than the grace period.
Batch(skipped) ==
    LET waiting == {u \in Uploads \ skipped : intent[u] = "INITIATED"}
    IN {u \in waiting : Cardinality(older[u] \cap waiting) < Limit}

\* run_once: one discovery for each object of the batch that has no event yet.  An
\* intent without an object stays as it is, and is in the next batch again.
Reconcile(skipped) ==
    LET found == {u \in Batch(skipped) \cap Watched : Object(u) # "absent" /\ ~AlreadyConfirmed(u)}
    IN found # {} /\ Received(found \X {0})

\* run_once when one HEAD fails: nothing of the pass is kept.
ReconcileFails ==
    /\ Batch({}) # {} /\ Fault
    /\ UNCHANGED <<project, uploads, log, rows, items, edits>>

-----------------------------------------------------------------------------
(* The worker: one item of a key and family, read and then recorded *)

Settled(u, f) == f # "finalize" /\ rows[<<u, items[<<u, f>>].event>>] # "RECEIVED"

\* Variant of Matches: the object has some size.
MatchesAny(u) == Object(u) # "absent"

\* The object has the size the intent announced.
Matches(u) == Object(u) = "right"

\* What must hold of storage for the item to go on.
Holds(u, f) ==
    CASE f = "create"   -> Matches(u)
      [] f = "delete"   -> TRUE
      [] f = "finalize" -> FileOf[u] \in stored

SetItem(u, f, item) == items' = [items EXCEPT ![<<u, f>>] = item]

Failed(item) ==
    [item EXCEPT !.state = IF item.tries + 1 < MaxAttempts THEN "QUEUED" ELSE "DEAD", !.tries = @ + 1]

\* Claim, snapshot and HEAD.
Read(u, f) ==
    /\ items[<<u, f>>].state = "QUEUED"
    /\ \/ /\ f # "finalize" /\ Settled(u, f)
          /\ SetItem(u, f, [items[<<u, f>>] EXCEPT !.state = "DONE"])
          /\ UNCHANGED faults
       \/ /\ ~Settled(u, f)
          /\ Holds(u, f)
          /\ SetItem(u, f, [items[<<u, f>>] EXCEPT !.state = "READ", !.tries = @ + 1])
          /\ UNCHANGED faults
       \/ /\ ~Settled(u, f)
          /\ ~Holds(u, f)
          /\ SetItem(u, f, Failed(items[<<u, f>>]))
          /\ UNCHANGED faults
       \/ /\ f # "delete" /\ Fault
          /\ SetItem(u, f, Failed(items[<<u, f>>]))
    /\ UNCHANGED <<project, uploads, log, rows, edits>>

\* The lease of a worker that is late expires; it may still record what it has read.
LoseLease(u, f) ==
    /\ items[<<u, f>>].state = "READ" /\ f # "finalize"
    /\ Fault
    /\ \E alive \in BOOLEAN : SetItem(u, f, [items[<<u, f>>] EXCEPT !.state = "QUEUED", !.late = alive])
    /\ UNCHANGED <<project, uploads, log, rows, edits>>

\* Variant of From: a confirmation applies to whatever the intent has become.
FromAny(f) == {"INITIATED", "UPLOADED", "DELETED"}

\* The statuses an event may move the intent from.
From(f) == IF f = "create" THEN {"INITIATED"} ELSE {"INITIATED", "UPLOADED"}

\* _record_created and _record_deleted, each under a lock on the event row.
Applied(u, f) ==
    IF f = "finalize" \/ Settled(u, f) THEN UNCHANGED <<rows, intent>>
    ELSE /\ rows' = [rows EXCEPT ![<<u, items[<<u, f>>].event>>] =
                       IF f = "create" THEN "CONFIRMED" ELSE "PROCESSED"]
         /\ intent' = [intent EXCEPT ![u] =
                         IF @ \notin From(f) THEN @ ELSE IF f = "create" THEN "UPLOADED" ELSE "DELETED"]

Record(u, f) ==
    /\ \/ items[<<u, f>>].state = "READ" /\ SetItem(u, f, [items[<<u, f>>] EXCEPT !.state = "DONE"])
       \/ items[<<u, f>>].late /\ SetItem(u, f, [items[<<u, f>>] EXCEPT !.late = FALSE])
    /\ Applied(u, f)
    /\ UNCHANGED <<project, older, expired, log, versions, assets, stored, faults, edits>>

-----------------------------------------------------------------------------
(* Meanwhile the project is renamed; ChangeSets also has commits and new policies *)

Edit ==
    /\ edits < MaxEdits /\ edits' = edits + 1
    /\ \E name \in Names : Rename(name)
    /\ UNCHANGED <<uploads, log, rows, items, faults>>

Init ==
    /\ \E spec \in Specs :
         /\ Created(spec)
         /\ spec.name = (CHOOSE m \in Names : TRUE)
    /\ intent = [u \in Uploads |-> "NONE"] /\ older = [u \in Uploads |-> {}] /\ expired = {}
    /\ log = [u \in Uploads |-> <<>>]
    /\ rows = <<>>
    /\ items = [i \in Uploads \X Families |-> NoItem]
    /\ versions = <<>> /\ assets = <<>> /\ stored = {}
    /\ faults = 0 /\ edits = 0

Client(u) ==
    \/ Initiate(u) \/ Expire(u) \/ Complete(u)
    \/ \E what \in {"right", "wrong", "delete"} : Operate(u, what)

Work(u, f) == Read(u, f) \/ Record(u, f) \/ LoseLease(u, f)

Next ==
    \/ \E u \in Uploads : Client(u)
    \/ \E u \in Watched : \/ \E n \in DOMAIN log[u] : Deliver(u, n)
                          \/ \E f \in Families : Work(u, f)
    \/ \E skipped \in SUBSET Uploads : Reconcile(skipped)
    \/ ReconcileFails
    \/ Edit

\* The workers run, and the reconciler again and again; locks and the grace period end.
\* Clients, storage and notifications need not.
Fairness ==
    /\ WF_vars(Reconcile({}))
    /\ \A u \in Watched, f \in Families : WF_vars(Read(u, f)) /\ WF_vars(Record(u, f))

Spec == Init /\ [][Next]_vars /\ Fairness

-----------------------------------------------------------------------------
(* Properties *)

\* The statuses of an intent, and the rows of storage events and of their items.
IntentStatuses == {"NONE", "INITIATED", "UPLOADED", "COMPLETED", "DELETED"}
IsEvent(e) == e[1] \in Uploads /\ e[2] \in 0..Len(log[e[1]])
Items == [state : {"NONE", "QUEUED", "READ", "DONE", "DEAD"}, event : Nat,
          tries : 0..MaxAttempts + MaxFaults, late : BOOLEAN]

\* Types; the rows and items refer to events there were.
TypeOK ==
    /\ ProjectTypeOK
    /\ intent \in [Uploads -> IntentStatuses] /\ older \in [Uploads -> SUBSET Uploads]
    /\ items \in [Uploads \X Families -> Items]
    /\ \A e \in DOMAIN rows : IsEvent(e)
    /\ \A u \in Uploads, f \in {"create", "delete"} :
         items[<<u, f>>].state # "NONE" => /\ <<u, items[<<u, f>>].event>> \in DOMAIN rows
                                           /\ FamilyOf(u, items[<<u, f>>].event) = f

\* A completed upload is one source version, however often completion is requested,
\* and the upload that was completed last is what the active revision names.
OneVersionEach ==
    /\ \A u \in Uploads :
         Cardinality({i \in DOMAIN versions : versions[i] = u}) = IF intent[u] = "COMPLETED" THEN 1 ELSE 0
    /\ versions # <<>> => active.image = FileOf[versions[Len(versions)]].content

\* Late, repeated and reordered events and workers that lost their lease only move
\* an intent forward: a deleted one is not uploaded again, and a completed one stays.
Forward ==
    {<<"NONE", "INITIATED">>, <<"INITIATED", "UPLOADED">>, <<"INITIATED", "DELETED">>,
     <<"UPLOADED", "DELETED">>} \cup ({"INITIATED", "UPLOADED", "DELETED"} \X {"COMPLETED"})

StatusMovesForward ==
    [][\A u \in Uploads : intent'[u] # intent[u] => <<intent[u], intent'[u]>> \in Forward]_vars

\* A confirmation has seen the announced object, and leaves no intent waiting.
ConfirmedWasThere ==
    \A u \in Uploads : \A n \in 0..Len(log[u]) :
       <<u, n>> \in DOMAIN rows /\ rows[<<u, n>>] = "CONFIRMED" =>
         /\ \E i \in DOMAIN log[u] : log[u][i] = "right"
         /\ intent[u] # "INITIATED"

\* Older intents fill the batches of the reconciler.
Crowded(u) == Cardinality({v \in older[u] : intent[v] = "INITIATED"}) >= Limit

\* An object that was written as announced, and left alone, is noticed although every
\* notification of it may be lost, unless storage fails every attempt to look at it
\* or as many older intents as a pass looks at stay without an object.
PutIsNoticed ==
    MaxFaults < MaxAttempts =>
      \A u \in Watched :
         log[u] = <<"right">> /\ ~Crowded(u) ~> (intent[u] # "INITIATED" \/ log[u] # <<"right">>)

\* devpost-submission.md:252: "A periodic reconciler sweeps up object-created events
\* missed while the worker was down".  So it does without the last exception.
MissedIsSweptUp ==
    MaxFaults < MaxAttempts =>
      \A u \in Watched : log[u] = <<"right">> ~> (intent[u] # "INITIATED" \/ log[u] # <<"right">>)

\* keys.py:6: "identical bytes produce an identical key".
IdenticalBytesOneKey == \A f, g \in stored : f.content = g.content => f = g

=============================================================================
