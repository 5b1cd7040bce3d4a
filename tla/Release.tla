------------------------------ MODULE Release -------------------------------
(***************************************************************************)
(* The releases of a project (releases.py): a candidate is made of a       *)
(* successful build, approved and published.  Each operation is one        *)
(* database transaction; a publication copies its objects to the release   *)
(* store inside its transaction, and the copies outlive a rollback.        *)
(***************************************************************************)
EXTENDS EventLog

CONSTANTS
    Labels,          \* version labels: with the project they identify a release
    NoLabel,         \* of a transaction that is about no release
    Sessions,        \* database sessions of requests and workers
    DeliveredBy,     \* DeliveredBy[b]: the selected deliverables of build b
    Steps,           \* bound: events of a build before the one that ends it
    MaxFaults        \* bound: lost transactions and damaged objects

ASSUME ReleaseAssumption ==
    /\ NoLabel \notin Labels
    /\ DOMAIN DeliveredBy = Builds /\ {} \notin {DeliveredBy[b] : b \in Builds}
    /\ Steps \in Nat /\ MaxFaults \in Nat

VARIABLES
    todo,            \* todo[b]: events build b has still to write
    release,         \* release[l]: the committed row, for the labels there are
    activeRelease,   \* projects.active_release_id
    work,            \* work[a]: what the work store holds at the key of a
    store,           \* store[l, path]: what the release store holds for release l
    late,            \* uploads of lost transactions that are still under way
    session,         \* session[s]: its transaction
    faults           \* faults spent

rows == <<todo, release, activeRelease>>
objects == <<work, store, late>>
vars == <<events, rows, objects, session, faults>>

Proofs == {"manifest.json", "verification.json"}
Assets == UNION {DeliveredBy[b] : b \in Builds}
Objects == Labels \X (Assets \cup Proofs)
Contents == {"none", "right", "altered", "cut"}     \* altered has the right size

\* left: objects still to check or to copy; proofs too when the assets are done.
Transactions ==
    [op : {"execute", "create", "approve", "publish", "prove"}, build : Builds,
     label : Labels \cup {NoLabel}, left : SUBSET Assets, sequence : Nat]
Idle == [op |-> "idle"]
Rows == [build : Builds, status : {"READY_FOR_APPROVAL", "APPROVED", "PUBLISHED"}]
Begun(o, b, l, A) == [op |-> o, build |-> b, label |-> l, left |-> A, sequence |-> 0]

Succeeded(b) == todo[b] = 0
AssetsOf(l) == DeliveredBy[release[l].build]
Published == {l \in DOMAIN release : release[l].status = "PUBLISHED"}

TypeOK ==
    /\ LogTypeOK
    /\ todo \in [Builds -> 0..Steps + 1]
    /\ DOMAIN release \subseteq Labels
    /\ \A l \in DOMAIN release : release[l] \in Rows /\ Succeeded(release[l].build)
    /\ activeRelease \in Labels \cup {NoLabel}
    /\ work \in [Assets -> Contents] /\ store \in [Objects -> Contents] /\ late \subseteq Objects
    /\ session \in [Sessions -> Transactions \cup {Idle}]
    /\ faults \in 0..MaxFaults

Init ==
    /\ LogInit
    /\ todo = [b \in Builds |-> Steps + 1]
    /\ release = [l \in {} |-> Idle] /\ activeRelease = NoLabel
    /\ work = [a \in Assets |-> "right"]
    /\ store = [o \in Objects |-> "none"] /\ late = {}
    /\ session = [s \in Sessions |-> Idle]
    /\ faults = 0

-----------------------------------------------------------------------------
(* Transactions *)

\* What a transaction holds until it ends: the row of the build it executes, the
\* rows of release and project, the unique label of the candidate it has inserted.
Locks(t) ==
    CASE t.op = "execute" -> {t.build}
      [] t.op = "create" -> {t.label}
      [] t.op \in {"approve", "publish", "prove"} -> {"project"}
      [] OTHER -> {}

\* Variant of Waits: nobody locks anything.
WaitsForNobody(s, t) == FALSE

Waits(s, t) == \E r \in Sessions \ {s} : Locks(session[r]) \cap Locks(t) # {}

Begin(s, t) ==
    /\ session[s] = Idle /\ ~Waits(s, t)
    /\ session' = [session EXCEPT ![s] = t]
    /\ UNCHANGED <<events, rows, objects, faults>>

\* A refusal or an error: the rows are as before, what was uploaded stays.
RolledBack(s) ==
    /\ session' = [session EXCEPT ![s] = Idle]
    /\ UNCHANGED <<events, rows, objects, faults>>

\* The transaction is complete but for its event and its commit.
Ready(s) ==
    CASE session[s].op \in {"execute", "approve", "prove"} -> TRUE
      [] session[s].op = "create" -> session[s].left = {}
      [] OTHER -> FALSE

Flush(s) ==
    /\ Ready(s) /\ session[s].sequence = 0
    /\ Numbered
    /\ session' = [session EXCEPT ![s].sequence = sequence + 1]
    /\ UNCHANGED <<log, streams, rows, objects, faults>>

KindOf(op) ==
    CASE op = "execute" -> "execution" [] op = "create" -> "candidate"
      [] op = "approve" -> "approved" [] op = "prove" -> "published"

Commit(s) ==
    LET t == session[s]
    IN  /\ t # Idle /\ t.sequence # 0
        /\ Recorded([sequence |-> t.sequence, build |-> t.build, kind |-> KindOf(t.op),
                     label |-> t.label])
        /\ todo' = [todo EXCEPT ![t.build] = IF t.op = "execute" THEN @ - 1 ELSE @]
        /\ release' =
             CASE t.op = "create" ->
                    [l \in DOMAIN release \cup {t.label} |->
                       IF l = t.label THEN [build |-> t.build, status |-> "READY_FOR_APPROVAL"]
                       ELSE release[l]]
               [] t.op = "approve" -> [release EXCEPT ![t.label].status = "APPROVED"]
               [] t.op = "prove" -> [release EXCEPT ![t.label].status = "PUBLISHED"]
               [] OTHER -> release
        /\ activeRelease' = IF t.op = "prove" THEN t.label ELSE activeRelease
        /\ session' = [session EXCEPT ![s] = Idle]
        /\ UNCHANGED <<sequence, streams, objects, faults>>

-----------------------------------------------------------------------------
(* The operations *)

\* A worker writes an event of the build it executes.
Execute(s, b) == ~Succeeded(b) /\ Begin(s, Begun("execute", b, NoLabel, {}))

\* create_candidate: a label that exists is answered with its release.
Create(s, b, l) ==
    /\ Succeeded(b) /\ l \notin DOMAIN release
    /\ Begin(s, Begun("create", b, l, DeliveredBy[b]))

\* One asset after the other is read from the work store and hashed.
Check(s) ==
    /\ session[s].op = "create"
    /\ \E a \in session[s].left :
         IF work[a] = "right"
         THEN /\ session' = [session EXCEPT ![s].left = @ \ {a}]
              /\ UNCHANGED <<events, rows, objects, faults>>
         ELSE RolledBack(s)

Approve(s, l) ==
    /\ l \in DOMAIN release /\ release[l].status = "READY_FOR_APPROVAL"
    /\ Begin(s, Begun("approve", release[l].build, l, {}))

\* A published release is answered as it is, a candidate is refused.
Publish(s, l) ==
    /\ l \in DOMAIN release /\ release[l].status = "APPROVED"
    /\ Begin(s, Begun("publish", release[l].build, l, AssetsOf(l)))

\* store_bytes: an object of the right size is taken for the one to store.
SameSize == {"right", "altered"}
Stored(content, raw) == IF {content, raw} \subseteq SameSize THEN content ELSE raw

\* Variant of Fetched: what the work store returns is published.
FetchedUnchecked(a) == work[a] # "none"

Fetched(a) == work[a] = "right"

\* Variant of ReadBack: an object that was uploaded is there.
ReadBackNever(content, raw) == TRUE

\* The bytes are read again and hashed again.
ReadBack(content, raw) == content = raw

\* One asset of a publication: fetched, hashed, uploaded, read back.
Copy(s) ==
    /\ session[s].op = "publish"
    /\ \E a \in session[s].left :
         LET o == <<session[s].label, a>>
             put == Stored(store[o], work[a])
         IN  \/ ~Fetched(a) /\ RolledBack(s)
             \/ /\ Fetched(a)
                /\ store' = [store EXCEPT ![o] = put]
                /\ \/ ReadBack(put, work[a]) /\ session' = [session EXCEPT ![s].left = @ \ {a}]
                   \/ ~ReadBack(put, work[a]) /\ session' = [session EXCEPT ![s] = Idle]
                /\ UNCHANGED <<events, rows, work, late, faults>>

\* The manifest and the verification, once every asset is copied.
Prove(s) ==
    /\ session[s].op = "publish" /\ session[s].left = {}
    /\ LET put(o) == IF o \in {session[s].label} \X Proofs THEN Stored(store[o], "right") ELSE store[o]
       IN  /\ store' = [o \in Objects |-> put(o)]
           /\ session' = [session EXCEPT ![s] =
                IF \A p \in Proofs : ReadBack(put(<<session[s].label, p>>), "right")
                THEN [@ EXCEPT !.op = "prove"] ELSE Idle]
    /\ UNCHANGED <<events, rows, work, late, faults>>

-----------------------------------------------------------------------------
(* Faults *)

\* A request is cancelled or its process dies; a thread may be amid an upload.
Lose(s) ==
    LET t == session[s]
        underway ==
          CASE t.op = "publish" /\ t.left # {} -> {<<t.label, a>> : a \in {a \in t.left : work[a] = "right"}}
            [] t.op = "publish" -> {t.label} \X Proofs
            [] OTHER -> {}
    IN  /\ t # Idle /\ faults < MaxFaults
        /\ \E U \in {{}} \cup {{o} : o \in underway} : late' = late \cup U
        /\ session' = [session EXCEPT ![s] = Idle]
        /\ faults' = faults + 1
        /\ UNCHANGED <<events, rows, work, store>>

Land(o) ==
    /\ o \in late
    /\ late' = late \ {o}
    /\ store' = [store EXCEPT ![o] = "right"]
    /\ UNCHANGED <<events, rows, work, session, faults>>

\* An object is overwritten, cut or deleted behind the program's back; in the release
\* store not where a publication is at work or has been.
Damage ==
    /\ faults < MaxFaults /\ faults' = faults + 1
    /\ \E bad \in Contents \ {"right"} :
         \/ /\ \E a \in Assets : work' = [work EXCEPT ![a] = bad]
            /\ UNCHANGED store
         \/ /\ \E o \in Objects :
                 /\ store[o] # "none" /\ o[1] \notin Published
                 /\ \A s \in Sessions : session[s].op \in {"publish", "prove"} => session[s].label # o[1]
                 /\ store' = [store EXCEPT ![o] = bad]
            /\ UNCHANGED work
    /\ UNCHANGED <<events, rows, late, session>>

Next ==
    \/ \E s \in Sessions :
         \/ \E b \in Builds : Execute(s, b)
         \/ \E b \in Builds, l \in Labels : Create(s, b, l)
         \/ \E l \in Labels : Approve(s, l) \/ Publish(s, l)
         \/ Check(s) \/ Copy(s) \/ Prove(s) \/ Flush(s) \/ Commit(s) \/ Lose(s)
    \/ \E o \in Objects : Land(o)
    \/ Damage
    \/ \E b \in Builds : Follow(b) /\ UNCHANGED <<rows, objects, session, faults>>

Spec == Init /\ [][Next]_vars

-----------------------------------------------------------------------------
(* Properties *)

\* verify of releases.py: the manifest and the assets are read again and hashed again.
Verified(l) == \A p \in AssetsOf(l) \cup {"manifest.json"} : store[<<l, p>>] = "right"

\* Whatever was damaged, lost or left behind on the way, a published release stands in
\* the release store with the bytes its build selected, its manifest and its proof.
PublishedIsWhole ==
    \A l \in Published : Verified(l) /\ store[<<l, "verification.json">>] = "right"

\* The log tells the status of every release once: no race of two requests writes a
\* second row, approval or publication, and the active release is the one that was
\* published last.
EventsOf(l, kind) == {e \in log : e.label = l /\ e.kind = kind}
Told(l) == {k \in Kinds : EventsOf(l, k) # {}}

LogTellsStatus ==
    /\ \A l \in Labels, k \in Kinds : Cardinality(EventsOf(l, k)) <= 1
    /\ \A l \in Labels :
         Told(l) = IF l \notin DOMAIN release THEN {}
                   ELSE CASE release[l].status = "READY_FOR_APPROVAL" -> {"candidate"}
                          [] release[l].status = "APPROVED" -> {"candidate", "approved"}
                          [] OTHER -> {"candidate", "approved", "published"}
    /\ \A l \in Labels :
         activeRelease = l <=>
           \E e \in EventsOf(l, "published") :
             \A d \in log : d.kind = "published" => d.sequence <= e.sequence

\* "A client that reconnects with Last-Event-ID resumes exactly where it stopped rather
\* than replaying or skipping" (stream_build_events): true of what a build's execution
\* writes, with the row of the build locked.  The rows of releases are numbered without it.
ExecutionIsNotMissed == \A b \in Builds : \A e \in Missed(b) : e.kind # "execution"

\* The same of every row.
NothingIsMissed == \A b \in Builds : Missed(b) = {}

=============================================================================
