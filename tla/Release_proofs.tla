--------------------------- MODULE Release_proofs ---------------------------
(***************************************************************************)
(* Theorems about Release, for every set of builds, labels and sessions,   *)
(* every set of deliverables, and any number of faults.                    *)
(***************************************************************************)
EXTENDS Release, FiniteSetTheorems, TLAPS

\* No two transactions hold one lock.
Exclusive == \A r, s \in Sessions : r # s => Locks(session[r]) \cap Locks(session[s]) = {}

\* What a transaction has read is still so when it commits.
Knows(t) ==
    /\ t.op = "execute" => todo[t.build] > 0 /\ t.label = NoLabel
    /\ t.op = "create" => t.label \in Labels \ DOMAIN release /\ Succeeded(t.build)
    /\ t.op = "approve" =>
         t.label \in DOMAIN release /\ release[t.label].status = "READY_FOR_APPROVAL"
    /\ t.op \in {"publish", "prove"} =>
         t.label \in DOMAIN release /\ release[t.label].status = "APPROVED"
    /\ t.op \in {"approve", "publish", "prove"} => release[t.label].build = t.build
    /\ t.op = "publish" => t.sequence = 0

Held == \A s \in Sessions : Knows(session[s])

\* What a publication has copied so far, and what was published, is there.
Whole(l, P) == \A p \in P : store[<<l, p>>] = "right"

Progress(t) ==
    /\ t.op = "publish" => Whole(t.label, AssetsOf(t.label) \ t.left)
    /\ t.op = "prove" => Whole(t.label, AssetsOf(t.label) \cup Proofs)

Copied ==
    /\ \A s \in Sessions : Progress(session[s])
    /\ \A l \in Published : Whole(l, AssetsOf(l) \cup Proofs)

\* Places in the log that are taken but not visible yet.
Taken(s) == session[s] # Idle /\ session[s].sequence # 0

Placed(t) ==
    /\ t.sequence \in 1..sequence
    /\ \A e \in log : e.sequence # t.sequence
    /\ t.op = "execute" => \A e \in OfBuild(t.build) : e.sequence < t.sequence
    /\ t.op = "prove" => \A e \in log : e.kind = "published" => e.sequence < t.sequence

Numbering ==
    /\ \A s \in Sessions : Taken(s) => Placed(session[s])
    /\ \A r, s \in Sessions :
         r # s /\ Taken(r) /\ Taken(s) => session[r].sequence # session[s].sequence

\* The log and the rows of the releases.
IsTold(l, kind) == \E e \in log : e.label = l /\ e.kind = kind

Telling ==
    /\ \A l \in Labels :
         /\ ~IsTold(l, "execution")
         /\ IsTold(l, "candidate") <=> l \in DOMAIN release
         /\ IsTold(l, "approved") <=>
              l \in DOMAIN release /\ release[l].status \in {"APPROVED", "PUBLISHED"}
         /\ IsTold(l, "published") <=> l \in DOMAIN release /\ release[l].status = "PUBLISHED"
    /\ \A d, e \in log : d.label \in Labels /\ d.label = e.label /\ d.kind = e.kind => d = e
    /\ \A e \in log : e.kind = "published" => e.label \in Labels

Leading ==
    \/ activeRelease = NoLabel /\ \A e \in log : e.kind # "published"
    \/ \E e \in log : /\ e.kind = "published" /\ e.label = activeRelease
                      /\ \A d \in log : d.kind = "published" => d.sequence <= e.sequence

\* A stream stands on a row it was sent.
Followed ==
    /\ \A b \in Builds : position[b] = 0 \/ \E e \in OfBuild(b) : e.sequence = position[b]
    /\ ExecutionIsNotMissed

IInv == TypeOK /\ Exclusive /\ Held /\ Copied /\ Numbering /\ Telling /\ Leading /\ Followed

-----------------------------------------------------------------------------
(* Sessions *)

\* What a session is.
LEMMA SessionIs ==
    ASSUME TypeOK, NEW s \in Sessions, session[s] # Idle
    PROVE  /\ session[s] \in Transactions
           /\ session[s].op \in {"execute", "create", "approve", "publish", "prove"}
           /\ session[s].build \in Builds
           /\ session[s].label \in Labels \cup {NoLabel}
           /\ session[s].left \subseteq Assets
           /\ session[s].sequence \in Nat
  BY DEF TypeOK, Transactions

\* A session whose operation is named has begun.
LEMMA Awake ==
    ASSUME NEW s \in Sessions, NEW o, session[s].op = o, o # "idle"
    PROVE  session[s] # Idle
  BY DEF Idle

\* A transaction that begins.
LEMMA Beginning ==
    ASSUME NEW o \in {"execute", "create", "approve", "publish"}, NEW b \in Builds,
           NEW l \in Labels \cup {NoLabel}, NEW A \in SUBSET Assets
    PROVE  Begun(o, b, l, A) \in Transactions
  BY DEF Begun, Transactions

\* Deliverables are assets.
LEMMA Deliverables == ASSUME NEW b \in Builds PROVE DeliveredBy[b] \subseteq Assets
  BY DEF Assets

\* The five ways to begin, and what is known then.
LEMMA Begins ==
    ASSUME TypeOK, NEW s \in Sessions,
           \/ \E b \in Builds : Execute(s, b)
           \/ \E b \in Builds, l \in Labels : Create(s, b, l)
           \/ \E l \in Labels : Approve(s, l) \/ Publish(s, l)
    PROVE  \E t \in Transactions :
             /\ Begin(s, t)
             /\ Knows(t)
             /\ t.sequence = 0 /\ t.op # "prove"
             /\ t.op = "publish" => t.left = AssetsOf(t.label)
  <1>1. ASSUME NEW b \in Builds, Execute(s, b)
        PROVE  \E t \in Transactions : /\ Begin(s, t) /\ Knows(t)
                                       /\ t.sequence = 0 /\ t.op # "prove"
                                       /\ t.op = "publish" => t.left = AssetsOf(t.label)
    <2> DEFINE t == Begun("execute", b, NoLabel, {})
    <2>1. t \in Transactions
      BY Beginning
    <2>2. Knows(t) /\ t.sequence = 0 /\ t.op = "execute"
      BY <1>1 DEF Knows, Begun, Execute, Succeeded, TypeOK
    <2> QED
      BY <1>1, <2>1, <2>2 DEF Execute
  <1>2. ASSUME NEW b \in Builds, NEW l \in Labels, Create(s, b, l)
        PROVE  \E t \in Transactions : /\ Begin(s, t) /\ Knows(t)
                                       /\ t.sequence = 0 /\ t.op # "prove"
                                       /\ t.op = "publish" => t.left = AssetsOf(t.label)
    <2> DEFINE t == Begun("create", b, l, DeliveredBy[b])
    <2>1. t \in Transactions
      BY Beginning, Deliverables
    <2>2. Knows(t) /\ t.sequence = 0 /\ t.op = "create"
      BY <1>2 DEF Knows, Begun, Create
    <2> QED
      BY <1>2, <2>1, <2>2 DEF Create
  <1>3. ASSUME NEW l \in Labels, Approve(s, l)
        PROVE  \E t \in Transactions : /\ Begin(s, t) /\ Knows(t)
                                       /\ t.sequence = 0 /\ t.op # "prove"
                                       /\ t.op = "publish" => t.left = AssetsOf(t.label)
    <2> DEFINE t == Begun("approve", release[l].build, l, {})
    <2>1. t \in Transactions
      BY <1>3, Beginning DEF Approve, TypeOK, Rows
    <2>2. Knows(t) /\ t.sequence = 0 /\ t.op = "approve"
      BY <1>3 DEF Knows, Begun, Approve
    <2> QED
      BY <1>3, <2>1, <2>2 DEF Approve
  <1>4. ASSUME NEW l \in Labels, Publish(s, l)
        PROVE  \E t \in Transactions : /\ Begin(s, t) /\ Knows(t)
                                       /\ t.sequence = 0 /\ t.op # "prove"
                                       /\ t.op = "publish" => t.left = AssetsOf(t.label)
    <2> DEFINE t == Begun("publish", release[l].build, l, AssetsOf(l))
    <2>1. t \in Transactions
      BY <1>4, Beginning, Deliverables DEF Publish, TypeOK, Rows, AssetsOf
    <2>2. Knows(t) /\ t.sequence = 0 /\ t.op = "publish" /\ t.label = l /\ t.left = AssetsOf(l)
      BY <1>4 DEF Knows, Begun, Publish
    <2> QED
      BY <1>4, <2>1, <2>2 DEF Publish
  <1> QED
    BY <1>1, <1>2, <1>3, <1>4

-----------------------------------------------------------------------------
(* Types *)

\* A step that changes sessions and objects only.
LEMMA TypesKept ==
    ASSUME TypeOK, UNCHANGED <<events, rows>>,
           session' \in [Sessions -> Transactions \cup {Idle}],
           work' \in [Assets -> Contents], store' \in [Objects -> Contents],
           late' \subseteq Objects, faults' \in 0..MaxFaults
    PROVE  TypeOK'
  BY DEF TypeOK, LogTypeOK, IsEvent, OfBuild, Succeeded, events, rows

\* A session that is given up.
LEMMA TypesOfIdle ==
    ASSUME TypeOK, NEW s \in Sessions
    PROVE  [session EXCEPT ![s] = Idle] \in [Sessions -> Transactions \cup {Idle}]
  BY DEF TypeOK

\* A refusal keeps the types.
LEMMA TypesOfRollBack ==
    ASSUME TypeOK, NEW s \in Sessions, RolledBack(s)
    PROVE  TypeOK'
  <1>1. session' \in [Sessions -> Transactions \cup {Idle}]
    BY TypesOfIdle DEF RolledBack
  <1> QED
    BY <1>1, TypesKept DEF RolledBack, objects, TypeOK

\* A transaction with fewer objects left is a transaction.
LEMMA FewerLeft ==
    ASSUME NEW t \in Transactions, NEW a
    PROVE  [t EXCEPT !.left = @ \ {a}] \in Transactions
  BY DEF Transactions

\* An asset checked or refused keeps the types.
LEMMA TypesOfCheck ==
    ASSUME TypeOK, NEW s \in Sessions, Check(s)
    PROVE  TypeOK'
  <1>1. session[s] \in Transactions
    BY SessionIs, Awake DEF Check
  <1>2. PICK a \in session[s].left :
          \/ /\ session' = [session EXCEPT ![s].left = @ \ {a}]
             /\ UNCHANGED <<events, rows, objects, faults>>
          \/ RolledBack(s)
    BY DEF Check
  <1>3. CASE RolledBack(s)
    BY <1>3, TypesOfRollBack
  <1>4. CASE /\ session' = [session EXCEPT ![s].left = @ \ {a}]
             /\ UNCHANGED <<events, rows, objects, faults>>
    <2>1. session' = [session EXCEPT ![s] = [session[s] EXCEPT !.left = @ \ {a}]]
      BY <1>4
    <2>2. session' \in [Sessions -> Transactions \cup {Idle}]
      BY <1>1, <2>1, FewerLeft DEF TypeOK
    <2> QED
      BY <1>4, <2>2, TypesKept DEF objects, TypeOK
  <1> QED
    BY <1>2, <1>3, <1>4

\* A place taken in the log keeps the types.
LEMMA TypesOfFlush ==
    ASSUME TypeOK, NEW s \in Sessions, Flush(s)
    PROVE  TypeOK'
  <1>1. session[s] # Idle
    BY Awake DEF Flush, Ready
  <1>2. session[s] \in Transactions /\ sequence \in Nat
    BY <1>1, SessionIs DEF TypeOK, LogTypeOK
  <1>3. [session[s] EXCEPT !.sequence = sequence + 1] \in Transactions
    BY <1>2 DEF Transactions
  <1>4. session' = [session EXCEPT ![s] = [session[s] EXCEPT !.sequence = sequence + 1]]
    BY DEF Flush
  <1>5. session' \in [Sessions -> Transactions \cup {Idle}]
    BY <1>3, <1>4 DEF TypeOK
  <1>6. LogTypeOK'
    BY DEF Flush, Numbered, TypeOK, LogTypeOK, IsEvent, OfBuild, streams
  <1> QED
    BY <1>5, <1>6 DEF Flush, TypeOK, Succeeded, rows, objects

\* What a transaction that commits has done.
LEMMA Committing ==
    ASSUME TypeOK, Held, NEW s \in Sessions, Commit(s)
    PROVE  /\ session[s] \in Transactions /\ Knows(session[s]) /\ Taken(s)
           /\ session[s].op \in {"execute", "create", "approve", "prove"}
           /\ session[s].build \in Builds
           /\ session[s].op # "execute" => session[s].label \in Labels /\ Succeeded(session[s].build)
  <1>1. /\ session[s] # Idle /\ session[s].sequence # 0
        /\ Knows(session[s])
    BY DEF Commit, Held
  <1>2. /\ session[s] \in Transactions
        /\ session[s].op \in {"execute", "create", "approve", "publish", "prove"}
        /\ session[s].build \in Builds
    BY <1>1, SessionIs
  <1>3. session[s].op # "publish"
    BY <1>1 DEF Knows
  <1>4. session[s].op # "execute" => session[s].label \in Labels /\ Succeeded(session[s].build)
    BY <1>1, <1>2, <1>3 DEF Knows, TypeOK
  <1> QED
    BY <1>1, <1>2, <1>3, <1>4 DEF Taken

\* A commit keeps the types: its row is new, its build is one that may be released.
LEMMA TypesOfCommit ==
    ASSUME TypeOK, Held, Numbering, NEW s \in Sessions, Commit(s)
    PROVE  TypeOK'
  <1> DEFINE t == session[s]
             row == [sequence |-> t.sequence, build |-> t.build, kind |-> KindOf(t.op),
                     label |-> t.label]
  <1>1. /\ t \in Transactions /\ Knows(t) /\ Taken(s) /\ t.build \in Builds
        /\ t.op \in {"execute", "create", "approve", "prove"}
        /\ t.op # "execute" => t.label \in Labels /\ Succeeded(t.build)
    BY Committing
  <1>2. /\ log' = log \cup {row} /\ sequence' = sequence /\ UNCHANGED <<position, seen>>
        /\ UNCHANGED <<objects, faults>>
    BY DEF Commit, Recorded, streams
  <1>3. LogTypeOK'
    <2>1. row.sequence \in 1..sequence /\ \A e \in log : e.sequence # row.sequence
      BY <1>1 DEF Numbering, Placed
    <2>2. row.kind \in Kinds /\ row.build \in Builds
      BY <1>1 DEF KindOf, Kinds
    <2>3. \A e \in log' : IsEvent(e)'
      BY <1>2, <2>1, <2>2 DEF TypeOK, LogTypeOK, IsEvent
    <2>4. \A d, e \in log' : d.sequence = e.sequence => d = e
      BY <1>2, <2>1 DEF TypeOK, LogTypeOK
    <2>5. /\ position' \in [Builds -> 0..sequence']
          /\ DOMAIN seen' = Builds /\ \A b \in Builds : seen'[b] \subseteq OfBuild(b)'
      BY <1>2 DEF TypeOK, LogTypeOK, OfBuild
    <2> QED
      BY <1>2, <2>3, <2>4, <2>5 DEF TypeOK, LogTypeOK
  <1>4. /\ todo' \in [Builds -> 0..Steps + 1]
        /\ \A b \in Builds : Succeeded(b) => Succeeded(b)'
    <2>1. todo' = [todo EXCEPT ![t.build] = IF t.op = "execute" THEN @ - 1 ELSE @]
      BY DEF Commit
    <2>2. t.op = "execute" => todo[t.build] > 0
      BY <1>1 DEF Knows
    <2>3. todo \in [Builds -> 0..Steps + 1] /\ Steps \in Nat
      BY ReleaseAssumption DEF TypeOK
    <2> QED
      BY <1>1, <2>1, <2>2, <2>3 DEF Succeeded
  <1>5. /\ DOMAIN release' \subseteq Labels
        /\ \A l \in DOMAIN release' : release'[l] \in Rows /\ Succeeded(release[l].build)'
    <2>1. CASE t.op = "create"
      <3>1. release' = [l \in DOMAIN release \cup {t.label} |->
                          IF l = t.label THEN [build |-> t.build, status |-> "READY_FOR_APPROVAL"]
                          ELSE release[l]]
        BY <2>1 DEF Commit
      <3> QED
        BY <1>1, <1>4, <2>1, <3>1 DEF TypeOK, Rows
    <2>2. ASSUME NEW status \in {"APPROVED", "PUBLISHED"},
                 t.label \in DOMAIN release, release' = [release EXCEPT ![t.label].status = status]
          PROVE  /\ DOMAIN release' \subseteq Labels
                 /\ \A l \in DOMAIN release' : release'[l] \in Rows /\ Succeeded(release[l].build)'
      <3>1. release[t.label] \in Rows
        BY <2>2 DEF TypeOK
      <3>2. [release[t.label] EXCEPT !.status = status] \in Rows
        BY <3>1 DEF Rows
      <3>3. [release[t.label] EXCEPT !.status = status].build = release[t.label].build
        BY <3>1 DEF Rows
      <3>4. DOMAIN release' = DOMAIN release
        BY <2>2
      <3>5. \A l \in DOMAIN release :
              release'[l] = IF l = t.label THEN [release[t.label] EXCEPT !.status = status]
                            ELSE release[l]
        BY <2>2
      <3> QED
        BY <1>4, <3>2, <3>3, <3>4, <3>5 DEF TypeOK, Rows
    <2>3. CASE t.op = "approve"
      BY <1>1, <2>2, <2>3 DEF Commit, Knows
    <2>4. CASE t.op = "prove"
      BY <1>1, <2>2, <2>4 DEF Commit, Knows
    <2>5. CASE t.op = "execute"
      BY <1>4, <2>5 DEF Commit, TypeOK, Rows
    <2> QED
      BY <1>1, <2>1, <2>3, <2>4, <2>5
  <1>6. activeRelease' \in Labels \cup {NoLabel}
    BY <1>1 DEF Commit, TypeOK
  <1>7. session' \in [Sessions -> Transactions \cup {Idle}]
    BY TypesOfIdle DEF Commit
  <1> QED
    BY <1>2, <1>3, <1>4, <1>5, <1>6, <1>7 DEF TypeOK, objects

\* What is uploaded is the old object or the new one.
LEMMA StoredIs ==
    ASSUME NEW content \in Contents, NEW raw \in Contents
    PROVE  /\ Stored(content, raw) \in Contents
           /\ content = "right" => Stored(content, "right") = "right"
  BY DEF Stored, SameSize

\* What becomes of an asset that was read as it should be: uploaded, and either
\* read back or not.
Uploading(s, a) ==
    LET o == <<session[s].label, a>> put == Stored(store[o], "right") IN
    /\ o \in Objects
    /\ store' = [store EXCEPT ![o] = put]
    /\ \/ session' = [session EXCEPT ![s] = Idle]
       \/ /\ put = "right"
          /\ session' = [session EXCEPT ![s] = [session[s] EXCEPT !.left = @ \ {a}]]
    /\ UNCHANGED <<events, rows, work, late, faults>>

\* A step of a publication: refused, or an upload to a place of the release.
LEMMA Copying ==
    ASSUME TypeOK, Held, NEW s \in Sessions, Copy(s)
    PROVE  /\ session[s] \in Transactions /\ session[s].op = "publish"
           /\ session[s].label \in DOMAIN release /\ session[s].label \in Labels
           /\ RolledBack(s) \/ \E a \in session[s].left : Uploading(s, a)
  <1>1. /\ session[s] \in Transactions /\ session[s].op = "publish"
        /\ session[s].left \subseteq Assets
    BY SessionIs, Awake DEF Copy
  <1>2. session[s].label \in DOMAIN release /\ session[s].label \in Labels
    BY <1>1 DEF Held, Knows, TypeOK
  <1>3. PICK a \in session[s].left :
          LET o == <<session[s].label, a>>
              put == Stored(store[o], work[a])
          IN  \/ ~Fetched(a) /\ RolledBack(s)
              \/ /\ Fetched(a)
                 /\ store' = [store EXCEPT ![o] = put]
                 /\ \/ ReadBack(put, work[a]) /\ session' = [session EXCEPT ![s].left = @ \ {a}]
                    \/ ~ReadBack(put, work[a]) /\ session' = [session EXCEPT ![s] = Idle]
                 /\ UNCHANGED <<events, rows, work, late, faults>>
    BY DEF Copy
  <1>4. <<session[s].label, a>> \in Objects
    BY <1>1, <1>2 DEF Objects
  <1>5. CASE ~Fetched(a)
    BY <1>1, <1>2, <1>3, <1>5
  <1>6. CASE Fetched(a)
    <2> DEFINE o == <<session[s].label, a>>
               put == Stored(store[o], "right")
    <2>1. work[a] = "right"
      BY <1>6 DEF Fetched
    <2>2. /\ store' = [store EXCEPT ![o] = put]
          /\ UNCHANGED <<events, rows, work, late, faults>>
      BY <1>3, <1>6, <2>1
    <2>3. \/ session' = [session EXCEPT ![s] = Idle]
          \/ /\ put = "right"
             /\ session' = [session EXCEPT ![s] = [session[s] EXCEPT !.left = @ \ {a}]]
      BY <1>3, <1>6, <2>1 DEF ReadBack
    <2>4. Uploading(s, a)
      BY <1>4, <2>2, <2>3 DEF Uploading
    <2> QED
      BY <1>1, <1>2, <2>4
  <1> QED
    BY <1>5, <1>6

\* An upload keeps the types.
LEMMA TypesOfCopy ==
    ASSUME TypeOK, Held, NEW s \in Sessions, Copy(s)
    PROVE  TypeOK'
  <1>1. CASE RolledBack(s)
    BY <1>1, TypesOfRollBack
  <1>2. ASSUME NEW a, Uploading(s, a)
        PROVE  TypeOK'
    <2> DEFINE o == <<session[s].label, a>>
               put == Stored(store[o], "right")
    <2>1. put \in Contents
      BY <1>2, StoredIs DEF Uploading, TypeOK, Contents
    <2>2. store' \in [Objects -> Contents]
      BY <1>2, <2>1 DEF Uploading, TypeOK
    <2>3. [session[s] EXCEPT !.left = @ \ {a}] \in Transactions
      BY Copying, FewerLeft
    <2>4. session' \in [Sessions -> Transactions \cup {Idle}]
      BY <1>2, <2>3, TypesOfIdle DEF Uploading, TypeOK
    <2> QED
      BY <1>2, <2>2, <2>4, TypesKept DEF Uploading, TypeOK
  <1> QED
    BY <1>1, <1>2, Copying

\* The proofs of a publication whose assets are all copied.
LEMMA Proving ==
    ASSUME TypeOK, Held, NEW s \in Sessions, Prove(s)
    PROVE  /\ session[s] \in Transactions /\ session[s].op = "publish" /\ session[s].left = {}
           /\ session[s].label \in DOMAIN release /\ session[s].label \in Labels
           /\ session[s].sequence = 0
           /\ store' \in [Objects -> Contents]
           /\ \A o \in Objects : store[o] = "right" => store'[o] = "right"
           /\ \/ session' = [session EXCEPT ![s] = Idle]
              \/ /\ session' = [session EXCEPT ![s] = [session[s] EXCEPT !.op = "prove"]]
                 /\ \A p \in Proofs : store'[<<session[s].label, p>>] = "right"
           /\ UNCHANGED <<events, rows, work, late, faults>>
  <1> DEFINE t == session[s]
             put(o) == IF o \in {t.label} \X Proofs THEN Stored(store[o], "right") ELSE store[o]
  <1>1. t \in Transactions /\ t.op = "publish" /\ t.left = {}
    BY SessionIs, Awake DEF Prove
  <1>2. t.label \in DOMAIN release /\ t.label \in Labels /\ t.sequence = 0
    BY <1>1 DEF Held, Knows, TypeOK
  <1>3. /\ store' = [o \in Objects |-> put(o)]
        /\ session' = [session EXCEPT ![s] =
             IF \A p \in Proofs : ReadBack(put(<<t.label, p>>), "right")
             THEN [@ EXCEPT !.op = "prove"] ELSE Idle]
        /\ UNCHANGED <<events, rows, work, late, faults>>
    BY DEF Prove
  <1>4. \A o \in Objects : store[o] \in Contents /\ "right" \in Contents
    BY DEF TypeOK, Contents
  <1>5. \A o \in Objects : put(o) \in Contents /\ (store[o] = "right" => put(o) = "right")
    BY <1>4, StoredIs
  <1>6. \A p \in Proofs : <<t.label, p>> \in Objects
    BY <1>2 DEF Objects
  <1>7. \A p \in Proofs : store'[<<t.label, p>>] = put(<<t.label, p>>)
    BY <1>3, <1>6
  <1> QED
    BY <1>1, <1>2, <1>3, <1>5, <1>7 DEF ReadBack

\* The manifest and the verification keep the types.
LEMMA TypesOfProve ==
    ASSUME TypeOK, Held, NEW s \in Sessions, Prove(s)
    PROVE  TypeOK'
  <1>1. [session[s] EXCEPT !.op = "prove"] \in Transactions
    BY Proving DEF Transactions
  <1>2. session' \in [Sessions -> Transactions \cup {Idle}]
    BY <1>1, Proving, TypesOfIdle DEF TypeOK
  <1> QED
    BY <1>2, Proving, TypesKept DEF TypeOK

\* A lost transaction leaves at most uploads of its own release behind.
LEMMA TypesOfLose ==
    ASSUME TypeOK, Held, NEW s \in Sessions, Lose(s)
    PROVE  TypeOK'
  <1> DEFINE t == session[s]
             underway ==
               CASE t.op = "publish" /\ t.left # {} ->
                      {<<t.label, a>> : a \in {a \in t.left : work[a] = "right"}}
                 [] t.op = "publish" -> {t.label} \X Proofs
                 [] OTHER -> {}
  <1>1. /\ t # Idle /\ faults < MaxFaults /\ faults' = faults + 1
        /\ session' = [session EXCEPT ![s] = Idle]
        /\ UNCHANGED <<events, rows, work, store>>
    BY DEF Lose
  <1>2. PICK U \in {{}} \cup {{o} : o \in underway} : late' = late \cup U
    BY DEF Lose
  <1>3. underway \subseteq Objects
    <2>1. t.left \subseteq Assets
      BY <1>1, SessionIs
    <2>2. t.op = "publish" => t.label \in Labels
      BY DEF Held, Knows, TypeOK
    <2> QED
      BY <2>1, <2>2 DEF Objects
  <1>4. late' \subseteq Objects
    BY <1>2, <1>3 DEF TypeOK
  <1>5. faults' \in 0..MaxFaults
    BY <1>1, ReleaseAssumption DEF TypeOK
  <1> QED
    BY <1>1, <1>4, <1>5, TypesOfIdle, TypesKept DEF TypeOK

\* A late upload keeps the types.
LEMMA TypesOfLand ==
    ASSUME TypeOK, NEW o \in Objects, Land(o)
    PROVE  TypeOK'
  <1>1. store' \in [Objects -> Contents]
    BY DEF Land, TypeOK, Contents
  <1> QED
    BY <1>1, TypesKept DEF Land, TypeOK

\* Damage keeps the types.
LEMMA TypesOfDamage ==
    ASSUME TypeOK, Damage
    PROVE  TypeOK'
  <1>1. work' \in [Assets -> Contents] /\ store' \in [Objects -> Contents]
    BY DEF Damage, TypeOK
  <1>2. faults' \in 0..MaxFaults
    BY ReleaseAssumption DEF Damage, TypeOK
  <1> QED
    BY <1>1, <1>2, TypesKept DEF Damage, TypeOK

\* A round of a stream keeps the types.
LEMMA TypesOfFollow ==
    ASSUME TypeOK, NEW b \in Builds, Follow(b), UNCHANGED <<rows, objects, session, faults>>
    PROVE  TypeOK'
  <1>1. PICK last \in {e.sequence : e \in OfBuild(b)} :
          /\ last > position[b]
          /\ position' = [position EXCEPT ![b] = last]
          /\ seen' = [seen EXCEPT ![b] =
               @ \cup {e \in OfBuild(b) : e.sequence > position[b] /\ e.sequence <= last}]
    BY DEF Follow
  <1>2. last \in 0..sequence
    BY DEF TypeOK, LogTypeOK, IsEvent, OfBuild
  <1>3. position' \in [Builds -> 0..sequence]
    BY <1>1, <1>2 DEF TypeOK, LogTypeOK
  <1> QED
    BY <1>1, <1>3 DEF Follow, TypeOK, LogTypeOK, IsEvent, OfBuild, Succeeded, rows, objects

\* A beginning keeps the types.
LEMMA TypesOfBegin ==
    ASSUME TypeOK, NEW s \in Sessions, NEW t \in Transactions, Begin(s, t)
    PROVE  TypeOK'
  <1>1. session' \in [Sessions -> Transactions \cup {Idle}]
    BY DEF Begin, TypeOK
  <1> QED
    BY <1>1, TypesKept DEF Begin, objects, TypeOK

\* Every step keeps the types.
LEMMA TypesStep ==
    ASSUME TypeOK, Held, Numbering, [Next]_vars
    PROVE  TypeOK'
  <1>1. ASSUME NEW s \in Sessions,
               \/ \E b \in Builds : Execute(s, b)
               \/ \E b \in Builds, l \in Labels : Create(s, b, l)
               \/ \E l \in Labels : Approve(s, l) \/ Publish(s, l)
        PROVE  TypeOK'
    BY <1>1, Begins, TypesOfBegin
  <1>2. ASSUME NEW s \in Sessions,
               Check(s) \/ Copy(s) \/ Prove(s) \/ Flush(s) \/ Commit(s) \/ Lose(s)
        PROVE  TypeOK'
    BY <1>2, TypesOfCheck, TypesOfCopy, TypesOfProve, TypesOfFlush, TypesOfCommit, TypesOfLose
  <1>3. CASE UNCHANGED vars
    BY <1>3, TypesKept DEF vars, objects, TypeOK
  <1> QED
    BY <1>1, <1>2, <1>3, TypesOfLand, TypesOfDamage, TypesOfFollow DEF Next

-----------------------------------------------------------------------------
(* Locks *)

\* A transaction that ends, or goes on, takes no lock.
LEMMA LocksKept ==
    ASSUME TypeOK, Exclusive, NEW s \in Sessions, NEW u, Locks(u) \subseteq Locks(session[s]),
           session' = [session EXCEPT ![s] = u]
    PROVE  Exclusive'
  <1>1. \A r \in Sessions : Locks(session'[r]) \subseteq Locks(session[r])
    BY DEF TypeOK
  <1> QED
    BY <1>1 DEF Exclusive

\* An idle session locks nothing.
LEMMA NoLocks == Locks(Idle) = {}
  BY DEF Locks, Idle

\* A transaction that ends takes no lock.
LEMMA LocksEnd ==
    ASSUME TypeOK, Exclusive, NEW s \in Sessions, session' = [session EXCEPT ![s] = Idle]
    PROVE  Exclusive'
  BY NoLocks, LocksKept

\* What a transaction that has not ended keeps of itself.
SameWork(t, u) == u.op = t.op /\ u.build = t.build /\ u.label = t.label

\* The locks of a transaction depend on its work only.
LEMMA SameLocks ==
    ASSUME NEW t, NEW u, SameWork(t, u)
    PROVE  Locks(u) = Locks(t)
  BY DEF Locks, SameWork

\* What a transaction is after one of its fields was changed.
LEMMA WithFields ==
    ASSUME NEW t \in Transactions, NEW A, NEW q
    PROVE  /\ SameWork(t, [t EXCEPT !.left = A])
           /\ [t EXCEPT !.left = A].left = A
           /\ [t EXCEPT !.left = A].sequence = t.sequence
           /\ SameWork(t, [t EXCEPT !.sequence = q])
           /\ [t EXCEPT !.sequence = q].left = t.left
           /\ [t EXCEPT !.sequence = q].sequence = q
           /\ [t EXCEPT !.op = "prove"].op = "prove"
           /\ [t EXCEPT !.op = "prove"].build = t.build
           /\ [t EXCEPT !.op = "prove"].label = t.label
           /\ [t EXCEPT !.op = "prove"].sequence = t.sequence
  BY DEF Transactions, SameWork

\* Every step of a session but a beginning: what becomes of its transaction.
LEMMA Going ==
    ASSUME TypeOK, Held, NEW s \in Sessions,
           Check(s) \/ Copy(s) \/ Prove(s) \/ Flush(s) \/ Commit(s) \/ Lose(s)
    PROVE  \/ session' = [session EXCEPT ![s] = Idle]
           \/ /\ session[s] \in Transactions
              /\ \E u :
                   /\ session' = [session EXCEPT ![s] = u]
                   /\ u # Idle
                   /\ u.build = session[s].build /\ u.label = session[s].label
                   /\ \/ u.op = session[s].op
                      \/ /\ u.op = "prove" /\ session[s].op = "publish"
                         /\ session[s].sequence = 0
                   /\ \/ u.sequence = session[s].sequence
                      \/ /\ Flush(s) /\ u.sequence = sequence + 1
                         /\ u.op = session[s].op /\ u.op # "publish"
  <1>1. CASE Check(s)
    <2>1. session[s] \in Transactions /\ session[s].op = "create"
      BY <1>1, SessionIs, Awake DEF Check
    <2>2. CASE RolledBack(s)
      BY <2>2 DEF RolledBack
    <2>3. ASSUME NEW a, session' = [session EXCEPT ![s].left = @ \ {a}]
          PROVE  \E u : /\ session' = [session EXCEPT ![s] = u] /\ u # Idle
                        /\ SameWork(session[s], u) /\ u.sequence = session[s].sequence
      <3> DEFINE u == [session[s] EXCEPT !.left = @ \ {a}]
      <3>1. /\ SameWork(session[s], u) /\ u.sequence = session[s].sequence
            /\ session' = [session EXCEPT ![s] = u]
        BY <2>1, <2>3, WithFields
      <3>2. u.op # "idle" /\ Idle.op = "idle"
        BY <2>1, <3>1 DEF SameWork, Idle
      <3> QED
        BY <3>1, <3>2
    <2>4. RolledBack(s) \/ \E a : session' = [session EXCEPT ![s].left = @ \ {a}]
      BY <1>1 DEF Check
    <2> QED
      BY <2>1, <2>2, <2>3, <2>4 DEF SameWork
  <1>2. CASE Copy(s)
    <2>1. session[s] \in Transactions /\ session[s].op = "publish"
      BY <1>2, Copying
    <2>2. \/ session' = [session EXCEPT ![s] = Idle]
          \/ \E a : session' = [session EXCEPT ![s] = [session[s] EXCEPT !.left = @ \ {a}]]
      BY <1>2, Copying DEF RolledBack, Uploading
    <2>3. ASSUME NEW a, session' = [session EXCEPT ![s] = [session[s] EXCEPT !.left = @ \ {a}]]
          PROVE  \E u : /\ session' = [session EXCEPT ![s] = u] /\ u # Idle
                        /\ SameWork(session[s], u) /\ u.sequence = session[s].sequence
      <3> DEFINE u == [session[s] EXCEPT !.left = @ \ {a}]
      <3>1. SameWork(session[s], u) /\ u.sequence = session[s].sequence
        BY <2>1, WithFields
      <3>2. u.op # "idle" /\ Idle.op = "idle"
        BY <2>1, <3>1 DEF SameWork, Idle
      <3> QED
        BY <2>3, <3>1, <3>2
    <2> QED
      BY <2>1, <2>2, <2>3 DEF SameWork
  <1>3. CASE Prove(s)
    <2> DEFINE u == [session[s] EXCEPT !.op = "prove"]
    <2>1. session[s] \in Transactions /\ session[s].op = "publish" /\ session[s].sequence = 0
      BY <1>3, Proving
    <2>2. /\ u.op = "prove" /\ u.build = session[s].build /\ u.label = session[s].label
          /\ u.sequence = session[s].sequence
      BY <2>1, WithFields
    <2>3. u # Idle
      BY <2>2 DEF Idle
    <2> HIDE DEF u
    <2> QED
      BY <1>3, <2>1, <2>2, <2>3, Proving DEF u
  <1>4. CASE Flush(s)
    <2> DEFINE u == [session[s] EXCEPT !.sequence = sequence + 1]
    <2>1. session[s] \in Transactions /\ session[s].op # "publish" /\ session[s].op # "idle"
      BY <1>4, SessionIs, Awake DEF Flush, Ready
    <2>2. SameWork(session[s], u) /\ u.sequence = sequence + 1
      BY <2>1, WithFields
    <2>3. session' = [session EXCEPT ![s] = u]
      BY <1>4 DEF Flush
    <2>4. u # Idle
      BY <2>1, <2>2 DEF Idle, SameWork
    <2> HIDE DEF u
    <2> QED
      BY <1>4, <2>1, <2>2, <2>3, <2>4 DEF SameWork
  <1>5. CASE Commit(s)
    BY <1>5 DEF Commit
  <1>6. CASE Lose(s)
    BY <1>6 DEF Lose
  <1> QED
    BY <1>1, <1>2, <1>3, <1>4, <1>5, <1>6

\* The lock of each operation.
LEMMA LocksOf ==
    ASSUME NEW t
    PROVE  /\ t.op = "execute" => Locks(t) = {t.build}
           /\ t.op = "create" => Locks(t) = {t.label}
           /\ t.op \in {"approve", "publish", "prove"} => Locks(t) = {"project"}
  BY DEF Locks

\* Every step keeps the locks apart.
LEMMA LocksStep ==
    ASSUME TypeOK, Held, Exclusive, [Next]_vars
    PROVE  Exclusive'
  <1>1. ASSUME NEW s \in Sessions,
               \/ \E b \in Builds : Execute(s, b)
               \/ \E b \in Builds, l \in Labels : Create(s, b, l)
               \/ \E l \in Labels : Approve(s, l) \/ Publish(s, l)
        PROVE  Exclusive'
    BY <1>1, Begins DEF Begin, Waits, Exclusive, TypeOK
  <1>2. ASSUME NEW s \in Sessions,
               Check(s) \/ Copy(s) \/ Prove(s) \/ Flush(s) \/ Commit(s) \/ Lose(s)
        PROVE  Exclusive'
    <2>1. CASE session' = [session EXCEPT ![s] = Idle]
      BY <2>1, LocksEnd
    <2>2. ASSUME NEW u, session' = [session EXCEPT ![s] = u],
                 u.build = session[s].build, u.label = session[s].label,
                 u.op = session[s].op \/ (u.op = "prove" /\ session[s].op = "publish")
          PROVE  Exclusive'
      <3>1. Locks(u) = Locks(session[s])
        BY <2>2, SameLocks, LocksOf DEF SameWork
      <3> QED
        BY <2>2, <3>1, LocksKept
    <2> QED
      BY <1>2, <2>1, <2>2, Going
  <1>3. CASE UNCHANGED session
    BY <1>3 DEF Exclusive
  <1> QED
    BY <1>1, <1>2, <1>3 DEF Next, vars, Land, Damage

-----------------------------------------------------------------------------
(* What a transaction has read *)

\* The rows after a commit.
LEMMA RowsCommitted ==
    ASSUME TypeOK, Held, NEW s \in Sessions, Commit(s)
    PROVE  LET t == session[s] IN
           /\ t.op = "execute" =>
                /\ todo' = [todo EXCEPT ![t.build] = @ - 1] /\ todo[t.build] > 0
                /\ UNCHANGED <<release, activeRelease>>
           /\ t.op # "execute" => todo' = todo
           /\ t.op = "create" =>
                /\ t.label \notin DOMAIN release /\ DOMAIN release' = DOMAIN release \cup {t.label}
                /\ release'[t.label].status = "READY_FOR_APPROVAL"
                /\ activeRelease' = activeRelease
           /\ t.op = "approve" =>
                /\ t.label \in DOMAIN release /\ DOMAIN release' = DOMAIN release
                /\ release[t.label].status = "READY_FOR_APPROVAL"
                /\ release'[t.label].status = "APPROVED"
                /\ activeRelease' = activeRelease
           /\ t.op = "prove" =>
                /\ t.label \in DOMAIN release /\ DOMAIN release' = DOMAIN release
                /\ release[t.label].status = "APPROVED"
                /\ release'[t.label].status = "PUBLISHED"
                /\ activeRelease' = t.label
           /\ \A l \in DOMAIN release :
                release'[l].build = release[l].build /\ (l # t.label => release'[l] = release[l])
  <1> DEFINE t == session[s]
  <1>1. /\ t \in Transactions /\ Knows(t) /\ t.build \in Builds
        /\ t.op \in {"execute", "create", "approve", "prove"}
    BY Committing
  <1>2. \A l \in DOMAIN release : release[l] \in Rows
    BY DEF TypeOK
  <1>3. todo' = [todo EXCEPT ![t.build] = IF t.op = "execute" THEN @ - 1 ELSE @]
    BY DEF Commit
  <1>4. CASE t.op = "execute"
    BY <1>1, <1>3, <1>4 DEF Commit, Knows
  <1>5. CASE t.op # "execute"
    <2>1. todo' = todo
      BY <1>3, <1>5 DEF TypeOK
    <2>2. CASE t.op = "create"
      BY <1>1, <2>1, <2>2 DEF Commit, Knows
    <2>3. CASE t.op = "approve"
      BY <1>1, <1>2, <2>1, <2>3 DEF Commit, Knows, Rows
    <2>4. CASE t.op = "prove"
      BY <1>1, <1>2, <2>1, <2>4 DEF Commit, Knows, Rows
    <2> QED
      BY <1>1, <1>5, <2>1, <2>2, <2>3, <2>4
  <1> QED
    BY <1>4, <1>5

\* A commit disturbs no other transaction.
LEMMA HeldOfCommit ==
    ASSUME TypeOK, Exclusive, Held, NEW s \in Sessions, Commit(s), NEW r \in Sessions, r # s
    PROVE  Knows(session[r])'
  <1> DEFINE t == session[s]
             x == session[r]
  <1>1. /\ t \in Transactions /\ Knows(t) /\ t.build \in Builds
        /\ t.op \in {"execute", "create", "approve", "prove"}
    BY Committing
  <1>2. Knows(x) /\ x' = x
    BY DEF Held, Commit, TypeOK
  <1>3. Locks(t) \cap Locks(x) = {}
    BY DEF Exclusive
  <1>4. CASE x = Idle
    BY <1>2, <1>4 DEF Knows, Idle
  <1>5. CASE x # Idle
    <2>1. x.build \in Builds /\ x.op \in {"execute", "create", "approve", "publish", "prove"}
      BY <1>5, SessionIs
    <2>2. todo \in [Builds -> 0..Steps + 1]
      BY DEF TypeOK
    <2>3. CASE x.op = "execute"
      <3>1. t.op = "execute" => t.build # x.build
        BY <1>3, <2>3, LocksOf
      <3>2. todo'[x.build] = todo[x.build]
        BY <1>1, <2>1, <2>2, <3>1, RowsCommitted
      <3> QED
        BY <1>2, <2>3, <3>2 DEF Knows
    <2>4. CASE x.op = "create"
      <3>1. t.op = "create" => t.label # x.label
        BY <1>3, <2>4, LocksOf
      <3>2. x.label \notin DOMAIN release'
        BY <1>1, <1>2, <2>4, <3>1, RowsCommitted DEF Knows
      <3>3. todo'[x.build] = 0
        <4>1. todo[x.build] = 0
          BY <1>2, <2>4 DEF Knows, Succeeded
        <4>2. CASE t.op = "execute"
          <5>1. todo' = [todo EXCEPT ![t.build] = @ - 1] /\ todo[t.build] > 0
            BY <4>2, RowsCommitted
          <5>2. x.build # t.build
            BY <4>1, <5>1
          <5> QED
            BY <1>1, <2>1, <2>2, <4>1, <5>1, <5>2
        <4>3. CASE t.op # "execute"
          BY <4>1, <4>3, RowsCommitted
        <4> QED
          BY <4>2, <4>3
      <3> QED
        BY <1>2, <2>4, <3>2, <3>3 DEF Knows, Succeeded
    <2>5. CASE x.op \in {"approve", "publish", "prove"}
      <3>1. t.op \notin {"approve", "prove"}
        BY <1>3, <2>5, LocksOf
      <3>2. x.label \in DOMAIN release
        BY <1>2, <2>5 DEF Knows
      <3>3. /\ x.label \in DOMAIN release'
            /\ release'[x.label] = release[x.label]
        BY <1>1, <3>1, <3>2, RowsCommitted
      <3> QED
        BY <1>2, <2>5, <3>3 DEF Knows
    <2> QED
      BY <2>1, <2>3, <2>4, <2>5
  <1> QED
    BY <1>4, <1>5

\* An idle session relies on nothing.
LEMMA KnowsIdle == Knows(Idle)
  BY DEF Knows, Idle

\* Every step keeps what the transactions have read.
LEMMA HeldStep ==
    ASSUME TypeOK, Exclusive, Held, [Next]_vars
    PROVE  Held'
  <1>1. ASSUME NEW s \in Sessions,
               \/ \E b \in Builds : Execute(s, b)
               \/ \E b \in Builds, l \in Labels : Create(s, b, l)
               \/ \E l \in Labels : Approve(s, l) \/ Publish(s, l)
        PROVE  Held'
    <2>1. PICK t \in Transactions : Begin(s, t) /\ Knows(t)
      BY <1>1, Begins
    <2>2. \A r \in Sessions : Knows(session'[r])
      BY <2>1 DEF Begin, Held, TypeOK
    <2>3. UNCHANGED <<todo, release>>
      BY <2>1 DEF Begin, rows
    <2> QED
      BY <2>2, <2>3 DEF Held, Knows, Succeeded
  <1>2. ASSUME NEW s \in Sessions, Check(s) \/ Copy(s) \/ Prove(s) \/ Flush(s) \/ Lose(s)
        PROVE  Held'
    <2>1. UNCHANGED <<todo, release>>
      BY <1>2, Copying, Proving DEF Check, RolledBack, Uploading, Flush, Lose, rows
    <2>2. PICK u : session' = [session EXCEPT ![s] = u] /\ Knows(u)
      <3>1. CASE session' = [session EXCEPT ![s] = Idle]
        BY <3>1, KnowsIdle
      <3>2. ASSUME NEW u, session' = [session EXCEPT ![s] = u],
                   u.build = session[s].build, u.label = session[s].label,
                   \/ u.op = session[s].op
                   \/ u.op = "prove" /\ session[s].op = "publish",
                   u.sequence = session[s].sequence \/ u.op # "publish"
            PROVE  Knows(u)
        <4>1. Knows(session[s])
          BY DEF Held
        <4> QED
          BY <3>2, <4>1 DEF Knows
      <3> QED
        BY <1>2, <3>1, <3>2, Going
    <2>3. \A r \in Sessions : Knows(session'[r])
      BY <2>2 DEF Held, TypeOK
    <2> QED
      BY <2>1, <2>3 DEF Held, Knows, Succeeded
  <1>3. ASSUME NEW s \in Sessions, Commit(s)
        PROVE  Held'
    <2>1. session'[s] = Idle
      BY <1>3 DEF Commit, TypeOK
    <2>2. Knows(session[s])'
      BY <2>1 DEF Knows, Idle
    <2> QED
      BY <1>3, <2>2, HeldOfCommit DEF Held
  <1>4. CASE UNCHANGED <<session, todo, release>>
    BY <1>4 DEF Held, Knows, Succeeded
  <1> QED
    BY <1>1, <1>2, <1>3, <1>4 DEF Next, vars, rows, Land, Damage, Follow

-----------------------------------------------------------------------------
(* The objects of a publication *)

\* The objects of a release have a place in the release store.
LEMMA Places ==
    ASSUME TypeOK, NEW l \in DOMAIN release
    PROVE  /\ l \in Labels /\ AssetsOf(l) \subseteq Assets
           /\ \A p \in AssetsOf(l) \cup Proofs : <<l, p>> \in Objects
  BY Deliverables DEF TypeOK, Rows, AssetsOf, Objects

\* Nothing that is right becomes wrong.
StaysRight == \A o \in Objects : store[o] = "right" => store'[o] = "right"

\* What a publication has copied stays as long as nothing right becomes wrong.
LEMMA ProgressKept ==
    ASSUME TypeOK, Held, Copied, StaysRight, release' = release, NEW s \in Sessions
    PROVE  /\ Progress(session[s])
           /\ session'[s] = session[s] => Progress(session[s])'
  <1> DEFINE t == session[s]
  <1>1. Progress(t)
    BY DEF Copied, Progress
  <1>2. t.op \in {"publish", "prove"} => t.label \in DOMAIN release
    BY DEF Held, Knows
  <1>3. t.op = "publish" => \A p \in AssetsOf(t.label) \ t.left : store'[<<t.label, p>>] = "right"
    BY <1>1, <1>2, Places DEF Progress, Whole, StaysRight
  <1>4. t.op = "prove" => \A p \in AssetsOf(t.label) \cup Proofs : store'[<<t.label, p>>] = "right"
    BY <1>1, <1>2, Places DEF Progress, Whole, StaysRight
  <1> QED
    BY <1>1, <1>3, <1>4 DEF Progress, Whole, AssetsOf

\* So do the objects of the published releases.
LEMMA PublishedKept ==
    ASSUME TypeOK, Copied, StaysRight, release' = release
    PROVE  (\A l \in Published : Whole(l, AssetsOf(l) \cup Proofs))'
  <1>1. Published' = Published /\ \A l \in Published : l \in DOMAIN release
    BY DEF Published
  <1>2. \A l \in Published : \A p \in AssetsOf(l) \cup Proofs : store'[<<l, p>>] = "right"
    BY <1>1, Places DEF Copied, Whole, StaysRight
  <1> QED
    BY <1>1, <1>2 DEF Whole, AssetsOf

\* A step of one session that copies or proves nothing.
LEMMA CopiedByOthers ==
    ASSUME TypeOK, Held, Copied, StaysRight, release' = release, NEW s \in Sessions,
           \A r \in Sessions \ {s} : session'[r] = session[r], Progress(session[s])'
    PROVE  Copied'
  <1>1. \A r \in Sessions : Progress(session[r])'
    BY ProgressKept
  <1> QED
    BY <1>1, PublishedKept DEF Copied, Progress

\* A publication that begins has copied nothing.
LEMMA CopiedOfBegin ==
    ASSUME TypeOK, Held, Copied, NEW s \in Sessions, NEW t \in Transactions, Begin(s, t),
           t.op # "prove", t.op = "publish" => t.left = AssetsOf(t.label)
    PROVE  Copied'
  <1>1. session'[s] = t /\ \A r \in Sessions \ {s} : session'[r] = session[r]
    BY DEF Begin, TypeOK
  <1>2. release' = release /\ store' = store
    BY DEF Begin, rows, objects
  <1>3. Progress(session[s])'
    BY <1>1, <1>2 DEF Progress, Whole, AssetsOf
  <1> QED
    BY <1>1, <1>2, <1>3, CopiedByOthers DEF StaysRight

\* A transaction that ends leaves the copies of the others alone.
LEMMA CopiedOfEnd ==
    ASSUME TypeOK, Held, Copied, NEW s \in Sessions, StaysRight, release' = release,
           session' = [session EXCEPT ![s] = Idle]
    PROVE  Copied'
  <1>1. session'[s] = Idle /\ \A r \in Sessions \ {s} : session'[r] = session[r]
    BY DEF TypeOK
  <1>2. Progress(session[s])'
    BY <1>1 DEF Progress, Idle
  <1> QED
    BY <1>1, <1>2, CopiedByOthers

\* Neither a check nor a flush touches the release store.
LEMMA CopiedOfCheck ==
    ASSUME TypeOK, Held, Copied, NEW s \in Sessions, Check(s) \/ Flush(s)
    PROVE  Copied'
  <1>1. release' = release /\ store' = store
    BY DEF Check, RolledBack, Flush, rows, objects
  <1>2. session[s].op \notin {"publish"} /\ (Check(s) => session[s].op = "create")
    BY DEF Check, Flush, Ready
  <1>3. CASE session' = [session EXCEPT ![s] = Idle]
    BY <1>1, <1>3, CopiedOfEnd DEF StaysRight
  <1>4. ASSUME NEW u, session' = [session EXCEPT ![s] = u], u.label = session[s].label,
               u.op = session[s].op
        PROVE  Copied'
    <2>1. session'[s] = u /\ \A r \in Sessions \ {s} : session'[r] = session[r]
      BY <1>4 DEF TypeOK
    <2>2. Progress(session[s])
      BY <1>1, ProgressKept DEF StaysRight
    <2>3. Progress(session[s])'
      BY <1>1, <1>2, <1>4, <2>1, <2>2 DEF Progress, Whole, AssetsOf
    <2> QED
      BY <1>1, <2>1, <2>3, CopiedByOthers DEF StaysRight
  <1> QED
    BY <1>2, <1>3, <1>4, Going

\* An asset is off the list only if it was read back as it should be.
LEMMA CopiedOfCopy ==
    ASSUME TypeOK, Held, Copied, NEW s \in Sessions, Copy(s)
    PROVE  Copied'
  <1>1. CASE RolledBack(s)
    BY <1>1, CopiedOfEnd DEF RolledBack, StaysRight, rows, objects
  <1>2. ASSUME NEW a \in session[s].left, Uploading(s, a)
        PROVE  Copied'
    <2> DEFINE t == session[s]
               o == <<t.label, a>>
               put == Stored(store[o], "right")
    <2>1. o \in Objects /\ store' = [store EXCEPT ![o] = put] /\ release' = release
      BY <1>2 DEF Uploading, rows
    <2>2. store[o] = "right" => put = "right"
      BY StoredIs, <2>1 DEF TypeOK, Contents
    <2>3. StaysRight
      BY <2>1, <2>2 DEF StaysRight, TypeOK
    <2>4. CASE session' = [session EXCEPT ![s] = Idle]
      BY <2>1, <2>3, <2>4, CopiedOfEnd
    <2>5. CASE put = "right" /\ session' = [session EXCEPT ![s] = [t EXCEPT !.left = @ \ {a}]]
      <3> DEFINE u == [t EXCEPT !.left = @ \ {a}]
      <3>1. u.op = "publish" /\ u.label = t.label /\ u.left = t.left \ {a} /\ t.op = "publish"
        BY <1>2, Copying, WithFields DEF SameWork
      <3>2. session'[s] = u /\ \A r \in Sessions \ {s} : session'[r] = session[r]
        BY <2>5 DEF TypeOK
      <3>3. Progress(t) /\ t.label \in DOMAIN release
        BY <2>1, <2>3, ProgressKept, Copying
      <3>4. \A p \in AssetsOf(t.label) : p \notin t.left => store[<<t.label, p>>] = "right"
        BY <3>1, <3>3 DEF Progress, Whole
      <3>5. store'[o] = "right"
        BY <2>1, <2>5 DEF TypeOK
      <3>6. \A p \in AssetsOf(t.label) \ (t.left \ {a}) : store'[<<t.label, p>>] = "right"
        BY <2>3, <3>3, <3>4, <3>5, Places DEF StaysRight
      <3>7. Progress(session[s])'
        <4> HIDE DEF u
        <4> QED
          BY <2>1, <3>1, <3>2, <3>6 DEF Progress, Whole, AssetsOf
      <3> QED
        BY <2>1, <2>3, <3>2, <3>7, CopiedByOthers
    <2> QED
      BY <1>2, <2>4, <2>5 DEF Uploading
  <1> QED
    BY <1>1, <1>2, Copying

\* A publication is proved only if manifest and verification were read back.
LEMMA CopiedOfProve ==
    ASSUME TypeOK, Held, Copied, NEW s \in Sessions, Prove(s)
    PROVE  Copied'
  <1> DEFINE t == session[s]
             u == [t EXCEPT !.op = "prove"]
  <1>1. StaysRight /\ release' = release /\ t.op = "publish" /\ t.left = {}
    BY Proving DEF StaysRight, rows
  <1>2. CASE session' = [session EXCEPT ![s] = Idle]
    BY <1>1, <1>2, CopiedOfEnd
  <1>3. CASE /\ session' = [session EXCEPT ![s] = u]
             /\ \A p \in Proofs : store'[<<t.label, p>>] = "right"
    <2>1. u.op = "prove" /\ u.label = t.label /\ t.label \in DOMAIN release
      BY Proving, WithFields
    <2>2. session'[s] = u /\ \A r \in Sessions \ {s} : session'[r] = session[r]
      BY <1>3 DEF TypeOK
    <2>3. \A p \in AssetsOf(t.label) : store[<<t.label, p>>] = "right"
      BY <1>1, ProgressKept DEF Progress, Whole
    <2>4. \A p \in AssetsOf(t.label) \cup Proofs : store'[<<t.label, p>>] = "right"
      BY <1>1, <1>3, <2>1, <2>3, Places DEF StaysRight
    <2>5. Progress(session[s])'
      <3> HIDE DEF u
      <3> QED
        BY <1>1, <2>1, <2>2, <2>4 DEF Progress, Whole, AssetsOf
    <2> QED
      BY <1>1, <2>2, <2>5, CopiedByOthers
  <1> QED
    BY <1>2, <1>3, Proving

\* The release that becomes published is one whose objects are all there.
LEMMA CopiedOfCommit ==
    ASSUME TypeOK, Exclusive, Held, Copied, NEW s \in Sessions, Commit(s)
    PROVE  Copied'
  <1> DEFINE t == session[s]
  <1>1. /\ t.op \in {"execute", "create", "approve", "prove"}
        /\ store' = store
        /\ session'[s] = Idle /\ \A r \in Sessions \ {s} : session'[r] = session[r]
    BY Committing DEF Commit, objects, TypeOK
  <1>2. \A l \in DOMAIN release : l \in DOMAIN release' /\ AssetsOf(l)' = AssetsOf(l)
    <2>1. \A l \in DOMAIN release : l \in DOMAIN release' /\ release'[l].build = release[l].build
      BY <1>1, RowsCommitted
    <2> QED
      BY <2>1 DEF AssetsOf
  <1>3. ASSUME NEW r \in Sessions
        PROVE  Progress(session[r])'
    <2>1. CASE r = s
      BY <1>1, <2>1 DEF Progress, Idle
    <2>2. CASE r # s
      <3>1. Progress(session[r]) /\ session'[r] = session[r]
        BY <1>1, <2>2 DEF Copied, Progress
      <3>2. session[r].op \in {"publish", "prove"} => session[r].label \in DOMAIN release
        BY DEF Held, Knows
      <3>3. session[r].op \in {"publish", "prove"} =>
              AssetsOf(session[r].label)' = AssetsOf(session[r].label)
        BY <1>2, <3>1, <3>2
      <3> QED
        BY <1>1, <3>1, <3>3 DEF Progress, Whole
    <2> QED
      BY <2>1, <2>2
  <1>4. ASSUME NEW l \in Published'
        PROVE  \A p \in AssetsOf(l)' \cup Proofs : store'[<<l, p>>] = "right"
    <2>1. l \in DOMAIN release' /\ release'[l].status = "PUBLISHED"
      BY DEF Published
    <2>2. \/ l \in Published
          \/ t.op = "prove" /\ l = t.label /\ l \in DOMAIN release
      BY <1>1, <2>1, RowsCommitted DEF Published
    <2>3. Whole(l, AssetsOf(l) \cup Proofs) /\ l \in DOMAIN release
      BY <2>2 DEF Copied, Progress, Published
    <2> QED
      BY <1>1, <1>2, <2>3 DEF Whole
  <1>5. (\A l \in Published : Whole(l, AssetsOf(l) \cup Proofs))'
    BY <1>4 DEF Whole
  <1> QED
    BY <1>3, <1>5 DEF Copied, Progress

\* A step that leaves the sessions and the rows alone and spoils no object of a
\* release that is published or being published.
LEMMA CopiedByNobody ==
    ASSUME TypeOK, Held, Copied, UNCHANGED <<session, release>>,
           \A o \in Objects :
             store[o] = "right" =>
               \/ store'[o] = "right"
               \/ /\ o[1] \notin Published
                  /\ \A s \in Sessions :
                       session[s].op \in {"publish", "prove"} => session[s].label # o[1]
    PROVE  Copied'
  <1>1. ASSUME NEW l \in DOMAIN release, NEW p \in AssetsOf(l) \cup Proofs,
               store[<<l, p>>] = "right",
               \/ l \in Published
               \/ \E s \in Sessions : session[s].op \in {"publish", "prove"} /\ session[s].label = l
        PROVE  store'[<<l, p>>] = "right"
    <2>1. <<l, p>> \in Objects /\ <<l, p>>[1] = l
      BY Places
    <2> QED
      BY <1>1, <2>1
  <1>2. ASSUME NEW s \in Sessions
        PROVE  Progress(session[s])'
    <2> DEFINE t == session[s]
    <2>1. Progress(t) /\ (t.op \in {"publish", "prove"} => t.label \in DOMAIN release)
      BY DEF Held, Knows, Copied, Progress
    <2>2. t.op = "publish" => \A p \in AssetsOf(t.label) \ t.left : store'[<<t.label, p>>] = "right"
      BY <1>1, <2>1 DEF Progress, Whole
    <2>3. t.op = "prove" => \A p \in AssetsOf(t.label) \cup Proofs : store'[<<t.label, p>>] = "right"
      BY <1>1, <2>1 DEF Progress, Whole
    <2> QED
      BY <2>2, <2>3 DEF Progress, Whole, AssetsOf
  <1>3. Published' = Published /\ \A l \in Published : l \in DOMAIN release
    BY DEF Published
  <1>4. \A l \in Published : \A p \in AssetsOf(l) \cup Proofs : store'[<<l, p>>] = "right"
    BY <1>1, <1>3 DEF Copied, Whole
  <1>5. (\A l \in Published : Whole(l, AssetsOf(l) \cup Proofs))'
    BY <1>3, <1>4 DEF Whole, AssetsOf
  <1> QED
    BY <1>2, <1>5 DEF Copied, Progress

\* Every step keeps the copies.
LEMMA CopiedStep ==
    ASSUME TypeOK, Exclusive, Held, Copied, [Next]_vars
    PROVE  Copied'
  <1>1. ASSUME NEW s \in Sessions,
               \/ \E b \in Builds : Execute(s, b)
               \/ \E b \in Builds, l \in Labels : Create(s, b, l)
               \/ \E l \in Labels : Approve(s, l) \/ Publish(s, l)
        PROVE  Copied'
    BY <1>1, Begins, CopiedOfBegin
  <1>2. ASSUME NEW s \in Sessions, Check(s) \/ Flush(s) \/ Copy(s) \/ Prove(s) \/ Commit(s)
        PROVE  Copied'
    BY <1>2, CopiedOfCheck, CopiedOfCopy, CopiedOfProve, CopiedOfCommit
  <1>3. ASSUME NEW s \in Sessions, Lose(s)
        PROVE  Copied'
    BY <1>3, CopiedOfEnd DEF Lose, StaysRight, rows
  <1>4. ASSUME NEW o \in Objects, Land(o)
        PROVE  Copied'
    BY <1>4, CopiedByNobody DEF Land, TypeOK, rows
  <1>5. CASE Damage
    <2>1. UNCHANGED <<session, release>>
      BY <1>5 DEF Damage, rows
    <2>2. \/ UNCHANGED store
          \/ \E bad \in Contents, o \in Objects :
               /\ o[1] \notin Published
               /\ \A s \in Sessions :
                    session[s].op \in {"publish", "prove"} => session[s].label # o[1]
               /\ store' = [store EXCEPT ![o] = bad]
      BY <1>5 DEF Damage
    <2> QED
      BY <2>1, <2>2, CopiedByNobody DEF TypeOK
  <1>6. CASE UNCHANGED <<session, release, store>>
    BY <1>6, CopiedByNobody
  <1> QED
    BY <1>1, <1>2, <1>3, <1>4, <1>5, <1>6 DEF Next, vars, rows, objects, Follow

-----------------------------------------------------------------------------
(* Places in the log *)

\* A transaction that ends, or goes on with the place it had.
LEMMA PlacesKept ==
    ASSUME TypeOK, Numbering, NEW s \in Sessions, NEW u,
           session' = [session EXCEPT ![s] = u], UNCHANGED <<sequence, log>>,
           u # Idle /\ u.sequence # 0 =>
             /\ session[s] # Idle
             /\ u.sequence = session[s].sequence
             /\ u.op = session[s].op /\ u.build = session[s].build
    PROVE  Numbering'
  <1>1. session'[s] = u /\ \A r \in Sessions \ {s} : session'[r] = session[r]
    BY DEF TypeOK
  <1>2. \A r \in Sessions : Taken(r)' =>
          /\ Taken(r)
          /\ session'[r].sequence = session[r].sequence
          /\ session'[r].op = session[r].op /\ session'[r].build = session[r].build
    BY <1>1 DEF Taken
  <1>3. \A r \in Sessions : Taken(r)' => Placed(session[r])'
    BY <1>2 DEF Numbering, Placed, OfBuild
  <1> QED
    BY <1>2, <1>3 DEF Numbering

\* A new place is after every place that was taken.
LEMMA NumberingOfFlush ==
    ASSUME TypeOK, Held, Numbering, NEW s \in Sessions, Flush(s)
    PROVE  Numbering'
  <1> DEFINE t == session[s]
             u == [t EXCEPT !.sequence = sequence + 1]
  <1>1. sequence \in Nat /\ sequence' = sequence + 1 /\ log' = log
    BY DEF TypeOK, LogTypeOK, Flush, Numbered
  <1>2. t \in Transactions
    BY SessionIs, Awake DEF Flush, Ready
  <1>3. u.sequence = sequence + 1
    BY <1>2, WithFields
  <1>4. session'[s] = u /\ \A r \in Sessions \ {s} : session'[r] = session[r]
    BY DEF Flush, TypeOK
  <1>5. \A e \in log : e.sequence \in 1..sequence
    BY DEF TypeOK, LogTypeOK, IsEvent
  <1>6. \A e \in log : e.sequence < sequence + 1
    BY <1>1, <1>5
  <1>7. Placed(session[s])'
    <2> HIDE DEF u
    <2> QED
      BY <1>1, <1>3, <1>4, <1>6 DEF Placed, OfBuild
  <1>8. \A r \in Sessions \ {s} : Taken(r)' => Taken(r) /\ Placed(session[r])
    BY <1>4 DEF Taken, Numbering
  <1>9. \A r \in Sessions \ {s} : Taken(r)' =>
          /\ session'[r].sequence \in 1..sequence
          /\ Placed(session[r])'
    BY <1>1, <1>4, <1>8 DEF Placed, OfBuild
  <1>10. \A r \in Sessions \ {s} : Taken(r)' => session'[r].sequence # sequence + 1
    BY <1>1, <1>9
  <1>11. \A r, q \in Sessions \ {s} :
           r # q /\ Taken(r)' /\ Taken(q)' => session'[r].sequence # session'[q].sequence
    BY <1>4, <1>8 DEF Numbering
  <1> QED
    <2> HIDE DEF u
    <2> QED
      BY <1>3, <1>4, <1>7, <1>9, <1>10, <1>11 DEF Numbering

\* The row that is committed is out of the way of every other transaction.
LEMMA NumberingOfCommit ==
    ASSUME TypeOK, Exclusive, Held, Numbering, NEW s \in Sessions, Commit(s)
    PROVE  Numbering'
  <1> DEFINE t == session[s]
             row == [sequence |-> t.sequence, build |-> t.build, kind |-> KindOf(t.op),
                     label |-> t.label]
  <1>1. /\ sequence' = sequence /\ log' = log \cup {row}
        /\ session'[s] = Idle /\ \A r \in Sessions \ {s} : session'[r] = session[r]
    BY DEF Commit, Recorded, TypeOK
  <1>2. /\ Taken(s) /\ Knows(t) /\ t.op \in {"execute", "create", "approve", "prove"}
        /\ t.op # "execute" => Succeeded(t.build)
    BY Committing
  <1>3. ~Taken(s)'
    BY <1>1 DEF Taken
  <1>4. ASSUME NEW r \in Sessions \ {s}, Taken(r)'
        PROVE  Taken(r) /\ Placed(session[r])'
    <2> DEFINE x == session[r]
    <2>1. Taken(r) /\ Placed(x) /\ x' = x /\ x.sequence # t.sequence
      BY <1>1, <1>2, <1>4 DEF Taken, Numbering
    <2>2. Knows(x) /\ Locks(x) \cap Locks(t) = {}
      BY DEF Held, Exclusive
    <2>3. x.op = "execute" => t.build # x.build
      <3>1. CASE t.op = "execute"
        BY <2>2, <3>1, LocksOf
      <3>2. CASE t.op # "execute"
        BY <1>2, <2>2, <3>2 DEF Knows, Succeeded
      <3> QED
        BY <3>1, <3>2
    <2>4. x.op = "prove" => t.op # "prove"
      BY <2>2, LocksOf
    <2>5. t.op # "prove" => row.kind # "published"
      BY <1>2 DEF KindOf
    <2>6. \A e \in log' : e.sequence # x.sequence
      BY <1>1, <2>1 DEF Placed
    <2>7. x.op = "execute" => \A e \in log' : e.build = x.build => e.sequence < x.sequence
      BY <1>1, <2>1, <2>3 DEF Placed, OfBuild
    <2>8. x.op = "prove" => \A e \in log' : e.kind = "published" => e.sequence < x.sequence
      BY <1>1, <2>1, <2>4, <2>5 DEF Placed
    <2> QED
      BY <1>1, <2>1, <2>6, <2>7, <2>8 DEF Placed, OfBuild
  <1> QED
    BY <1>1, <1>3, <1>4 DEF Numbering

\* Every step keeps the places apart and in order.
LEMMA NumberingStep ==
    ASSUME TypeOK, Exclusive, Held, Numbering, [Next]_vars
    PROVE  Numbering'
  <1>1. ASSUME NEW s \in Sessions,
               \/ \E b \in Builds : Execute(s, b)
               \/ \E b \in Builds, l \in Labels : Create(s, b, l)
               \/ \E l \in Labels : Approve(s, l) \/ Publish(s, l)
        PROVE  Numbering'
    <2>1. PICK t \in Transactions : Begin(s, t) /\ t.sequence = 0
      BY <1>1, Begins
    <2> QED
      BY <2>1, PlacesKept DEF Begin, events
  <1>2. ASSUME NEW s \in Sessions, Check(s) \/ Copy(s) \/ Prove(s) \/ Lose(s)
        PROVE  Numbering'
    <2>1. UNCHANGED <<sequence, log>>
      BY <1>2, Copying, Proving DEF Check, RolledBack, Uploading, Lose, events
    <2>2. CASE session' = [session EXCEPT ![s] = Idle]
      BY <2>1, <2>2, PlacesKept
    <2>3. CASE session' # [session EXCEPT ![s] = Idle]
      <3>1. session[s] # Idle
        BY <1>2, Awake DEF Check, Copy, Prove, Lose
      <3>2. ~Flush(s)
        BY <2>1 DEF Flush, Numbered, TypeOK, LogTypeOK
      <3>3. PICK u :
              /\ session' = [session EXCEPT ![s] = u]
              /\ u.build = session[s].build
              /\ \/ u.op = session[s].op
                 \/ u.op = "prove" /\ session[s].op = "publish" /\ session[s].sequence = 0
              /\ u.sequence = session[s].sequence
        BY <1>2, <2>3, <3>2, Going
      <3> QED
        BY <2>1, <3>1, <3>3, PlacesKept
    <2> QED
      BY <2>2, <2>3
  <1>3. ASSUME NEW s \in Sessions, Flush(s) \/ Commit(s)
        PROVE  Numbering'
    BY <1>3, NumberingOfFlush, NumberingOfCommit
  <1>4. CASE UNCHANGED <<session, sequence, log>>
    BY <1>4 DEF Numbering, Taken, Placed, OfBuild
  <1> QED
    BY <1>1, <1>2, <1>3, <1>4 DEF Next, vars, events, Land, Damage, Follow

-----------------------------------------------------------------------------
(* The log and the status of the releases *)

\* The row a commit writes.
LEMMA RowWritten ==
    ASSUME TypeOK, Held, NEW s \in Sessions, Commit(s)
    PROVE  \E row :
             /\ log' = log \cup {row}
             /\ row.sequence = session[s].sequence /\ row.build = session[s].build
             /\ row.label = session[s].label /\ row.kind = KindOf(session[s].op)
  <1> DEFINE t == session[s]
             row == [sequence |-> t.sequence, build |-> t.build, kind |-> KindOf(t.op),
                     label |-> t.label]
  <1>1. log' = log \cup {row}
    BY DEF Commit, Recorded
  <1>2. /\ row.sequence = t.sequence /\ row.build = t.build
        /\ row.label = t.label /\ row.kind = KindOf(t.op)
    OBVIOUS
  <1> QED
    BY <1>1, <1>2

\* Its kind tells the operation.
LEMMA KindIs ==
    ASSUME NEW o \in {"execute", "create", "approve", "prove"}
    PROVE  /\ KindOf(o) = "execution" <=> o = "execute"
           /\ KindOf(o) = "candidate" <=> o = "create"
           /\ KindOf(o) = "approved" <=> o = "approve"
           /\ KindOf(o) = "published" <=> o = "prove"
  BY DEF KindOf

\* The row of a commit tells the status it brings about, for the first time.
LEMMA TellingOfCommit ==
    ASSUME TypeOK, Held, Telling, NEW s \in Sessions, Commit(s)
    PROVE  Telling'
  <1> DEFINE t == session[s]
  <1>1. /\ Knows(t) /\ t.op \in {"execute", "create", "approve", "prove"}
        /\ t.op # "execute" => t.label \in Labels
    BY Committing
  <1>2. t.op = "execute" => t.label \notin Labels
    BY <1>1, ReleaseAssumption DEF Knows
  <1>3. PICK row : /\ log' = log \cup {row}
                   /\ row.label = t.label /\ row.kind = KindOf(t.op)
    BY RowWritten
  <1>4. /\ row.kind = "execution" <=> t.op = "execute"
        /\ row.kind = "candidate" <=> t.op = "create"
        /\ row.kind = "approved" <=> t.op = "approve"
        /\ row.kind = "published" <=> t.op = "prove"
    BY <1>1, <1>3, KindIs
  <1>5. \A l \in Labels, k \in {"execution", "candidate", "approved", "published"} :
          IsTold(l, k)' <=> IsTold(l, k) \/ (l = t.label /\ k = row.kind)
    BY <1>3 DEF IsTold
  <1>6. row.kind \in {"execution", "candidate", "approved", "published"}
    BY <1>1, <1>4
  <1>7. t.label \in Labels => ~IsTold(t.label, row.kind)
    <2>1. t.op = "create" => t.label \notin DOMAIN release
      BY <1>1 DEF Knows
    <2>2. t.op = "approve" => release[t.label].status = "READY_FOR_APPROVAL"
      BY <1>1 DEF Knows
    <2>3. t.op = "prove" => release[t.label].status = "APPROVED"
      BY <1>1 DEF Knows
    <2> QED
      BY <1>1, <1>2, <1>4, <2>1, <2>2, <2>3 DEF Telling
  <1>8. \A d, e \in log' : d.label \in Labels /\ d.label = e.label /\ d.kind = e.kind => d = e
    BY <1>3, <1>7 DEF Telling, IsTold
  <1>9. \A e \in log' : e.kind = "published" => e.label \in Labels
    BY <1>1, <1>3, <1>4 DEF Telling
  <1>10. ASSUME NEW l \in Labels
         PROVE  (/\ ~IsTold(l, "execution")
                 /\ IsTold(l, "candidate") <=> l \in DOMAIN release
                 /\ IsTold(l, "approved") <=>
                      l \in DOMAIN release /\ release[l].status \in {"APPROVED", "PUBLISHED"}
                 /\ IsTold(l, "published") <=>
                      l \in DOMAIN release /\ release[l].status = "PUBLISHED")'
    <2>1. /\ ~IsTold(l, "execution")
          /\ IsTold(l, "candidate") <=> l \in DOMAIN release
          /\ IsTold(l, "approved") <=>
               l \in DOMAIN release /\ release[l].status \in {"APPROVED", "PUBLISHED"}
          /\ IsTold(l, "published") <=> l \in DOMAIN release /\ release[l].status = "PUBLISHED"
      BY DEF Telling
    <2>2. CASE t.op = "execute"
      BY <1>2, <1>5, <2>1, <2>2, RowsCommitted
    <2>3. CASE t.op = "create"
      <3>1. CASE l = t.label
        BY <1>4, <1>5, <2>1, <2>3, <3>1, RowsCommitted
      <3>2. CASE l # t.label
        <4>1. l \in DOMAIN release' <=> l \in DOMAIN release
          BY <2>3, <3>2, RowsCommitted
        <4>2. l \in DOMAIN release => release'[l] = release[l]
          BY <3>2, RowsCommitted
        <4> QED
          BY <1>5, <2>1, <3>2, <4>1, <4>2
      <3> QED
        BY <3>1, <3>2
    <2>4. CASE t.op \in {"approve", "prove"}
      <3>1. DOMAIN release' = DOMAIN release
        BY <2>4, RowsCommitted
      <3>2. CASE l = t.label
        BY <1>4, <1>5, <2>1, <2>4, <3>1, <3>2, RowsCommitted
      <3>3. CASE l # t.label
        <4>1. l \in DOMAIN release => release'[l] = release[l]
          BY <3>3, RowsCommitted
        <4> QED
          BY <1>5, <2>1, <3>1, <3>3, <4>1
      <3> QED
        BY <3>2, <3>3
    <2> QED
      BY <1>1, <2>2, <2>3, <2>4
  <1> QED
    BY <1>8, <1>9, <1>10 DEF Telling

\* Every step keeps the log and the rows in agreement.
LEMMA TellingStep ==
    ASSUME TypeOK, Held, Telling, [Next]_vars
    PROVE  Telling'
  <1>1. ASSUME NEW s \in Sessions,
               \/ \E b \in Builds : Execute(s, b)
               \/ \E b \in Builds, l \in Labels : Create(s, b, l)
               \/ \E l \in Labels : Approve(s, l) \/ Publish(s, l)
        PROVE  UNCHANGED <<log, release>>
    BY <1>1, Begins DEF Begin, events, rows
  <1>2. ASSUME NEW s \in Sessions, Check(s) \/ Copy(s) \/ Prove(s) \/ Flush(s) \/ Lose(s)
        PROVE  UNCHANGED <<log, release>>
    BY <1>2, Copying, Proving DEF Check, RolledBack, Uploading, Flush, Lose, events, rows
  <1>3. CASE UNCHANGED <<log, release>>
    BY <1>3 DEF Telling, IsTold
  <1> QED
    BY <1>1, <1>2, <1>3, TellingOfCommit
       DEF Next, vars, events, rows, Land, Damage, Follow

\* The row of a publication is after those of all publications before it.
LEMMA LeadingOfCommit ==
    ASSUME TypeOK, Held, Numbering, Leading, NEW s \in Sessions, Commit(s)
    PROVE  Leading'
  <1> DEFINE t == session[s]
  <1>1. t.op \in {"execute", "create", "approve", "prove"} /\ Taken(s)
    BY Committing
  <1>2. PICK row : /\ log' = log \cup {row} /\ row.sequence = t.sequence
                   /\ row.label = t.label /\ row.kind = KindOf(t.op)
    BY RowWritten
  <1>3. row.kind = "published" <=> t.op = "prove"
    BY <1>1, <1>2, KindIs
  <1>4. CASE t.op = "prove"
    <2>1. activeRelease' = t.label
      BY <1>4, RowsCommitted
    <2>2. \A e \in log : e.kind = "published" => e.sequence < row.sequence
      BY <1>1, <1>2, <1>4 DEF Numbering, Placed
    <2>3. /\ row.sequence \in 1..sequence /\ sequence \in Nat
          /\ \A e \in log : e.sequence \in 1..sequence
      BY <1>1, <1>2 DEF Numbering, Placed, TypeOK, LogTypeOK, IsEvent
    <2>4. \A d \in log' : d.kind = "published" => d.sequence <= row.sequence
      BY <1>2, <2>2, <2>3
    <2> QED
      BY <1>2, <1>3, <1>4, <2>1, <2>4 DEF Leading
  <1>5. CASE t.op # "prove"
    <2>1. activeRelease' = activeRelease
      BY <1>1, <1>5, RowsCommitted
    <2>2. row.kind # "published"
      BY <1>3, <1>5
    <2> QED
      BY <1>2, <2>1, <2>2 DEF Leading
  <1> QED
    BY <1>4, <1>5

\* Every step keeps the active release the last one published.
LEMMA LeadingStep ==
    ASSUME TypeOK, Held, Numbering, Leading, [Next]_vars
    PROVE  Leading'
  <1>1. ASSUME NEW s \in Sessions,
               \/ \E b \in Builds : Execute(s, b)
               \/ \E b \in Builds, l \in Labels : Create(s, b, l)
               \/ \E l \in Labels : Approve(s, l) \/ Publish(s, l)
        PROVE  UNCHANGED <<log, activeRelease>>
    BY <1>1, Begins DEF Begin, events, rows
  <1>2. ASSUME NEW s \in Sessions, Check(s) \/ Copy(s) \/ Prove(s) \/ Flush(s) \/ Lose(s)
        PROVE  UNCHANGED <<log, activeRelease>>
    BY <1>2, Copying, Proving DEF Check, RolledBack, Uploading, Flush, Lose, events, rows
  <1>3. CASE UNCHANGED <<log, activeRelease>>
    BY <1>3 DEF Leading
  <1> QED
    BY <1>1, <1>2, <1>3, LeadingOfCommit
       DEF Next, vars, events, rows, Land, Damage, Follow

-----------------------------------------------------------------------------
(* What the streams have sent *)

\* A row of an execution comes after the position of every stream of its build.
LEMMA FollowedOfCommit ==
    ASSUME TypeOK, Held, Numbering, Followed, NEW s \in Sessions, Commit(s)
    PROVE  Followed'
  <1> DEFINE t == session[s]
  <1>1. t.op \in {"execute", "create", "approve", "prove"} /\ Taken(s) /\ t.build \in Builds
    BY Committing
  <1>2. PICK row : /\ log' = log \cup {row} /\ row.sequence = t.sequence
                   /\ row.build = t.build /\ row.kind = KindOf(t.op)
    BY RowWritten
  <1>3. position' = position /\ seen' = seen
    BY DEF Commit, streams
  <1>4. \A b \in Builds : OfBuild(b)' = OfBuild(b) \cup {e \in {row} : e.build = b}
    BY <1>2 DEF OfBuild
  <1>5. row.kind = "execution" => row.sequence > position[t.build]
    <2>1. row.kind = "execution" => t.op = "execute"
      BY <1>1, <1>2, KindIs
    <2>2. t.op = "execute" => \A e \in OfBuild(t.build) : e.sequence < row.sequence
      BY <1>1, <1>2 DEF Numbering, Placed
    <2>3. position[t.build] = 0 \/ \E e \in OfBuild(t.build) : e.sequence = position[t.build]
      BY <1>1 DEF Followed
    <2>4. row.sequence \in 1..sequence /\ sequence \in Nat
      BY <1>1, <1>2 DEF Numbering, Placed, TypeOK, LogTypeOK
    <2>5. \A e \in OfBuild(t.build) : e.sequence \in 1..sequence
      BY DEF OfBuild, TypeOK, LogTypeOK, IsEvent
    <2> QED
      BY <2>1, <2>2, <2>3, <2>4, <2>5
  <1>6. row.sequence \in Nat /\ \A b \in Builds : position[b] \in Nat
    BY <1>1, <1>2 DEF Numbering, Placed, TypeOK, LogTypeOK
  <1>7. \A b \in Builds : \A e \in Missed(b)' : e \in Missed(b) \/ e.kind # "execution"
    BY <1>2, <1>3, <1>4, <1>5, <1>6 DEF Missed
  <1>8. \A b \in Builds : position'[b] = 0 \/ \E e \in OfBuild(b)' : e.sequence = position'[b]
    BY <1>3, <1>4 DEF Followed
  <1> QED
    BY <1>7, <1>8 DEF Followed, ExecutionIsNotMissed

\* A stream that goes on has sent what it went past.
LEMMA FollowedOfFollow ==
    ASSUME TypeOK, Followed, NEW c \in Builds, Follow(c)
    PROVE  Followed'
  <1>1. PICK last \in {e.sequence : e \in OfBuild(c)} :
          /\ last > position[c]
          /\ position' = [position EXCEPT ![c] = last]
          /\ seen' = [seen EXCEPT ![c] =
               @ \cup {e \in OfBuild(c) : e.sequence > position[c] /\ e.sequence <= last}]
    BY DEF Follow
  <1>2. \A b \in Builds : OfBuild(b)' = OfBuild(b)
    BY DEF Follow, OfBuild
  <1>3. PICK row \in OfBuild(c) : row.sequence = last
    BY <1>1
  <1>4. /\ position'[c] = last
        /\ \A b \in Builds \ {c} : position'[b] = position[b] /\ seen'[b] = seen[b]
        /\ \A e \in OfBuild(c) : e.sequence > position[c] /\ e.sequence <= last => e \in seen'[c]
        /\ seen[c] \subseteq seen'[c]
    BY <1>1 DEF TypeOK, LogTypeOK
  <1>5. \A b \in Builds : position'[b] = 0 \/ \E e \in OfBuild(b)' : e.sequence = position'[b]
    BY <1>2, <1>3, <1>4 DEF Followed
  <1>6. \A e \in OfBuild(c) : e.sequence \in Nat /\ position[c] \in Nat
    BY DEF OfBuild, TypeOK, LogTypeOK, IsEvent
  <1>7. Missed(c)' \subseteq Missed(c)
    BY <1>2, <1>4, <1>6 DEF Missed
  <1>8. \A b \in Builds \ {c} : Missed(b)' = Missed(b)
    BY <1>2, <1>4 DEF Missed
  <1> QED
    BY <1>5, <1>7, <1>8 DEF Followed, ExecutionIsNotMissed

\* Every step keeps the streams complete.
LEMMA FollowedStep ==
    ASSUME TypeOK, Held, Numbering, Followed, [Next]_vars
    PROVE  Followed'
  <1>1. ASSUME NEW s \in Sessions,
               \/ \E b \in Builds : Execute(s, b)
               \/ \E b \in Builds, l \in Labels : Create(s, b, l)
               \/ \E l \in Labels : Approve(s, l) \/ Publish(s, l)
        PROVE  UNCHANGED <<log, streams>>
    BY <1>1, Begins DEF Begin, events, streams
  <1>2. ASSUME NEW s \in Sessions, Check(s) \/ Copy(s) \/ Prove(s) \/ Flush(s) \/ Lose(s)
        PROVE  UNCHANGED <<log, streams>>
    BY <1>2, Copying, Proving DEF Check, RolledBack, Uploading, Flush, Lose, events, streams
  <1>3. CASE UNCHANGED <<log, streams>>
    BY <1>3 DEF Followed, ExecutionIsNotMissed, Missed, OfBuild, streams
  <1> QED
    BY <1>1, <1>2, <1>3, FollowedOfCommit, FollowedOfFollow
       DEF Next, vars, events, streams, Land, Damage

-----------------------------------------------------------------------------
(* The theorems *)

\* The inductive invariant holds at the start ...
LEMMA Starts ==
    ASSUME Init
    PROVE  IInv
  <1>1. DOMAIN release = {} /\ \A s \in Sessions : session[s] = Idle
    BY DEF Init
  <1>2. log = {} /\ sequence = 0 /\ \A b \in Builds : position[b] = 0 /\ seen[b] = {}
    BY DEF Init, LogInit
  <1>3. TypeOK
    <2>1. LogTypeOK
      BY <1>2 DEF Init, LogInit, LogTypeOK
    <2>2. todo \in [Builds -> 0..Steps + 1]
      BY ReleaseAssumption DEF Init
    <2>3. work \in [Assets -> Contents] /\ store \in [Objects -> Contents] /\ late \subseteq Objects
      BY DEF Init, Contents
    <2>4. session \in [Sessions -> Transactions \cup {Idle}]
      BY DEF Init
    <2>5. faults \in 0..MaxFaults /\ activeRelease \in Labels \cup {NoLabel}
      BY ReleaseAssumption DEF Init
    <2> QED
      BY <1>1, <2>1, <2>2, <2>3, <2>4, <2>5 DEF TypeOK
  <1>4. Exclusive
    BY <1>1, NoLocks DEF Exclusive
  <1>5. Held
    BY <1>1, KnowsIdle DEF Held
  <1>6. Copied
    BY <1>1 DEF Copied, Progress, Published, Idle
  <1>7. Numbering
    BY <1>1 DEF Numbering, Taken
  <1>8. Telling /\ Leading
    BY <1>1, <1>2 DEF Init, Telling, IsTold, Leading
  <1>9. Followed
    BY <1>2 DEF Followed, ExecutionIsNotMissed, Missed, OfBuild
  <1> QED
    BY <1>3, <1>4, <1>5, <1>6, <1>7, <1>8, <1>9 DEF IInv

\* ... and every step keeps it.
LEMMA Goes ==
    ASSUME IInv, [Next]_vars
    PROVE  IInv'
  <1>1. TypeOK' /\ Exclusive' /\ Held' /\ Copied'
    BY TypesStep, LocksStep, HeldStep, CopiedStep DEF IInv
  <1>2. Numbering' /\ Telling' /\ Leading' /\ Followed'
    BY NumberingStep, TellingStep, LeadingStep, FollowedStep DEF IInv
  <1> QED
    BY <1>1, <1>2 DEF IInv

\* The parts of the inductive invariant say all that is promised of the log.
LEMMA StatusIsTold ==
    ASSUME TypeOK, Telling, Leading
    PROVE  LogTellsStatus
  <1>1. ASSUME NEW l \in Labels, NEW k \in Kinds
        PROVE  Cardinality(EventsOf(l, k)) <= 1
    <2>1. CASE EventsOf(l, k) = {}
      BY <2>1, FS_EmptySet
    <2>2. CASE EventsOf(l, k) # {}
      <3>1. PICK e : e \in EventsOf(l, k)
        BY <2>2
      <3>2. EventsOf(l, k) = {e}
        BY <3>1 DEF EventsOf, Telling
      <3>3. Cardinality({e}) = 1
        BY FS_Singleton
      <3> QED
        BY <3>2, <3>3
    <2> QED
      BY <2>1, <2>2
  <1>2. ASSUME NEW l \in Labels
        PROVE  Told(l) = IF l \notin DOMAIN release THEN {}
                         ELSE CASE release[l].status = "READY_FOR_APPROVAL" -> {"candidate"}
                                [] release[l].status = "APPROVED" -> {"candidate", "approved"}
                                [] OTHER -> {"candidate", "approved", "published"}
    <2>1. \A k \in Kinds : k \in Told(l) <=> IsTold(l, k)
      BY DEF Told, EventsOf, IsTold
    <2>2. /\ "execution" \notin Told(l)
          /\ "candidate" \in Told(l) <=> l \in DOMAIN release
          /\ "approved" \in Told(l) <=>
               l \in DOMAIN release /\ release[l].status \in {"APPROVED", "PUBLISHED"}
          /\ "published" \in Told(l) <=>
               l \in DOMAIN release /\ release[l].status = "PUBLISHED"
      BY <2>1 DEF Telling, Kinds
    <2>3. Told(l) \subseteq {"execution", "candidate", "approved", "published"}
      BY DEF Told, Kinds
    <2>4. l \in DOMAIN release =>
            release[l].status \in {"READY_FOR_APPROVAL", "APPROVED", "PUBLISHED"}
      BY DEF TypeOK, Rows
    <2> HIDE DEF Told
    <2>5. CASE l \notin DOMAIN release
      BY <2>2, <2>3, <2>5
    <2>6. CASE l \in DOMAIN release /\ release[l].status = "READY_FOR_APPROVAL"
      BY <2>2, <2>3, <2>6
    <2>7. CASE l \in DOMAIN release /\ release[l].status = "APPROVED"
      BY <2>2, <2>3, <2>7
    <2>8. CASE l \in DOMAIN release /\ release[l].status = "PUBLISHED"
      BY <2>2, <2>3, <2>8
    <2> QED
      BY <2>4, <2>5, <2>6, <2>7, <2>8
  <1>3. ASSUME NEW l \in Labels
        PROVE  activeRelease = l <=>
                 \E e \in EventsOf(l, "published") :
                   \A d \in log : d.kind = "published" => d.sequence <= e.sequence
    <2>1. ASSUME activeRelease = l
          PROVE  \E e \in EventsOf(l, "published") :
                   \A d \in log : d.kind = "published" => d.sequence <= e.sequence
      BY <2>1, ReleaseAssumption DEF Leading, EventsOf
    <2>2. ASSUME NEW e \in EventsOf(l, "published"),
                 \A d \in log : d.kind = "published" => d.sequence <= e.sequence
          PROVE  activeRelease = l
      <3>1. e \in log /\ e.kind = "published" /\ e.label = l
        BY DEF EventsOf
      <3>2. PICK d \in log : /\ d.kind = "published" /\ d.label = activeRelease
                             /\ \A c \in log : c.kind = "published" => c.sequence <= d.sequence
        BY <3>1 DEF Leading
      <3>3. d.sequence \in Nat /\ e.sequence \in Nat
        BY <3>1, <3>2 DEF TypeOK, LogTypeOK, IsEvent
      <3>4. d.sequence = e.sequence
        BY <2>2, <3>1, <3>2, <3>3
      <3> QED
        BY <3>1, <3>2, <3>4 DEF TypeOK, LogTypeOK
    <2> QED
      BY <2>1, <2>2
  <1> QED
    BY <1>1, <1>2, <1>3 DEF LogTellsStatus

\* Every reachable state satisfies the inductive invariant.
THEOREM Invariance == Spec => []IInv
  BY Starts, Goes, PTL DEF Spec

\* Sessions, rows, objects and the log keep their types, a release's build has
\* succeeded, and a sequence number is given once, whoever races whom.
THEOREM TypesHold == Spec => []TypeOK
  <1>1. IInv => TypeOK
    BY DEF IInv
  <1> QED
    BY <1>1, Invariance, PTL

\* Whatever is damaged, lost or uploaded late, a published release stands in the
\* release store with its assets, its manifest and its verification as they should be.
THEOREM PublishedStaysWhole == Spec => []PublishedIsWhole
  <1>1. IInv => PublishedIsWhole
    BY DEF IInv, Copied, Whole, PublishedIsWhole, Verified, Proofs
  <1> QED
    BY <1>1, Invariance, PTL

\* However the requests of a project race, each release is inserted, approved and
\* published once, and the active one is the one published last.
THEOREM StatusIsLogged == Spec => []LogTellsStatus
  <1>1. IInv => LogTellsStatus
    BY StatusIsTold DEF IInv
  <1> QED
    BY <1>1, Invariance, PTL

\* A stream that resumes after a sequence number has sent every row of its build's
\* execution up to there: the row of the build orders their numbers and commits.
THEOREM ExecutionArrives == Spec => []ExecutionIsNotMissed
  <1>1. IInv => ExecutionIsNotMissed
    BY DEF IInv, Followed
  <1> QED
    BY <1>1, Invariance, PTL

=============================================================================
