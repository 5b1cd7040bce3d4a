--------------------------- MODULE Sources_proofs ---------------------------
(***************************************************************************)
(* Proofs about Sources, for every set of uploads and every bound: the     *)
(* types, one source version for each completed upload, an intent that     *)
(* only moves forward, and a confirmation that has seen the object.        *)
(***************************************************************************)
EXTENDS Sources, Revisions_proofs, SequenceTheorems

\* What was done to a key, and the statuses of an event row.
Operations == {"right", "wrong", "delete"}
EventStatuses == {"RECEIVED", "CONFIRMED", "PROCESSED"}

\* The types of the variables that TypeOK leaves open.
Shapes ==
    /\ intent \in [Uploads -> IntentStatuses]
    /\ older \in [Uploads -> SUBSET Uploads]
    /\ log \in [Uploads -> Seq(Operations)]
    /\ DOMAIN rows \subseteq Uploads \X Nat
    /\ rows \in [DOMAIN rows -> EventStatuses]
    /\ versions \in Seq(Uploads)
    /\ faults \in 0..MaxFaults

\* An event row is about something that was done to the key, or is the discovery.
EventsWere == \A e \in DOMAIN rows : IsEvent(e)

\* The key held the announced object, now or before.
WasThere(u) == \E i \in DOMAIN log[u] : log[u][i] = "right"

AnyItem == [state : {"NONE", "QUEUED", "READ", "DONE", "DEAD"}, event : Nat, tries : Nat,
            late : BOOLEAN]

\* An item is tried once more than the limit for each fault, at most; it is about an
\* event of its family; and the worker that has read a creation saw the object.
ItemFine(u, f, item) ==
    /\ item \in AnyItem
    /\ item.tries <= MaxAttempts + faults
    /\ item.state = "QUEUED" => item.tries < MaxAttempts + faults
    /\ f # "finalize" /\ item.state # "NONE" =>
         <<u, item.event>> \in DOMAIN rows /\ FamilyOf(u, item.event) = f
    /\ f = "create" /\ (item.state = "READ" \/ item.late) => WasThere(u)

ItemsFine ==
    /\ items \in [Uploads \X Families -> AnyItem]
    /\ \A u \in Uploads, f \in Families : ItemFine(u, f, items[<<u, f>>])

\* Nothing happens to a key before there is an intent for it.
Untouched ==
    \A u \in Uploads : intent[u] = "NONE" => log[u] = <<>> /\ \A e \in DOMAIN rows : e[1] # u

\* The inductive invariant.
IInv ==
    /\ Numbered /\ Shapes /\ EventsWere /\ ItemsFine /\ Untouched
    /\ OneVersionEach /\ ConfirmedWasThere

-----------------------------------------------------------------------------
(* What each variable's change keeps *)

\* The log of every key is kept, and perhaps added to.
Grown ==
    \A u \in Uploads : /\ Len(log[u]) <= Len(log'[u])
                       /\ \A i \in 1..Len(log[u]) : log'[u][i] = log[u][i]

\* The bounds are numbers.
LEMMA Bounds == MaxAttempts \in Nat \ {0} /\ MaxFaults \in Nat
  BY SourcesAssumption

\* A log is a sequence of operations.
LEMMA LogIs ==
    ASSUME Shapes, NEW u \in Uploads
    PROVE  /\ log[u] \in Seq(Operations) /\ Len(log[u]) \in Nat
           /\ DOMAIN log[u] = 1..Len(log[u])
  BY DEF Shapes

\* What stands in a log stays there.
LEMMA GrownKeeps ==
    ASSUME Shapes, Shapes', Grown, NEW u \in Uploads
    PROVE  /\ WasThere(u) => WasThere(u)'
           /\ \A n \in 0..Len(log[u]) : n \in 0..Len(log'[u]) /\ FamilyOf(u, n)' = FamilyOf(u, n)
  <1> DEFINE k == Len(log[u])
             m == Len(log'[u])
  <1>1. /\ k \in Nat /\ DOMAIN log[u] = 1..k
        /\ m \in Nat /\ DOMAIN log'[u] = 1..m
    BY LogIs DEF Shapes
  <1>2. k <= m /\ \A i \in 1..k : log'[u][i] = log[u][i]
    BY DEF Grown
  <1>3. WasThere(u) => WasThere(u)'
    <2> HIDE DEF k, m
    <2>1. \A i \in 1..k : i \in 1..m
      BY <1>1, <1>2
    <2> QED
      BY <1>1, <1>2, <2>1 DEF WasThere
  <1>4. ASSUME NEW n \in 0..k
        PROVE  n \in 0..m /\ FamilyOf(u, n)' = FamilyOf(u, n)
    <2> HIDE DEF k, m
    <2>1. n \in 0..m /\ (n > 0 => n \in 1..k)
      BY <1>1, <1>2
    <2> QED
      BY <1>2, <2>1 DEF FamilyOf
  <1> QED
    BY <1>3, <1>4

\* A log that is left alone.
LEMMA SameLog ==
    ASSUME Shapes, log' = log
    PROVE  Grown
  BY LogIs DEF Grown

\* The events of the rows there were remain events.
LEMMA EventsStay ==
    ASSUME Shapes, Shapes', Grown, EventsWere,
           \A e \in DOMAIN rows' : e \in DOMAIN rows \/ IsEvent(e)'
    PROVE  EventsWere'
  <1>1. ASSUME NEW e \in DOMAIN rows
        PROVE  IsEvent(e)'
    <2>1. e[1] \in Uploads /\ e[2] \in 0..Len(log[e[1]])
      BY DEF EventsWere, IsEvent
    <2> QED
      BY <2>1, GrownKeeps DEF IsEvent
  <1> QED
    BY <1>1 DEF EventsWere

\* An item that is left alone stays fine.
LEMMA ItemStays ==
    ASSUME Shapes, Shapes', Grown, EventsWere, faults <= faults', DOMAIN rows \subseteq DOMAIN rows',
           NEW u \in Uploads, NEW f \in Families, NEW item, ItemFine(u, f, item)
    PROVE  ItemFine(u, f, item)'
  <1>1. item \in AnyItem /\ item.tries \in Nat
    BY DEF ItemFine, AnyItem
  <1>2. faults \in Nat /\ faults' \in Nat
    BY Bounds DEF Shapes
  <1>3. item.tries <= MaxAttempts + faults'
    BY <1>1, <1>2, Bounds DEF ItemFine
  <1>4. item.state = "QUEUED" => item.tries < MaxAttempts + faults'
    BY <1>1, <1>2, Bounds DEF ItemFine
  <1>5. ASSUME f # "finalize", item.state # "NONE"
        PROVE  <<u, item.event>> \in DOMAIN rows' /\ FamilyOf(u, item.event)' = f
    <2>1. <<u, item.event>> \in DOMAIN rows /\ FamilyOf(u, item.event) = f
      BY <1>5 DEF ItemFine
    <2>2. item.event \in 0..Len(log[u])
      BY <2>1 DEF EventsWere, IsEvent
    <2> QED
      BY <2>1, <2>2, GrownKeeps
  <1>6. f = "create" /\ (item.state = "READ" \/ item.late) => WasThere(u)'
    BY GrownKeeps DEF ItemFine
  <1> QED
    BY <1>1, <1>3, <1>4, <1>5, <1>6 DEF ItemFine

\* The items, when one of them changes.
LEMMA OneItem ==
    ASSUME Shapes, Shapes', Grown, EventsWere, ItemsFine,
           faults <= faults', DOMAIN rows \subseteq DOMAIN rows',
           NEW u \in Uploads, NEW f \in Families, NEW item,
           items' = [items EXCEPT ![<<u, f>>] = item], ItemFine(u, f, item)'
    PROVE  ItemsFine'
  <1>1. item \in AnyItem
    BY DEF ItemFine
  <1>2. items' \in [Uploads \X Families -> AnyItem]
    BY <1>1 DEF ItemsFine
  <1>3. ASSUME NEW v \in Uploads, NEW g \in Families
        PROVE  ItemFine(v, g, items[<<v, g>>])' 
    <2>1. CASE v = u /\ g = f
      <3>1. items'[<<v, g>>] = item
        BY <2>1 DEF ItemsFine
      <3> QED
        BY <2>1, <3>1
    <2>2. CASE ~(v = u /\ g = f)
      <3>1. PICK other : other = items[<<v, g>>]
        OBVIOUS
      <3>2. items'[<<v, g>>] = other
        BY <2>2, <3>1 DEF ItemsFine
      <3>3. ItemFine(v, g, other)
        BY <3>1 DEF ItemsFine
      <3>4. ItemFine(v, g, other)'
        BY <3>3, ItemStays
      <3> QED
        BY <3>2, <3>4
    <2> QED
      BY <2>1, <2>2
  <1> QED
    BY <1>2, <1>3 DEF ItemsFine

\* The items, when none of them changes.
LEMMA NoItemChanges ==
    ASSUME Shapes, Shapes', Grown, EventsWere, ItemsFine,
           faults <= faults', DOMAIN rows \subseteq DOMAIN rows', items' = items
    PROVE  ItemsFine'
  <1>1. ASSUME NEW v \in Uploads, NEW g \in Families
        PROVE  ItemFine(v, g, items[<<v, g>>])'
    <2>1. PICK other : other = items[<<v, g>>]
      OBVIOUS
    <2>2. ItemFine(v, g, other)
      BY <2>1 DEF ItemsFine
    <2>3. ItemFine(v, g, other)'
      BY <2>2, ItemStays
    <2> QED
      BY <2>1, <2>3
  <1> QED
    BY <1>1 DEF ItemsFine

\* The versions, when none is added and no intent is completed.
LEMMA VersionsStay ==
    ASSUME OneVersionEach, versions' = versions, active'.image = active.image,
           \A u \in Uploads : intent'[u] = "COMPLETED" <=> intent[u] = "COMPLETED"
    PROVE  OneVersionEach'
  BY DEF OneVersionEach

\* The confirmations, when none is added.
LEMMA ConfirmedStay ==
    ASSUME Shapes, Shapes', Grown, EventsWere, ConfirmedWasThere,
           \A u \in Uploads : intent[u] # "INITIATED" => intent'[u] # "INITIATED",
           \A e \in DOMAIN rows' : rows'[e] = "CONFIRMED" => e \in DOMAIN rows /\ rows[e] = "CONFIRMED"
    PROVE  ConfirmedWasThere'
  <1> SUFFICES ASSUME NEW u \in Uploads, NEW n \in 0..Len(log'[u]),
                      <<u, n>> \in DOMAIN rows', rows'[<<u, n>>] = "CONFIRMED"
               PROVE  WasThere(u)' /\ intent'[u] # "INITIATED"
    BY DEF ConfirmedWasThere, WasThere
  <1>1. <<u, n>> \in DOMAIN rows /\ rows[<<u, n>>] = "CONFIRMED"
    OBVIOUS
  <1>2. n \in 0..Len(log[u])
    BY <1>1 DEF EventsWere, IsEvent
  <1>3. WasThere(u) /\ intent[u] # "INITIATED"
    BY <1>1, <1>2 DEF ConfirmedWasThere, WasThere
  <1> QED
    BY <1>3, GrownKeeps

-----------------------------------------------------------------------------
(* Every action *)

\* Logs, rows and items are left alone; a fault may be counted.
Frame == UNCHANGED <<log, rows, items>> /\ (UNCHANGED faults \/ Fault)

\* An action that leaves logs, rows, items and versions, and completes nothing.
LEMMA QuietStep ==
    ASSUME IInv, Numbered', Frame, versions' = versions, active'.image = active.image,
           intent' \in [Uploads -> IntentStatuses], older' \in [Uploads -> SUBSET Uploads],
           \A u \in Uploads : intent'[u] = "COMPLETED" <=> intent[u] = "COMPLETED",
           \A u \in Uploads : intent[u] # "INITIATED" /\ intent'[u] = "INITIATED" => intent[u] = "NONE",
           \A u \in Uploads : intent'[u] = "NONE" => intent[u] = "NONE"
    PROVE  IInv'
  <1>1. Shapes /\ EventsWere /\ ItemsFine /\ Untouched /\ OneVersionEach /\ ConfirmedWasThere
    BY DEF IInv
  <1>2. log' = log /\ rows' = rows /\ items' = items
    BY DEF Frame
  <1>6. faults <= faults' /\ faults' \in 0..MaxFaults
    <2>1. faults \in 0..MaxFaults
      BY <1>1 DEF Shapes
    <2>2. faults' = faults \/ (faults < MaxFaults /\ faults' = faults + 1)
      BY DEF Frame, Fault
    <2> QED
      BY <2>1, <2>2, Bounds
  <1>3. Shapes'
    BY <1>1, <1>2, <1>6 DEF Shapes
  <1>4. Grown
    BY <1>1, <1>2, SameLog
  <1>5. EventsWere'
    BY <1>1, <1>2, <1>3, <1>4, EventsStay
  <1>7. ItemsFine'
    BY <1>1, <1>2, <1>3, <1>4, <1>6, NoItemChanges
  <1>8. Untouched'
    BY <1>1, <1>2 DEF Untouched
  <1>9. OneVersionEach'
    BY <1>1, VersionsStay
  <1>10. ConfirmedWasThere'
    <2> SUFFICES ASSUME NEW u \in Uploads, NEW n \in 0..Len(log[u]),
                        <<u, n>> \in DOMAIN rows, rows[<<u, n>>] = "CONFIRMED"
                 PROVE  WasThere(u) /\ intent'[u] # "INITIATED"
      BY <1>2 DEF ConfirmedWasThere, WasThere
    <2>1. WasThere(u) /\ intent[u] # "INITIATED"
      BY <1>1 DEF ConfirmedWasThere, WasThere
    <2>2. intent[u] # "NONE"
      BY <1>1 DEF Untouched
    <2> QED
      BY <2>1, <2>2
  <1> QED
    BY <1>3, <1>5, <1>7, <1>8, <1>9, <1>10 DEF IInv

\* An upload is announced.
LEMMA InitiateStep ==
    ASSUME IInv, NEW u \in Uploads, Initiate(u)
    PROVE  IInv'
  <1>1. /\ intent[u] = "NONE" /\ intent' = [intent EXCEPT ![u] = "INITIATED"]
        /\ UNCHANGED project /\ Frame /\ versions' = versions
    BY DEF Initiate, Frame
  <1>2. Numbered' /\ active' = active
    BY <1>1, ProjectStays DEF IInv
  <1>3. intent \in [Uploads -> IntentStatuses]
    BY DEF IInv, Shapes
  <1>4. intent' \in [Uploads -> IntentStatuses]
    BY <1>1, <1>3 DEF IntentStatuses
  <1>5. older' \in [Uploads -> SUBSET Uploads]
    <2>1. PICK before : before = {v \in Uploads : intent[v] # "NONE"}
      OBVIOUS
    <2>2. before \in SUBSET Uploads /\ older' = [older EXCEPT ![u] = before]
      BY <2>1 DEF Initiate
    <2> QED
      BY <2>2 DEF IInv, Shapes
  <1> QED
    BY <1>1, <1>2, <1>3, <1>4, <1>5, QuietStep

\* Its address expires.
LEMMA ExpireStep ==
    ASSUME IInv, NEW u \in Uploads, Expire(u)
    PROVE  IInv'
  <1>1. /\ intent' = intent /\ older' = older /\ versions' = versions
        /\ UNCHANGED project /\ Frame
    BY DEF Expire, Frame
  <1>2. Numbered' /\ active' = active
    BY <1>1, ProjectStays DEF IInv
  <1>3. intent' \in [Uploads -> IntentStatuses] /\ older' \in [Uploads -> SUBSET Uploads]
    BY <1>1 DEF IInv, Shapes
  <1> QED
    BY <1>1, <1>2, <1>3, QuietStep

\* The project is renamed.
LEMMA EditStep ==
    ASSUME IInv, Edit
    PROVE  IInv'
  <1>1. PICK name \in Names : Rename(name)
    BY DEF Edit
  <1>2. Numbered' /\ active' = [active EXCEPT !.name = name]
    BY <1>1, RenameStep DEF IInv
  <1>3. active \in Specs
    BY ProjectIs DEF IInv, Numbered
  <1>4. active'.image = active.image
    BY <1>2, <1>3 DEF Specs
  <1>5. intent' = intent /\ older' = older /\ Frame /\ versions' = versions
    BY DEF Edit, Frame, uploads
  <1>6. intent' \in [Uploads -> IntentStatuses] /\ older' \in [Uploads -> SUBSET Uploads]
    BY <1>5 DEF IInv, Shapes
  <1> QED
    BY <1>2, <1>4, <1>5, <1>6, QuietStep

\* The key is written or deleted.
LEMMA OperateStep ==
    ASSUME IInv, NEW u \in Uploads, NEW what \in Operations, Operate(u, what)
    PROVE  IInv'
  <1>1. Shapes /\ EventsWere /\ ItemsFine /\ Untouched /\ OneVersionEach /\ ConfirmedWasThere
    BY DEF IInv
  <1>2. /\ intent[u] # "NONE" /\ log' = [log EXCEPT ![u] = Append(@, what)]
        /\ UNCHANGED project /\ intent' = intent /\ older' = older /\ versions' = versions
        /\ rows' = rows /\ items' = items /\ faults' = faults
    BY DEF Operate, uploads
  <1>3. Numbered' /\ active' = active
    BY <1>2, ProjectStays DEF IInv
  <1>4. /\ Append(log[u], what) \in Seq(Operations)
        /\ Len(Append(log[u], what)) = Len(log[u]) + 1
        /\ \A i \in 1..Len(log[u]) : Append(log[u], what)[i] = log[u][i]
    BY <1>1, LogIs, AppendProperties
  <1>5. \A v \in Uploads : log'[v] = IF v = u THEN Append(log[u], what) ELSE log[v]
    BY <1>1, <1>2 DEF Shapes
  <1>6. Shapes'
    BY <1>1, <1>2, <1>4 DEF Shapes
  <1>7. Grown
    <2> SUFFICES ASSUME NEW v \in Uploads
                 PROVE  /\ Len(log[v]) <= Len(log'[v])
                        /\ \A i \in 1..Len(log[v]) : log'[v][i] = log[v][i]
      BY DEF Grown
    <2>1. Len(log[v]) \in Nat
      BY <1>1, LogIs
    <2>2. CASE v = u
      <3> DEFINE k == Len(log[u])
                 m == Len(Append(log[u], what))
      <3>1. log'[v] = Append(log[u], what) /\ m = k + 1 /\ k \in Nat
        BY <1>4, <1>5, <2>1, <2>2
      <3> HIDE DEF k, m
      <3>2. k <= m
        BY <3>1
      <3> QED
        BY <1>4, <2>2, <3>1, <3>2 DEF k, m
    <2>3. CASE v # u
      BY <1>5, <2>1, <2>3
    <2> QED
      BY <2>2, <2>3
  <1>8. EventsWere'
    BY <1>1, <1>2, <1>6, <1>7, EventsStay
  <1>9. faults <= faults'
    BY <1>1, <1>2, Bounds DEF Shapes
  <1>10. ItemsFine'
    BY <1>1, <1>2, <1>6, <1>7, <1>9, NoItemChanges
  <1>11. Untouched'
    BY <1>1, <1>2, <1>5 DEF Untouched
  <1>12. OneVersionEach'
    BY <1>1, <1>2, <1>3, VersionsStay
  <1>13. ConfirmedWasThere'
    BY <1>1, <1>2, <1>6, <1>7, ConfirmedStay
  <1> QED
    BY <1>3, <1>6, <1>8, <1>10, <1>11, <1>12, <1>13 DEF IInv

\* Events of uploads that were announced are received.
LEMMA ReceivedStep ==
    ASSUME IInv, NEW events,
           \A e \in events : /\ e \in Uploads \X Nat /\ IsEvent(e)
                             /\ intent[e[1]] # "NONE" /\ e \notin DOMAIN rows,
           Received(events)
    PROVE  IInv'
  <1>1. Shapes /\ EventsWere /\ ItemsFine /\ Untouched /\ OneVersionEach /\ ConfirmedWasThere
    BY DEF IInv
  <1>2. /\ rows' = [e \in DOMAIN rows \cup events |-> IF e \in events THEN "RECEIVED" ELSE rows[e]]
        /\ UNCHANGED project /\ intent' = intent /\ older' = older /\ versions' = versions
        /\ log' = log /\ faults' = faults
    BY DEF Received, uploads
  <1>3. Numbered' /\ active' = active
    BY <1>2, ProjectStays DEF IInv
  <1>4. DOMAIN rows' = DOMAIN rows \cup events
    BY <1>2
  <1>5. Shapes'
    <2>1. rows' \in [DOMAIN rows' -> EventStatuses]
      BY <1>1, <1>2, <1>4 DEF Shapes, EventStatuses
    <2> QED
      BY <1>1, <1>2, <1>4, <2>1 DEF Shapes
  <1>6. Grown
    BY <1>1, <1>2, SameLog
  <1>7. EventsWere'
    <2>1. \A e \in events : IsEvent(e)'
      BY <1>2 DEF IsEvent
    <2> QED
      BY <1>1, <1>4, <1>5, <1>6, <2>1, EventsStay
  <1>8. faults <= faults' /\ faults \in Nat
    BY <1>1, <1>2, Bounds DEF Shapes
  <1>9. ASSUME NEW v \in Uploads, NEW g \in Families
        PROVE  ItemFine(v, g, items[<<v, g>>])'
    <2>1. PICK old : old = items[<<v, g>>]
      OBVIOUS
    <2>2. ItemFine(v, g, old)
      BY <1>1, <2>1 DEF ItemsFine
    <2>3. PICK of : of = {e \in events : ItemFor(e[1], e[2]) = <<v, g>>}
      OBVIOUS
    <2>4. PICK e : e = CHOOSE x \in of : TRUE
      OBVIOUS
    <2>5. items'[<<v, g>>] = IF old.state = "NONE" /\ of # {}
                             THEN [NoItem EXCEPT !.state = "QUEUED", !.event = e[2]] ELSE old
      BY <2>1, <2>3, <2>4 DEF Received
    <2>6. CASE old.state = "NONE" /\ of # {}
      <3>1. e \in events /\ ItemFor(e[1], e[2]) = <<v, g>>
        BY <2>3, <2>4, <2>6
      <3>2. e[1] = v /\ e[2] \in Nat /\ FamilyOf(v, e[2]) = g /\ e = <<v, e[2]>>
        BY <3>1 DEF ItemFor
      <3>3. FamilyOf(v, e[2])' = g
        BY <1>2, <3>2 DEF FamilyOf
      <3>4. PICK new : new = [NoItem EXCEPT !.state = "QUEUED", !.event = e[2]]
        OBVIOUS
      <3>5. /\ new \in AnyItem /\ new.tries = 0 /\ new.state = "QUEUED" /\ new.event = e[2]
            /\ new.late = FALSE
        BY <3>2, <3>4 DEF NoItem, AnyItem
      <3>6. ItemFine(v, g, new)'
        BY <1>2, <1>4, <1>8, <3>1, <3>2, <3>3, <3>5, Bounds DEF ItemFine
      <3> QED
        BY <2>5, <2>6, <3>4, <3>6
    <2>7. CASE ~(old.state = "NONE" /\ of # {})
      <3>1. ItemFine(v, g, old)'
        BY <1>1, <1>4, <1>5, <1>6, <1>8, <2>2, ItemStays
      <3> QED
        BY <2>5, <2>7, <3>1
    <2> QED
      BY <2>6, <2>7
  <1>10. ItemsFine'
    <2>1. \A v \in Uploads, g \in Families : items'[<<v, g>>] \in AnyItem
      BY <1>9 DEF ItemFine
    <2>2. items' = [i \in Uploads \X Families |-> items'[i]]
      BY DEF Received
    <2> QED
      BY <1>9, <2>1, <2>2 DEF ItemsFine
  <1>11. Untouched'
    BY <1>1, <1>2, <1>4 DEF Untouched
  <1>12. OneVersionEach'
    BY <1>1, <1>2, <1>3, VersionsStay
  <1>13. ConfirmedWasThere'
    BY <1>1, <1>2, <1>4, <1>5, <1>6, ConfirmedStay
  <1> QED
    BY <1>3, <1>5, <1>7, <1>10, <1>11, <1>12, <1>13 DEF IInv

\* A notification arrives.
LEMMA DeliverStep ==
    ASSUME IInv, NEW u \in Uploads, NEW n \in DOMAIN log[u], Deliver(u, n)
    PROVE  IInv'
  <1>1. PICK events : events = {<<u, n>>}
    OBVIOUS
  <1>2. /\ Shapes /\ Untouched /\ Len(log[u]) \in Nat /\ DOMAIN log[u] = 1..Len(log[u])
        /\ n \in Nat /\ n \in 0..Len(log[u]) /\ log[u] # <<>>
    BY LogIs DEF IInv
  <1>3. intent[u] # "NONE"
    BY <1>2 DEF Untouched
  <1>4. Received(events) /\ <<u, n>> \notin DOMAIN rows
    BY <1>1 DEF Deliver
  <1>5. \A e \in events : /\ e \in Uploads \X Nat /\ IsEvent(e)
                          /\ intent[e[1]] # "NONE" /\ e \notin DOMAIN rows
    BY <1>1, <1>2, <1>3, <1>4 DEF IsEvent
  <1> QED
    BY <1>4, <1>5, ReceivedStep

\* A pass of the reconciler finds objects that no event told of.
LEMMA ReconcileStep ==
    ASSUME IInv, NEW skipped, Reconcile(skipped)
    PROVE  IInv'
  <1>1. PICK found : found = {u \in Batch(skipped) \cap Watched :
                                Object(u) # "absent" /\ ~AlreadyConfirmed(u)}
    OBVIOUS
  <1>2. PICK events : events = found \X {0}
    OBVIOUS
  <1>3. Received(events)
    BY <1>1, <1>2 DEF Reconcile
  <1>4. ASSUME NEW u \in found
        PROVE  /\ u \in Uploads /\ 0 \in 0..Len(log[u])
               /\ intent[u] = "INITIATED" /\ <<u, 0>> \notin DOMAIN rows
    <2>1. u \in Uploads /\ intent[u] = "INITIATED" /\ ~AlreadyConfirmed(u)
      BY <1>1 DEF Batch
    <2>2. 0 \in 0..Len(log[u])
      BY <2>1, LogIs DEF IInv
    <2>3. FamilyOf(u, 0) = "create"
      BY DEF FamilyOf
    <2> QED
      BY <2>1, <2>2, <2>3 DEF AlreadyConfirmed
  <1>5. \A e \in events : /\ e \in Uploads \X Nat /\ IsEvent(e)
                          /\ intent[e[1]] # "NONE" /\ e \notin DOMAIN rows
    BY <1>2, <1>4 DEF IsEvent
  <1> QED
    BY <1>3, <1>5, ReceivedStep

\* A pass of the reconciler fails.
LEMMA ReconcileFailsStep ==
    ASSUME IInv, ReconcileFails
    PROVE  IInv'
  <1>1. /\ intent' = intent /\ older' = older /\ versions' = versions
        /\ UNCHANGED project /\ Frame
    BY DEF ReconcileFails, Frame, uploads
  <1>2. Numbered' /\ active' = active
    BY <1>1, ProjectStays DEF IInv
  <1>3. intent' \in [Uploads -> IntentStatuses] /\ older' \in [Uploads -> SUBSET Uploads]
    BY <1>1 DEF IInv, Shapes
  <1> QED
    BY <1>1, <1>2, <1>3, QuietStep

\* The versions, when an upload that had none becomes one.
LEMMA VersionAdded ==
    ASSUME Shapes, OneVersionEach, NEW u \in Uploads, intent[u] # "COMPLETED",
           versions' = Append(versions, u), intent' = [intent EXCEPT ![u] = "COMPLETED"],
           active'.image = FileOf[u].content
    PROVE  versions' \in Seq(Uploads) /\ OneVersionEach'
  <1> DEFINE k == Len(versions)
             At(v) == {i \in DOMAIN versions : versions[i] = v}
  <1>1. /\ versions \in Seq(Uploads) /\ k \in Nat /\ DOMAIN versions = 1..k
        /\ intent \in [Uploads -> IntentStatuses]
    BY DEF Shapes
  <1>2. /\ versions' \in Seq(Uploads) /\ versions' # <<>> /\ Len(versions') = k + 1
        /\ \A i \in 1..k : versions'[i] = versions[i]
        /\ versions'[k + 1] = u
    BY <1>1, AppendProperties
  <1>3. DOMAIN versions' = 1..(k + 1)
    BY <1>2
  <1> HIDE DEF k
  <1>4. k + 1 \notin 1..k /\ 1..(k + 1) = 1..k \cup {k + 1}
    BY <1>1
  <1>5. At(u) = {}
    <2>1. At(u) \subseteq 1..k
      BY <1>1
    <2>2. IsFiniteSet(1..k)
      BY <1>1, FS_Interval
    <2>3. IsFiniteSet(At(u))
      BY <2>1, <2>2, FS_Subset
    <2>4. Cardinality(At(u)) = 0
      BY DEF OneVersionEach
    <2> HIDE DEF At
    <2> QED
      BY <2>3, <2>4, FS_EmptySet
  <1>6. ASSUME NEW v \in Uploads
        PROVE  Cardinality({i \in DOMAIN versions' : versions'[i] = v})
                 = IF intent'[v] = "COMPLETED" THEN 1 ELSE 0
    <2>1. CASE v = u
      <3>1. {i \in DOMAIN versions' : versions'[i] = v} = {k + 1}
        BY <1>1, <1>2, <1>3, <1>4, <1>5, <2>1
      <3>2. Cardinality({k + 1}) = 1
        BY FS_Singleton
      <3>3. intent'[v] = "COMPLETED"
        BY <1>1, <2>1
      <3> QED
        BY <3>1, <3>2, <3>3
    <2>2. CASE v # u
      <3>1. {i \in DOMAIN versions' : versions'[i] = v} = At(v)
        BY <1>1, <1>2, <1>3, <1>4, <2>2
      <3>2. intent'[v] = intent[v]
        BY <1>1, <2>2
      <3> QED
        BY <3>1, <3>2 DEF OneVersionEach
    <2> QED
      BY <2>1, <2>2
  <1>7. versions'[Len(versions')] = u
    BY <1>2
  <1> QED
    BY <1>2, <1>6, <1>7 DEF OneVersionEach

\* The upload is completed, or is refused after its canonical object was written.
LEMMA CompleteStep ==
    ASSUME IInv, NEW u \in Uploads, Complete(u)
    PROVE  IInv'
  <1> DEFINE content == FileOf[u].content
  <1>1. Shapes /\ EventsWere /\ ItemsFine /\ Untouched /\ OneVersionEach /\ ConfirmedWasThere
    BY DEF IInv
  <1>2. /\ intent[u] \notin {"NONE", "COMPLETED"}
        /\ log' = log /\ rows' = rows /\ older' = older /\ faults' = faults
    BY DEF Complete, Open
  <1>3. CASE UNCHANGED <<project, assets, versions, items, intent>>
    <2>1. Numbered' /\ active' = active
      BY <1>3, ProjectStays DEF IInv
    <2>2. Frame /\ versions' = versions /\ intent' = intent
      BY <1>2, <1>3 DEF Frame
    <2>3. intent' \in [Uploads -> IntentStatuses] /\ older' \in [Uploads -> SUBSET Uploads]
      BY <1>1, <1>2, <2>2 DEF Shapes
    <2> QED
      BY <2>1, <2>2, <2>3, QuietStep
  <1>4. ASSUME Upload(content), versions' = Append(versions, u),
               items' = [items EXCEPT ![<<u, "finalize">>] = [NoItem EXCEPT !.state = "QUEUED"]],
               intent' = [intent EXCEPT ![u] = "COMPLETED"]
        PROVE  IInv'
    <2>1. content \in Images
      BY SourcesAssumption
    <2>2. Numbered' /\ active' = [active EXCEPT !.image = content]
      BY <1>4, <2>1, UploadStep DEF IInv
    <2>3. active'.image = content
      <3>1. active \in Specs
        BY ProjectIs DEF IInv, Numbered
      <3> QED
        BY <2>2, <3>1 DEF Specs
    <2>4. versions' \in Seq(Uploads) /\ OneVersionEach'
      BY <1>1, <1>2, <1>4, <2>3, VersionAdded
    <2>5. \A v \in Uploads : intent'[v] = IF v = u THEN "COMPLETED" ELSE intent[v]
      BY <1>1, <1>4 DEF Shapes
    <2>6. intent' \in [Uploads -> IntentStatuses]
      BY <1>1, <1>4 DEF Shapes, IntentStatuses
    <2>7. Shapes'
      BY <1>1, <1>2, <2>4, <2>6 DEF Shapes
    <2>8. Grown
      BY <1>1, <1>2, SameLog
    <2>9. EventsWere'
      BY <1>1, <1>2, <2>7, <2>8, EventsStay
    <2>10. faults <= faults' /\ faults \in Nat
      BY <1>1, <1>2, Bounds DEF Shapes
    <2>11. ItemsFine'
      <3>1. PICK new : new = [NoItem EXCEPT !.state = "QUEUED"]
        OBVIOUS
      <3>2. new \in AnyItem /\ new.tries = 0 /\ new.state = "QUEUED" /\ new.late = FALSE
        BY <3>1 DEF NoItem, AnyItem
      <3>3. ItemFine(u, "finalize", new)'
        BY <1>2, <2>10, <3>2, Bounds DEF ItemFine
      <3>4. items' = [items EXCEPT ![<<u, "finalize">>] = new]
        BY <1>4, <3>1
      <3>5. "finalize" \in Families
        BY DEF Families
      <3> QED
        BY <1>1, <1>2, <2>7, <2>8, <2>10, <3>3, <3>4, <3>5, OneItem
    <2>12. Untouched'
      BY <1>1, <1>2, <2>5 DEF Untouched
    <2>13. ConfirmedWasThere'
      BY <1>1, <1>2, <2>5, <2>7, <2>8, ConfirmedStay
    <2> QED
      BY <2>2, <2>4, <2>7, <2>9, <2>11, <2>12, <2>13 DEF IInv
  <1> QED
    BY <1>3, <1>4 DEF Complete

\* An item changes, and the faults are counted; nothing is recorded.
LEMMA WorkStep ==
    ASSUME IInv, NEW u \in Uploads, NEW f \in Families, NEW item,
           items' = [items EXCEPT ![<<u, f>>] = item], ItemFine(u, f, item)',
           faults <= faults', faults' \in 0..MaxFaults, UNCHANGED <<project, uploads, log, rows>>
    PROVE  IInv'
  <1>1. Shapes /\ EventsWere /\ ItemsFine /\ Untouched /\ OneVersionEach /\ ConfirmedWasThere
    BY DEF IInv
  <1>2. /\ UNCHANGED project /\ log' = log /\ rows' = rows
        /\ intent' = intent /\ older' = older /\ versions' = versions
    BY DEF uploads
  <1>3. Numbered' /\ active' = active
    BY <1>2, ProjectStays DEF IInv
  <1>4. Shapes'
    BY <1>1, <1>2 DEF Shapes
  <1>5. Grown
    BY <1>1, <1>2, SameLog
  <1>6. EventsWere'
    BY <1>1, <1>2, <1>4, <1>5, EventsStay
  <1>7. ItemsFine'
    BY <1>1, <1>2, <1>4, <1>5, OneItem
  <1>8. Untouched'
    BY <1>1, <1>2 DEF Untouched
  <1>9. OneVersionEach'
    BY <1>1, <1>2, <1>3, VersionsStay
  <1>10. ConfirmedWasThere'
    BY <1>1, <1>2, <1>4, <1>5, ConfirmedStay
  <1> QED
    BY <1>3, <1>4, <1>6, <1>7, <1>8, <1>9, <1>10 DEF IInv

\* A failed attempt is one try more, and the item is queued again below the limit.
LEMMA FailedIs ==
    ASSUME NEW item \in AnyItem
    PROVE  /\ Failed(item) \in AnyItem /\ Failed(item).tries = item.tries + 1
           /\ Failed(item).event = item.event /\ Failed(item).late = item.late
           /\ Failed(item).state \in {"QUEUED", "DEAD"}
           /\ Failed(item).state = "QUEUED" => item.tries + 1 < MaxAttempts
  <1>1. item.tries \in Nat /\ item.tries + 1 \in Nat
    BY DEF AnyItem
  <1> QED
    BY <1>1 DEF Failed, AnyItem

\* An item is claimed and its object is looked at.
LEMMA ReadStep ==
    ASSUME IInv, NEW u \in Uploads, NEW f \in Families, Read(u, f)
    PROVE  IInv'
  <1>1. PICK old : old = items[<<u, f>>]
    OBVIOUS
  <1>2. /\ old.state = "QUEUED" /\ ItemFine(u, f, old) /\ old \in AnyItem
        /\ old.tries \in Nat /\ old.tries < MaxAttempts + faults
    BY <1>1 DEF Read, IInv, ItemsFine, ItemFine, AnyItem
  <1>3. UNCHANGED <<project, uploads, log, rows>> /\ log' = log /\ rows' = rows
    BY DEF Read
  <1>4. faults \in 0..MaxFaults /\ faults \in Nat /\ MaxFaults \in Nat /\ MaxAttempts \in Nat
    BY Bounds DEF IInv, Shapes
  <1>5. \A e : IsEvent(e)' <=> IsEvent(e)
    BY <1>3 DEF IsEvent
  <1>6. f # "finalize" => <<u, old.event>> \in DOMAIN rows /\ FamilyOf(u, old.event) = f
    BY <1>2 DEF ItemFine
  <1>7. f # "finalize" => <<u, old.event>> \in DOMAIN rows' /\ FamilyOf(u, old.event)' = f
    BY <1>3, <1>6 DEF FamilyOf
  <1>8. f = "create" /\ old.late => WasThere(u)'
    BY <1>2, <1>3 DEF ItemFine, WasThere
  <1>9. CASE SetItem(u, f, [items[<<u, f>>] EXCEPT !.state = "DONE"]) /\ faults' = faults
    <2>1. PICK new : new = [old EXCEPT !.state = "DONE"]
      OBVIOUS
    <2>2. /\ new \in AnyItem /\ new.tries = old.tries /\ new.event = old.event
          /\ new.state = "DONE" /\ new.late = old.late
      BY <1>2, <2>1 DEF AnyItem
    <2>3. ItemFine(u, f, new)'
      BY <1>2, <1>4, <1>7, <1>8, <1>9, <2>2 DEF ItemFine
    <2>4. items' = [items EXCEPT ![<<u, f>>] = new]
      BY <1>1, <1>9, <2>1 DEF SetItem
    <2>5. faults <= faults' /\ faults' \in 0..MaxFaults
      BY <1>4, <1>9
    <2> QED
      BY <1>3, <2>3, <2>4, <2>5, WorkStep
  <1>10. CASE /\ Holds(u, f) /\ faults' = faults
              /\ SetItem(u, f, [items[<<u, f>>] EXCEPT !.state = "READ", !.tries = @ + 1])
    <2>1. PICK new : new = [old EXCEPT !.state = "READ", !.tries = @ + 1]
      OBVIOUS
    <2>2. /\ new \in AnyItem /\ new.tries = old.tries + 1 /\ new.event = old.event
          /\ new.state = "READ" /\ new.late = old.late
      <3>1. old.tries + 1 \in Nat
        BY <1>2
      <3> QED
        BY <1>2, <2>1, <3>1 DEF AnyItem
    <2>3. f = "create" => WasThere(u)'
      <3>1. f = "create" => Object(u) = "right"
        BY <1>10 DEF Holds, Matches
      <3>2. Len(log[u]) \in Nat /\ DOMAIN log[u] = 1..Len(log[u]) /\ log[u] \in Seq(Operations)
        BY LogIs DEF IInv
      <3>3. log[u] # <<>> => Len(log[u]) \in 1..Len(log[u])
        BY <3>2
      <3>4. f = "create" => log[u] # <<>> /\ log[u][Len(log[u])] = "right"
        BY <3>1 DEF Object
      <3> QED
        BY <1>3, <3>2, <3>3, <3>4 DEF WasThere
    <2>4. new.tries <= MaxAttempts + faults'
      BY <1>2, <1>4, <1>10, <2>2
    <2>5. ItemFine(u, f, new)'
      BY <1>7, <2>2, <2>3, <2>4 DEF ItemFine
    <2>6. items' = [items EXCEPT ![<<u, f>>] = new]
      BY <1>1, <1>10, <2>1 DEF SetItem
    <2>7. faults <= faults' /\ faults' \in 0..MaxFaults
      BY <1>4, <1>10
    <2> QED
      BY <1>3, <2>5, <2>6, <2>7, WorkStep
  <1>11. CASE SetItem(u, f, Failed(items[<<u, f>>])) /\ (faults' = faults \/ Fault)
    <2>1. PICK new : new = Failed(old)
      OBVIOUS
    <2>2. /\ new \in AnyItem /\ new.tries = old.tries + 1 /\ new.event = old.event
          /\ new.state \in {"QUEUED", "DEAD"} /\ new.late = old.late
          /\ new.state = "QUEUED" => new.tries < MaxAttempts
      BY <1>2, <2>1, FailedIs
    <2>3. faults <= faults' /\ faults' \in 0..MaxFaults /\ faults' \in Nat
      BY <1>4, <1>11 DEF Fault
    <2>4. /\ new.tries <= MaxAttempts + faults'
          /\ new.state = "QUEUED" => new.tries < MaxAttempts + faults'
      BY <1>2, <1>4, <2>2, <2>3
    <2>5. ItemFine(u, f, new)'
      BY <1>7, <1>8, <2>2, <2>4 DEF ItemFine
    <2>6. items' = [items EXCEPT ![<<u, f>>] = new]
      BY <1>1, <1>11, <2>1 DEF SetItem
    <2> QED
      BY <1>3, <2>3, <2>5, <2>6, WorkStep
  <1> QED
    BY <1>9, <1>10, <1>11 DEF Read

\* A lease expires, under a worker that may yet record what it has read.
LEMMA LoseLeaseStep ==
    ASSUME IInv, NEW u \in Uploads, NEW f \in Families, LoseLease(u, f)
    PROVE  IInv'
  <1>1. PICK old : old = items[<<u, f>>]
    OBVIOUS
  <1>2. /\ old.state = "READ" /\ ItemFine(u, f, old) /\ old \in AnyItem
        /\ old.tries \in Nat /\ old.tries <= MaxAttempts + faults
    BY <1>1 DEF LoseLease, IInv, ItemsFine, ItemFine, AnyItem
  <1>3. /\ UNCHANGED <<project, uploads, log, rows>> /\ log' = log /\ rows' = rows
        /\ Fault
    BY DEF LoseLease
  <1>4. PICK alive \in BOOLEAN :
          SetItem(u, f, [items[<<u, f>>] EXCEPT !.state = "QUEUED", !.late = alive])
    BY DEF LoseLease
  <1>5. /\ faults \in Nat /\ faults' = faults + 1 /\ faults' \in 0..MaxFaults
        /\ MaxAttempts \in Nat
    BY <1>3, Bounds DEF IInv, Shapes, Fault
  <1>6. PICK new : new = [old EXCEPT !.state = "QUEUED", !.late = alive]
    OBVIOUS
  <1>7. /\ new \in AnyItem /\ new.tries = old.tries /\ new.event = old.event
        /\ new.state = "QUEUED"
    BY <1>2, <1>6 DEF AnyItem
  <1>8. f # "finalize" => <<u, old.event>> \in DOMAIN rows' /\ FamilyOf(u, old.event)' = f
    BY <1>2, <1>3 DEF ItemFine, FamilyOf
  <1>9. f = "create" => WasThere(u)'
    BY <1>2, <1>3 DEF ItemFine, WasThere
  <1>10. new.tries < MaxAttempts + faults' /\ new.tries <= MaxAttempts + faults'
    BY <1>2, <1>5, <1>7
  <1>11. ItemFine(u, f, new)'
    BY <1>7, <1>8, <1>9, <1>10 DEF ItemFine
  <1>12. items' = [items EXCEPT ![<<u, f>>] = new]
    BY <1>1, <1>4, <1>6 DEF SetItem
  <1>13. faults <= faults'
    BY <1>5
  <1> QED
    BY <1>3, <1>5, <1>11, <1>12, <1>13, WorkStep

\* How an item's record moves the row of its event and the intent.
LEMMA AppliedIs ==
    ASSUME IInv, NEW u \in Uploads, NEW f \in Families, Applied(u, f),
           NEW old, old = items[<<u, f>>], old.state = "READ" \/ old.late
    PROVE  /\ intent' \in [Uploads -> IntentStatuses]
           /\ DOMAIN rows' = DOMAIN rows /\ rows' \in [DOMAIN rows -> EventStatuses]
           /\ \A v \in Uploads : \/ intent'[v] = intent[v]
                                 \/ <<intent[v], intent'[v]>> \in Forward
                                      /\ intent'[v] \in {"UPLOADED", "DELETED"}
           /\ \A e \in DOMAIN rows : rows'[e] = "CONFIRMED" =>
                \/ rows[e] = "CONFIRMED"
                \/ e = <<u, old.event>> /\ WasThere(u) /\ intent'[u] # "INITIATED"
  <1>1. intent \in [Uploads -> IntentStatuses] /\ rows \in [DOMAIN rows -> EventStatuses]
    BY DEF IInv, Shapes
  <1>2. CASE UNCHANGED <<rows, intent>>
    BY <1>1, <1>2
  <1>3. CASE /\ f = "create"
             /\ rows' = [rows EXCEPT ![<<u, items[<<u, f>>].event>>] = "CONFIRMED"]
             /\ intent' = [intent EXCEPT ![u] =
                             IF @ \notin {"INITIATED"} THEN @ ELSE "UPLOADED"]
    <2>1. WasThere(u)
      BY <1>3 DEF IInv, ItemsFine, ItemFine
    <2>2. \A v \in Uploads : intent'[v] = IF v = u /\ intent[v] = "INITIATED" THEN "UPLOADED"
                                          ELSE intent[v]
      BY <1>1, <1>3
    <2>3. intent' \in [Uploads -> IntentStatuses]
      BY <1>1, <1>3 DEF IntentStatuses
    <2>4. \A v \in Uploads : \/ intent'[v] = intent[v]
                             \/ <<intent[v], intent'[v]>> \in Forward
                                  /\ intent'[v] \in {"UPLOADED", "DELETED"}
      BY <2>2 DEF Forward
    <2>5. /\ DOMAIN rows' = DOMAIN rows /\ rows' \in [DOMAIN rows -> EventStatuses]
          /\ \A e \in DOMAIN rows : e # <<u, old.event>> => rows'[e] = rows[e]
      BY <1>1, <1>3 DEF EventStatuses
    <2>6. intent'[u] # "INITIATED"
      BY <2>2
    <2> QED
      BY <2>1, <2>3, <2>4, <2>5, <2>6
  <1>4. CASE /\ f = "delete"
             /\ rows' = [rows EXCEPT ![<<u, items[<<u, f>>].event>>] = "PROCESSED"]
             /\ intent' = [intent EXCEPT ![u] =
                             IF @ \notin {"INITIATED", "UPLOADED"} THEN @ ELSE "DELETED"]
    <2>2. \A v \in Uploads : intent'[v] = IF v = u /\ intent[v] \in {"INITIATED", "UPLOADED"}
                                          THEN "DELETED" ELSE intent[v]
      BY <1>1, <1>4
    <2>3. intent' \in [Uploads -> IntentStatuses]
      BY <1>1, <1>4 DEF IntentStatuses
    <2>4. \A v \in Uploads : \/ intent'[v] = intent[v]
                             \/ <<intent[v], intent'[v]>> \in Forward
                                  /\ intent'[v] \in {"UPLOADED", "DELETED"}
      BY <2>2 DEF Forward
    <2>5. /\ DOMAIN rows' = DOMAIN rows /\ rows' \in [DOMAIN rows -> EventStatuses]
          /\ \A e \in DOMAIN rows : rows'[e] = "CONFIRMED" => rows[e] = "CONFIRMED"
      BY <1>1, <1>4 DEF EventStatuses
    <2> QED
      BY <2>3, <2>4, <2>5
  <1> QED
    BY <1>2, <1>3, <1>4 DEF Applied, From, Families

\* What was read is recorded, in time or late.
LEMMA RecordStep ==
    ASSUME IInv, NEW u \in Uploads, NEW f \in Families, Record(u, f)
    PROVE  IInv'
  <1>1. Shapes /\ EventsWere /\ ItemsFine /\ Untouched /\ OneVersionEach /\ ConfirmedWasThere
    BY DEF IInv
  <1>2. PICK old : old = items[<<u, f>>]
    OBVIOUS
  <1>3. /\ Applied(u, f) /\ (old.state = "READ" \/ old.late)
        /\ UNCHANGED project /\ log' = log /\ older' = older /\ versions' = versions
        /\ faults' = faults
    BY <1>2 DEF Record
  <1>4. /\ intent' \in [Uploads -> IntentStatuses]
        /\ DOMAIN rows' = DOMAIN rows /\ rows' \in [DOMAIN rows -> EventStatuses]
        /\ \A v \in Uploads : \/ intent'[v] = intent[v]
                              \/ <<intent[v], intent'[v]>> \in Forward
                                   /\ intent'[v] \in {"UPLOADED", "DELETED"}
        /\ \A e \in DOMAIN rows : rows'[e] = "CONFIRMED" =>
             \/ rows[e] = "CONFIRMED"
             \/ e = <<u, old.event>> /\ WasThere(u) /\ intent'[u] # "INITIATED"
    BY <1>2, <1>3, AppliedIs
  <1>5. Numbered' /\ active' = active
    BY <1>3, ProjectStays DEF IInv
  <1>6. Shapes'
    BY <1>1, <1>3, <1>4 DEF Shapes
  <1>7. Grown
    BY <1>1, <1>3, SameLog
  <1>8. EventsWere'
    BY <1>1, <1>4, <1>6, <1>7, EventsStay
  <1>9. faults <= faults'
    BY <1>1, <1>3, Bounds DEF Shapes
  <1>10. ItemsFine'
    <2>1. ItemFine(u, f, old) /\ old \in AnyItem
      BY <1>1, <1>2 DEF ItemsFine, ItemFine
    <2>2. PICK new : /\ items' = [items EXCEPT ![<<u, f>>] = new]
                     /\ \/ old.state = "READ" /\ new = [old EXCEPT !.state = "DONE"]
                        \/ new = [old EXCEPT !.late = FALSE]
      BY <1>2 DEF Record, SetItem
    <2>3. /\ new \in AnyItem /\ new.tries = old.tries /\ new.event = old.event
          /\ new.state = old.state \/ new.state = "DONE"
          /\ new.late => old.late
      BY <2>1, <2>2 DEF AnyItem
    <2>5. new.state = "DONE" => old.state = "READ" \/ old.state = "DONE"
      BY <2>1, <2>2 DEF AnyItem
    <2>6. ItemFine(u, f, new)
      BY <2>1, <2>3, <2>5 DEF ItemFine
    <2>7. ItemFine(u, f, new)'
      BY <1>1, <1>4, <1>6, <1>7, <1>9, <2>6, ItemStays
    <2> QED
      BY <1>1, <1>4, <1>6, <1>7, <1>9, <2>2, <2>7, OneItem
  <1>11. Untouched'
    <2>1. \A v \in Uploads : intent'[v] = "NONE" => intent[v] = "NONE"
      BY <1>4
    <2> QED
      BY <1>1, <1>3, <1>4, <2>1 DEF Untouched
  <1>12. OneVersionEach'
    <2>1. \A v \in Uploads : intent'[v] = "COMPLETED" <=> intent[v] = "COMPLETED"
      BY <1>4 DEF Forward
    <2> QED
      BY <1>1, <1>3, <1>5, <2>1, VersionsStay
  <1>13. ConfirmedWasThere'
    <2> SUFFICES ASSUME NEW v \in Uploads, NEW n \in 0..Len(log[v]),
                        <<v, n>> \in DOMAIN rows, rows'[<<v, n>>] = "CONFIRMED"
                 PROVE  WasThere(v) /\ intent'[v] # "INITIATED"
      BY <1>3, <1>4 DEF ConfirmedWasThere, WasThere
    <2>1. CASE rows[<<v, n>>] = "CONFIRMED"
      <3>1. WasThere(v) /\ intent[v] # "INITIATED"
        BY <1>1, <2>1 DEF ConfirmedWasThere, WasThere
      <3> QED
        BY <1>4, <3>1
    <2>2. CASE <<v, n>> = <<u, old.event>> /\ WasThere(u) /\ intent'[u] # "INITIATED"
      BY <2>2
    <2> QED
      BY <1>4, <2>1, <2>2
  <1> QED
    BY <1>5, <1>6, <1>8, <1>10, <1>11, <1>12, <1>13 DEF IInv

-----------------------------------------------------------------------------
(* The theorems *)

\* A new project satisfies the invariant.
LEMMA Starts == Init => IInv
  <1> SUFFICES ASSUME Init PROVE IInv
    OBVIOUS
  <1>1. Numbered
    BY CreatedStep DEF Init
  <1>2. /\ intent = [u \in Uploads |-> "NONE"] /\ log = [u \in Uploads |-> <<>>] /\ rows = <<>>
        /\ items = [i \in Uploads \X Families |-> NoItem] /\ versions = <<>> /\ faults = 0
        /\ older = [u \in Uploads |-> {}]
    BY DEF Init
  <1>3. DOMAIN rows = {} /\ rows \in [DOMAIN rows -> EventStatuses]
    BY <1>2
  <1>4. Shapes
    <2>1. <<>> \in Seq(Operations) /\ versions \in Seq(Uploads)
      BY <1>2
    <2>2. intent \in [Uploads -> IntentStatuses] /\ log \in [Uploads -> Seq(Operations)]
      BY <1>2, <2>1 DEF IntentStatuses
    <2>3. faults \in 0..MaxFaults
      BY <1>2, Bounds
    <2>4. older \in [Uploads -> SUBSET Uploads]
      BY <1>2
    <2> QED
      BY <1>3, <2>1, <2>2, <2>3, <2>4 DEF Shapes
  <1>5. EventsWere /\ ConfirmedWasThere
    BY <1>3 DEF EventsWere, ConfirmedWasThere
  <1>6. Untouched
    BY <1>2, <1>3 DEF Untouched
  <1>7. ItemsFine
    <2>1. /\ NoItem \in AnyItem /\ NoItem.tries = 0 /\ NoItem.state = "NONE"
          /\ NoItem.late = FALSE
      BY DEF NoItem, AnyItem
    <2>2. \A u \in Uploads, f \in Families : items[<<u, f>>] = NoItem
      BY <1>2
    <2>3. 0 <= MaxAttempts + faults
      BY <1>2, Bounds
    <2> QED
      BY <1>2, <2>1, <2>2, <2>3 DEF ItemsFine, ItemFine
  <1>8. OneVersionEach
    <2>1. \A u \in Uploads : {i \in DOMAIN versions : versions[i] = u} = {}
      BY <1>2
    <2>2. \A u \in Uploads : intent[u] # "COMPLETED"
      BY <1>2
    <2> QED
      BY <1>2, <2>1, <2>2, FS_EmptySet DEF OneVersionEach
  <1> QED
    BY <1>1, <1>4, <1>5, <1>6, <1>7, <1>8 DEF IInv

\* Every action keeps the invariant.
LEMMA Goes == IInv /\ [Next]_vars => IInv'
  <1> SUFFICES ASSUME IInv, [Next]_vars PROVE IInv'
    OBVIOUS
  <1>1. ASSUME NEW u \in Uploads, Client(u)
        PROVE  IInv'
    BY <1>1, InitiateStep, ExpireStep, CompleteStep, OperateStep DEF Client, Operations
  <1>2. ASSUME NEW u \in Watched, NEW n \in DOMAIN log[u], Deliver(u, n)
        PROVE  IInv'
    BY <1>2, DeliverStep, SourcesAssumption
  <1>3. ASSUME NEW u \in Watched, NEW f \in Families, Work(u, f)
        PROVE  IInv'
    BY <1>3, ReadStep, RecordStep, LoseLeaseStep, SourcesAssumption DEF Work
  <1>4. CASE Edit
    BY <1>4, EditStep
  <1>5. CASE UNCHANGED vars
    <2>1. /\ intent' = intent /\ older' = older /\ versions' = versions
          /\ UNCHANGED project /\ Frame
      BY <1>5 DEF vars, project, Frame
    <2>2. Numbered' /\ active' = active
      BY <2>1, ProjectStays DEF IInv
    <2>3. intent' \in [Uploads -> IntentStatuses] /\ older' \in [Uploads -> SUBSET Uploads]
      BY <2>1 DEF IInv, Shapes
    <2> QED
      BY <2>1, <2>2, <2>3, QuietStep
  <1>6. ASSUME NEW skipped, Reconcile(skipped)
        PROVE  IInv'
    BY <1>6, ReconcileStep
  <1>7. CASE ReconcileFails
    BY <1>7, ReconcileFailsStep
  <1> QED
    BY <1>1, <1>2, <1>3, <1>4, <1>5, <1>6, <1>7 DEF Next

\* The inductive invariant holds in every reachable state.
THEOREM Invariance == Spec => []IInv
  BY Starts, Goes, PTL DEF Spec

\* The types follow: no item is tried more often than its limit and the faults allow.
LEMMA TypesFollow == IInv => TypeOK
  <1> SUFFICES ASSUME IInv PROVE TypeOK
    OBVIOUS
  <1>1. /\ ProjectTypeOK /\ EventsWere
        /\ intent \in [Uploads -> IntentStatuses] /\ older \in [Uploads -> SUBSET Uploads]
    BY DEF IInv, Numbered, Shapes
  <1>2. ASSUME NEW u \in Uploads, NEW f \in Families
        PROVE  items[<<u, f>>] \in Items
    <2>1. PICK item : item = items[<<u, f>>]
      OBVIOUS
    <2>2. item \in AnyItem /\ item.tries <= MaxAttempts + faults
      BY <2>1 DEF IInv, ItemsFine, ItemFine
    <2>3. faults \in 0..MaxFaults /\ item.tries \in Nat
      BY <2>2 DEF IInv, Shapes, AnyItem
    <2>4. item.tries \in 0..MaxAttempts + MaxFaults
      BY <2>2, <2>3, Bounds
    <2> QED
      BY <2>1, <2>2, <2>4 DEF AnyItem, Items
  <1>3. items \in [Uploads \X Families -> Items]
    BY <1>2 DEF IInv, ItemsFine
  <1>4. \A u \in Uploads, f \in {"create", "delete"} :
          items[<<u, f>>].state # "NONE" => /\ <<u, items[<<u, f>>].event>> \in DOMAIN rows
                                            /\ FamilyOf(u, items[<<u, f>>].event) = f
    BY DEF IInv, ItemsFine, ItemFine, Families
  <1> QED
    BY <1>1, <1>3, <1>4 DEF TypeOK, EventsWere

\* Types; rows and items refer to events there were, of the item's own family.
THEOREM TypesHold == Spec => []TypeOK
  BY Invariance, TypesFollow, PTL

\* However often completion is requested and the project renamed in between, a
\* completed upload is one source version (uploads.py, UploadService.complete).
THEOREM OneVersionHolds == Spec => []OneVersionEach
  <1>1. IInv => OneVersionEach
    BY DEF IInv
  <1> QED
    BY <1>1, Invariance, PTL

\* A storage event is only confirmed when the announced object was seen, and then its
\* intent waits no more (source_work.py, _record_created).
THEOREM ConfirmedHolds == Spec => []ConfirmedWasThere
  <1>1. IInv => ConfirmedWasThere
    BY DEF IInv
  <1> QED
    BY <1>1, Invariance, PTL

\* What StatusMovesForward says of one step.
MovesForward == \A u \in Uploads : intent'[u] # intent[u] => <<intent[u], intent'[u]>> \in Forward

\* Events that are late, repeated or out of order, and workers that lost their lease,
\* only move an intent forward.
THEOREM StatusHolds == Spec => StatusMovesForward
  <1>1. IInv /\ [Next]_vars => [MovesForward]_vars
    <2> SUFFICES ASSUME IInv, Next PROVE MovesForward
      OBVIOUS
    <2>1. intent \in [Uploads -> IntentStatuses]
      BY DEF IInv, Shapes
    <2>2. CASE intent' = intent
      BY <2>2 DEF MovesForward
    <2>3. ASSUME NEW u \in Uploads, Initiate(u)
          PROVE  MovesForward
      BY <2>1, <2>3 DEF Initiate, MovesForward, Forward
    <2>4. ASSUME NEW u \in Uploads, Complete(u)
          PROVE  MovesForward
      <3>1. intent[u] \in {"INITIATED", "UPLOADED", "DELETED"}
        BY <2>1, <2>4 DEF Complete, Open, IntentStatuses
      <3>2. intent' = intent \/ intent' = [intent EXCEPT ![u] = "COMPLETED"]
        BY <2>4 DEF Complete
      <3> QED
        BY <2>1, <3>1, <3>2 DEF MovesForward, Forward
    <2>5. ASSUME NEW u \in Uploads, NEW f \in Families, Record(u, f)
          PROVE  MovesForward
      <3>1. PICK old : old = items[<<u, f>>]
        OBVIOUS
      <3>2. Applied(u, f) /\ (old.state = "READ" \/ old.late)
        BY <2>5, <3>1 DEF Record
      <3> QED
        BY <3>1, <3>2, AppliedIs DEF MovesForward
    <2>6. ASSUME NEW u \in Uploads, Client(u)
          PROVE  MovesForward
      BY <2>2, <2>3, <2>4, <2>6 DEF Client, Expire, Operate, uploads
    <2>7. ASSUME NEW events, Received(events)
          PROVE  MovesForward
      BY <2>2, <2>7 DEF Received, uploads
    <2>8. ASSUME NEW u \in Watched, NEW f \in Families, Work(u, f)
          PROVE  MovesForward
      BY <2>2, <2>5, <2>8, SourcesAssumption DEF Work, Read, LoseLease, uploads
    <2>9. CASE Edit
      BY <2>2, <2>9 DEF Edit, uploads
    <2>10. CASE ReconcileFails
      BY <2>2, <2>10 DEF ReconcileFails, uploads
    <2>11. CASE \E skipped \in SUBSET Uploads : Reconcile(skipped)
      BY <2>7, <2>11 DEF Reconcile
    <2>12. ASSUME NEW u \in Watched, NEW n \in DOMAIN log[u], Deliver(u, n)
           PROVE  MovesForward
      BY <2>7, <2>12 DEF Deliver
    <2> QED
      BY <2>6, <2>8, <2>9, <2>10, <2>11, <2>12 DEF Next
  <1> QED
    BY <1>1, Invariance, PTL DEF Spec, StatusMovesForward, MovesForward

=============================================================================
