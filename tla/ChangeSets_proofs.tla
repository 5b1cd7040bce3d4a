-------------------------- MODULE ChangeSets_proofs --------------------------
(***************************************************************************)
(* Proofs about ChangeSets, for every graph without a cycle, every set of  *)
(* edits and every bound: the types, no lost update, builds that are       *)
(* finished when they say so and attended until then, outputs that were    *)
(* made from what their build has selected, and plans that rebuild what a  *)
(* change reaches and nothing else.                                        *)
(***************************************************************************)
EXTENDS ChangeSets, Revisions_proofs, Impact_proofs, SequenceTheorems

NodeStatuses == {"PENDING", "QUEUED", "PASSED", "REUSED", "FAILED"}
BuildStatuses == {"PLANNED", "QUEUED", "RUNNING", "SUCCEEDED", "FAILED"}
Accepted == {"PASSED", "REUSED"}

\* A sequence, of whatever it holds.
IsSeq(s) == s \in Seq({s[i] : i \in DOMAIN s})

\* The rows of the drafts, of the nodes of a build and of a build.
DraftRows == [status : {"DRAFT", "COMMITTED"}, base : Specs, patch : Patches, age : Ages]
IsRow(row) == row \in [status : NodeStatuses, fp : {row.fp}, out : {row.out}, by : Nat]
IsNodes(nodes) == nodes = [n \in Nodes |-> nodes[n]] /\ \A n \in Nodes : IsRow(nodes[n])
IsRecord(B) ==
    /\ B \in [spec : Specs, plan : Nat, status : BuildStatuses, nodes : {B.nodes}]
    /\ IsNodes(B.nodes)

-----------------------------------------------------------------------------
(* The first invariant: statuses *)

\* A node that may start: it waits, and what it reads is accepted.
Ready(nodes, n) ==
    nodes[n].status = "PENDING" /\ \A m \in Reads(n) : nodes[m].status \in Accepted

Closed(nodes) == \A n \in Nodes : ~Ready(nodes, n)
Done(nodes) == \A n \in Nodes : nodes[n].status \in Accepted
AllKept(nodes) == \A n \in Nodes : nodes[n].status = "REUSED"

\* A build has failed exactly when a node of it has, never a source; it is done when
\* it says so; and once it was started nothing that may start is left waiting.
StatusFine(status, nodes) ==
    /\ \A n \in Sources : nodes[n].status # "FAILED"
    /\ status = "FAILED" <=> \E n \in Nodes : nodes[n].status = "FAILED"
    /\ status = "SUCCEEDED" => Done(nodes)
    /\ status = "RUNNING" => ~Done(nodes)
    /\ status = "QUEUED" => ~Done(nodes) \/ AllKept(nodes)
    /\ status = "PLANNED" => \A n \in Nodes : nodes[n].status \in {"PENDING", "REUSED"}
    /\ status # "PLANNED" => Closed(nodes)

BuildFine(B, b) ==
    /\ IsRecord(B) /\ StatusFine(B.status, B.nodes)
    /\ B.spec \in Known /\ B.plan \in 0..Len(plans)
    /\ \A n \in Nodes : B.nodes[n].by \in 0..b

DraftsFine ==
    /\ IsSeq(drafts)
    /\ \A d \in DOMAIN drafts : drafts[d] \in DraftRows /\ drafts[d].base \in Known

PlansFine == IsSeq(plans) /\ \A p \in DOMAIN plans : IsPlan(plans[p])
BuildsFine == IsSeq(builds) /\ \A b \in DOMAIN builds : BuildFine(builds[b], b)

\* The inductive invariant of the statuses.
IInv ==
    /\ Numbered /\ HeadHasLatestImage
    /\ DraftsFine /\ PlansFine /\ BuildsFine
    /\ configured \in BOOLEAN

-----------------------------------------------------------------------------
(* The second invariant: what the rows were made from *)

\* An output of a node is content of a source or was made.
IsOutput(out) ==
    \/ out = Text(out[2]) \/ out = File(out[2])
    \/ out = Bytes(out[2], out[3])

\* The row of node n of a build of a revision with this graph and this brief: what it
\* reads is accepted before it is queued, its fingerprint is that of what it reads, and
\* an accepted row has an output made under it.
NodeFine(graph, brief, planned, nodes, n) ==
    LET row == nodes[n]
        fp  == Fingerprint(graph[n], Selected(nodes, n))
    IN /\ row.status \in Accepted \cup {"QUEUED"} =>
            /\ \A m \in Reads(n) : nodes[m].status \in Accepted
            /\ n \notin Sources => row.fp = fp
       /\ row.status \in Accepted =>
            /\ IsOutput(row.out)
            /\ n \notin Sources => \E v \in Variants : row.out = Bytes(fp, v)
       /\ n = TextSource /\ row.status \in Accepted =>
            /\ row.fp = SourceFingerprint(n, row.fp[3], row.out)
            /\ planned => row.out = Text(brief)
       /\ n = TextSource /\ row.status = "QUEUED" =>
            row.fp = SourceFingerprint(n, row.fp[3], Text(brief))

RowFine(B, n) == NodeFine(GraphOf(B.spec), B.spec.brief, B.plan # 0, B.nodes, n)

\* An accepted output has an attempt of this or an earlier build that made it.
Attempted(B, b, n) ==
    n \notin Sources /\ B.nodes[n].status \in Accepted =>
      LET by == B.nodes[n].by
      IN /\ by \in 1..b
         /\ builds[by].nodes[n].status = "PASSED"
         /\ builds[by].nodes[n].fp = B.nodes[n].fp

RowsFine ==
    \A b \in DOMAIN builds : \A n \in Nodes : RowFine(builds[b], n) /\ Attempted(builds[b], b, n)

-----------------------------------------------------------------------------
(* Sequences, and the greatest of some numbers *)

\* A sequence has a length, and its indices go up to it.
LEMMA SeqIs ==
    ASSUME NEW s, IsSeq(s)
    PROVE  Len(s) \in Nat /\ DOMAIN s = 1..Len(s)
  BY DEF IsSeq

\* A function on the numbers up to a length is a sequence.
LEMMA FunctionIsSeq ==
    ASSUME NEW m \in Nat, NEW r, r = [i \in 1..m |-> r[i]]
    PROVE  IsSeq(r) /\ Len(r) = m
  <1> DEFINE T == {r[i] : i \in 1..m}
  <1>1. DOMAIN r = 1..m
    OBVIOUS
  <1>2. \A i \in 1..m : r[i] \in T
    OBVIOUS
  <1> HIDE DEF T
  <1>3. r \in [1..m -> T]
    BY <1>2
  <1>4. r \in Seq(T) /\ Len(r) = m
    BY <1>3
  <1> QED
    BY <1>1, <1>4 DEF IsSeq, T

\* r is s and one element more.
Extends(r, s, e) ==
    /\ IsSeq(r) /\ Len(r) = Len(s) + 1 /\ Len(r) \in Nat
    /\ DOMAIN r = DOMAIN s \cup {Len(r)} /\ Len(r) \notin DOMAIN s
    /\ \A i \in DOMAIN s : r[i] = s[i]
    /\ r[Len(r)] = e

\* One element more.
LEMMA Appended ==
    ASSUME NEW s, IsSeq(s), NEW e
    PROVE  Extends(Append(s, e), s, e)
  <1>0. PICK r : r = Append(s, e)
    OBVIOUS
  <1> DEFINE T == {s[i] : i \in DOMAIN s} \cup {e}
  <1>1. s \in Seq(T) /\ e \in T
    <2>1. s \in Seq({s[i] : i \in DOMAIN s})
      BY DEF IsSeq
    <2>2. {s[i] : i \in DOMAIN s} \subseteq T
      OBVIOUS
    <2> QED
      BY <2>1, <2>2, SeqMonotonic
  <1> HIDE DEF T
  <1>2. /\ r \in Seq(T) /\ Len(r) = Len(s) + 1 /\ r[Len(s) + 1] = e
        /\ \A i \in 1..Len(s) : r[i] = s[i]
    BY <1>0, <1>1, AppendProperties
  <1>3. Len(s) \in Nat /\ DOMAIN s = 1..Len(s) /\ DOMAIN r = 1..Len(r) /\ Len(r) \in Nat
    BY <1>1, <1>2
  <1> DEFINE k == Len(s)
             m == Len(r)
  <1>4. k \in Nat /\ m = k + 1
    BY <1>2, <1>3
  <1>5. IsSeq(r)
    <2>0. r \in [1..m -> T]
      BY <1>2, LenProperties
    <2>1. r = [i \in 1..m |-> r[i]] /\ m \in Nat
      BY <1>3, <2>0
    <2> HIDE DEF m
    <2> QED
      BY <2>1, FunctionIsSeq
  <1> HIDE DEF k, m
  <1>6. 1..m = 1..k \cup {m} /\ m \notin 1..k
    BY <1>4
  <1> QED
    BY <1>0, <1>2, <1>3, <1>5, <1>6 DEF Extends, k, m

\* Another element in the place of one.
LEMMA Replaced ==
    ASSUME NEW s, IsSeq(s), NEW k \in DOMAIN s, NEW e, NEW r, r = [s EXCEPT ![k] = e]
    PROVE  /\ IsSeq(r) /\ Len(r) = Len(s) /\ DOMAIN r = DOMAIN s
           /\ \A i \in DOMAIN s : r[i] = IF i = k THEN e ELSE s[i]
  <1>1. Len(s) \in Nat /\ DOMAIN s = 1..Len(s) /\ s = [i \in 1..Len(s) |-> s[i]]
    BY DEF IsSeq
  <1>2. r = [i \in 1..Len(s) |-> IF i = k THEN e ELSE s[i]]
    BY <1>1
  <1> DEFINE m == Len(s)
  <1>3. r = [i \in 1..m |-> r[i]] /\ m \in Nat
    BY <1>1, <1>2
  <1> HIDE DEF m
  <1>4. IsSeq(r) /\ Len(r) = m
    BY <1>3, FunctionIsSeq
  <1> QED
    BY <1>1, <1>2, <1>4 DEF m

\* Of finitely many numbers that there are, one is the greatest.
LEMMA Greatest ==
    ASSUME NEW k \in Nat, NEW B, B \subseteq 1..k, B # {}
    PROVE  Newest(B) \in B /\ \A c \in B : c <= Newest(B)
  <1> DEFINE Segments == {B \cap (b..k) : b \in B}
             R == StrictSubsetOrdering(B)
  <1>1. Segments \subseteq FiniteSubsetsOf(B) /\ Segments # {}
    <2>1. \A b \in B : IsFiniteSet(B \cap (b..k))
      <3>1. IsFiniteSet(1..k)
        BY FS_Interval
      <3> QED
        BY <3>1, FS_Subset
    <2> QED
      BY <2>1 DEF FiniteSubsetsOf
  <1>2. PICK x \in Segments : \A y \in Segments : ~ (<<y, x>> \in R)
    <2>1. IsWellFoundedOn(R, FiniteSubsetsOf(B))
      BY FS_StrictSubsetOrderingWellFounded
    <2> HIDE DEF R, Segments
    <2> QED
      BY <1>1, <2>1, WFMin
  <1>3. PICK b \in B : x = B \cap (b..k)
    BY <1>2
  <1>4. ASSUME NEW c \in B, b < c PROVE FALSE
    <2>1. c \in Nat /\ b \in Nat /\ c <= k /\ b <= k
      OBVIOUS
    <2>2. c..k \subseteq b..k /\ b \notin c..k /\ b \in b..k
      BY <1>4, <2>1
    <2>3. <<B \cap (c..k), x>> \in R
      BY <1>3, <2>1, <2>2 DEF StrictSubsetOrdering
    <2>4. B \cap (c..k) \in Segments
      OBVIOUS
    <2> HIDE DEF R, Segments
    <2> QED
      BY <1>2, <2>3, <2>4
  <1>5. \A c \in B : c <= b
    BY <1>4
  <1>6. \E c \in B : \A d \in B : d <= c
    BY <1>5
  <1> QED
    BY <1>6 DEF Newest

-----------------------------------------------------------------------------
(* What changes of the rows keep *)

\* The constants.
LEMMA Given ==
    /\ TextSource \in Sources /\ ImageSource \in Sources /\ Sources \subseteq Nodes
    /\ SeedImage \in Images
    /\ \A patch \in Patches : \/ patch.field = "legal" /\ patch.to \in Legals
                              \/ patch.field = "brief" /\ patch.to \in Briefs
    /\ \A n \in Nodes : Reads(n) \subseteq Nodes
    /\ \A n \in Sources : Reads(n) = {}
  <1>1. \A n \in Nodes : \A i \in DOMAIN Inputs[n] : Inputs[n][i] \in Nodes
    BY InputAssumption
  <1>2. \A n \in Sources : DOMAIN Inputs[n] = {}
    BY InputAssumption
  <1> QED
    BY <1>1, <1>2, GraphAssumption, PatchAssumption, InputAssumption DEF Reads

\* A draft's edit is a specification.
LEMMA ProposedIs ==
    ASSUME NEW spec \in Specs, NEW patch \in Patches
    PROVE  /\ Apply(spec, patch) \in Specs /\ Apply(spec, patch).image = spec.image
           /\ OneField(spec, Apply(spec, patch))
  <1>1. CASE patch.field = "legal" /\ patch.to \in Legals
    <2>1. Apply(spec, patch) = [spec EXCEPT !.legal = patch.to]
      BY <1>1 DEF Apply
    <2> QED
      BY <1>1, <2>1 DEF Specs, OneField
  <1>2. CASE patch.field = "brief" /\ patch.to \in Briefs
    <2>1. Apply(spec, patch) = [spec EXCEPT !.brief = patch.to]
      BY <1>2 DEF Apply
    <2> QED
      BY <1>2, <2>1 DEF Specs, OneField
  <1> QED
    BY <1>1, <1>2, Given

\* What is fine of a build stays so while revisions and plans are only added.
LEMMA BuildStays ==
    ASSUME Known \subseteq Known', Len(plans) \in Nat, Len(plans') \in Nat,
           Len(plans) <= Len(plans'), NEW B, NEW b, BuildFine(B, b)
    PROVE  BuildFine(B, b)'
  <1> DEFINE k == Len(plans)
             m == Len(plans')
  <1>1. k \in Nat /\ m \in Nat /\ k <= m
    OBVIOUS
  <1>2. B.plan \in 0..k
    BY DEF BuildFine
  <1> HIDE DEF k, m
  <1>3. B.plan \in 0..m
    BY <1>1, <1>2
  <1> QED
    BY <1>3 DEF BuildFine, m

\* The drafts, when none changes.
LEMMA DraftsStay ==
    ASSUME DraftsFine, drafts' = drafts, Known \subseteq Known'
    PROVE  DraftsFine'
  BY DEF DraftsFine

\* The plans, when none is added: their drafts and their baselines stay.
LEMMA PlansStay ==
    ASSUME PlansFine, plans' = plans, DOMAIN drafts \subseteq DOMAIN drafts',
           SucceededAny \subseteq SucceededAny'
    PROVE  PlansFine'
  BY DEF PlansFine, IsPlan

\* The builds, when none changes.
LEMMA BuildsStay ==
    ASSUME BuildsFine, builds' = builds, Known \subseteq Known', PlansFine, PlansFine',
           Len(plans) <= Len(plans')
    PROVE  BuildsFine' /\ SucceededAny' = SucceededAny
  <1>1. Len(plans) \in Nat /\ Len(plans') \in Nat
    BY SeqIs DEF PlansFine
  <1>2. ASSUME NEW b \in DOMAIN builds
        PROVE  BuildFine(builds[b], b)'
    <2>1. PICK B : B = builds[b]
      OBVIOUS
    <2>2. BuildFine(B, b)'
      BY <1>1, <2>1, BuildStays DEF BuildsFine
    <2> QED
      BY <2>1, <2>2
  <1> QED
    BY <1>2 DEF BuildsFine, SucceededAny

\* A build is added.
LEMMA MoreBuilds ==
    ASSUME BuildsFine, Known \subseteq Known', PlansFine, plans' = plans,
           NEW B, builds' = Append(builds, B), NEW k, k = Len(builds) + 1, BuildFine(B, k)'
    PROVE  BuildsFine' /\ SucceededAny \subseteq SucceededAny'
  <1>1. Len(plans) \in Nat
    BY SeqIs DEF PlansFine
  <1>2. /\ IsSeq(builds') /\ DOMAIN builds' = DOMAIN builds \cup {k}
        /\ \A b \in DOMAIN builds : builds'[b] = builds[b]
        /\ builds'[k] = B
    <2>1. PICK s, r : s = builds /\ r = builds'
      OBVIOUS
    <2>2. IsSeq(s) /\ r = Append(s, B)
      BY <2>1 DEF BuildsFine
    <2>3. Extends(r, s, B)
      BY <2>2, Appended
    <2> QED
      BY <2>1, <2>3 DEF Extends
  <1>3. ASSUME NEW b \in DOMAIN builds
        PROVE  BuildFine(builds[b], b)'
    <2>1. PICK C : C = builds[b]
      OBVIOUS
    <2>2. BuildFine(C, b)'
      BY <1>1, <2>1, BuildStays DEF BuildsFine
    <2>3. builds'[b] = C
      BY <1>2, <2>1
    <2> QED
      BY <2>2, <2>3
  <1>4. BuildFine(builds[k], k)'
    BY <1>2
  <1>5. \A b \in DOMAIN builds' : BuildFine(builds[b], b)'
    BY <1>2, <1>3, <1>4
  <1>6. SucceededAny \subseteq SucceededAny'
    BY <1>2 DEF SucceededAny
  <1> QED
    BY <1>2, <1>5, <1>6 DEF BuildsFine

\* A build changes, and is not one that had succeeded.
LEMMA OneBuild ==
    ASSUME BuildsFine, Known \subseteq Known', PlansFine, plans' = plans,
           NEW b \in DOMAIN builds, NEW B, builds' = [builds EXCEPT ![b] = B],
           builds[b].status # "SUCCEEDED", BuildFine(B, b)'
    PROVE  BuildsFine' /\ SucceededAny \subseteq SucceededAny'
  <1>1. Len(plans) \in Nat
    BY SeqIs DEF PlansFine
  <1>2. /\ IsSeq(builds') /\ DOMAIN builds' = DOMAIN builds
        /\ \A c \in DOMAIN builds : builds'[c] = IF c = b THEN B ELSE builds[c]
    BY Replaced DEF BuildsFine
  <1>3. ASSUME NEW c \in DOMAIN builds, c # b
        PROVE  BuildFine(builds[c], c)'
    <2>1. PICK C : C = builds[c]
      OBVIOUS
    <2>2. BuildFine(C, c)'
      BY <1>1, <2>1, BuildStays DEF BuildsFine
    <2>3. builds'[c] = C
      BY <1>2, <1>3, <2>1
    <2> QED
      BY <2>2, <2>3
  <1>4. BuildFine(builds[b], b)'
    BY <1>2
  <1>5. SucceededAny \subseteq SucceededAny'
    BY <1>2 DEF SucceededAny
  <1> QED
    BY <1>2, <1>3, <1>4, <1>5 DEF BuildsFine

-----------------------------------------------------------------------------
(* The actions of drafts and of the project *)

\* The rows of drafts change, or the project; no plan and no build is added.
LEMMA QuietStep ==
    ASSUME IInv, Numbered', Known \subseteq Known', active'.image = latest',
           DraftsFine', DOMAIN drafts \subseteq DOMAIN drafts',
           UNCHANGED <<plans, builds>>, configured' \in BOOLEAN
    PROVE  IInv'
  <1>1. SucceededAny' = SucceededAny
    BY DEF SucceededAny
  <1>2. PlansFine'
    BY <1>1, PlansStay DEF IInv
  <1>3. Len(plans) <= Len(plans')
    BY SeqIs DEF IInv, PlansFine
  <1>4. BuildsFine'
    BY <1>2, <1>3, BuildsStay DEF IInv
  <1> QED
    BY <1>2, <1>4 DEF IInv, HeadHasLatestImage

\* A draft is opened.
LEMMA CreateStep ==
    ASSUME IInv, NEW base \in Known, NEW patch \in Patches, Create(base, patch)
    PROVE  IInv'
  <1>1. PICK row : row = [status |-> "DRAFT", base |-> base, patch |-> patch, age |-> "fresh"]
    OBVIOUS
  <1>2. /\ drafts' = Append(drafts, row)
        /\ UNCHANGED project /\ UNCHANGED <<plans, builds>> /\ configured' = configured
    BY <1>1 DEF Create
  <1>3. Numbered' /\ Immutable /\ active' = active /\ latest' = latest
    BY <1>2, ProjectStays DEF IInv
  <1>4. row \in DraftRows /\ row.base \in Known
    BY <1>1, ProjectIs DEF DraftRows, Ages, IInv, Numbered
  <1>5. /\ IsSeq(drafts') /\ DOMAIN drafts \subseteq DOMAIN drafts'
        /\ \A d \in DOMAIN drafts' :
             drafts'[d] = row \/ (d \in DOMAIN drafts /\ drafts'[d] = drafts[d])
    <2>1. PICK s, r : s = drafts /\ r = drafts'
      OBVIOUS
    <2>2. IsSeq(s) /\ r = Append(s, row)
      BY <1>2, <2>1 DEF IInv, DraftsFine
    <2>3. Extends(r, s, row)
      BY <2>2, Appended
    <2> QED
      BY <2>1, <2>3 DEF Extends
  <1>6. DraftsFine'
    BY <1>3, <1>4, <1>5 DEF DraftsFine, IInv, Immutable
  <1> QED
    BY <1>2, <1>3, <1>5, <1>6, QuietStep DEF IInv, Immutable, HeadHasLatestImage

\* The row of one draft changes.
LEMMA DraftStep ==
    ASSUME IInv, NEW d \in DOMAIN drafts, NEW row \in DraftRows,
           row.base = drafts[d].base, drafts' = [drafts EXCEPT ![d] = row],
           UNCHANGED project, UNCHANGED <<plans, builds, configured>>
    PROVE  IInv'
  <1>1. Numbered' /\ Immutable /\ active' = active /\ latest' = latest
    BY ProjectStays DEF IInv
  <1>2. /\ IsSeq(drafts') /\ DOMAIN drafts' = DOMAIN drafts
        /\ \A c \in DOMAIN drafts : drafts'[c] = IF c = d THEN row ELSE drafts[c]
    BY Replaced DEF IInv, DraftsFine
  <1>3. DraftsFine'
    BY <1>1, <1>2 DEF DraftsFine, IInv, Immutable
  <1> QED
    BY <1>1, <1>2, <1>3, QuietStep DEF IInv, Immutable, HeadHasLatestImage

\* The edit of a draft changes.
LEMMA UpdateStep ==
    ASSUME IInv, NEW d \in DOMAIN drafts, NEW patch \in Patches, Update(d, patch)
    PROVE  IInv'
  <1>1. drafts[d] \in DraftRows
    BY DEF IInv, DraftsFine
  <1>2. PICK row : row = [drafts[d] EXCEPT !.patch = patch]
    OBVIOUS
  <1>3. row \in DraftRows /\ row.base = drafts[d].base
    BY <1>1, <1>2 DEF DraftRows
  <1>4. /\ drafts' = [drafts EXCEPT ![d] = row]
        /\ UNCHANGED project /\ UNCHANGED <<plans, builds, configured>>
    BY <1>2 DEF Update
  <1> QED
    BY <1>3, <1>4, DraftStep

\* A draft grows older.
LEMMA TickStep ==
    ASSUME IInv, NEW d \in DOMAIN drafts, Tick(d)
    PROVE  IInv'
  <1>1. drafts[d] \in DraftRows
    BY DEF IInv, DraftsFine
  <1>2. PICK row : row = [drafts[d] EXCEPT !.age = IF @ = "fresh" THEN "late" ELSE "expired"]
    OBVIOUS
  <1>3. row \in DraftRows /\ row.base = drafts[d].base
    BY <1>1, <1>2 DEF DraftRows, Ages
  <1>4. /\ drafts' = [drafts EXCEPT ![d] = row]
        /\ UNCHANGED project /\ UNCHANGED <<plans, builds, configured>>
    BY <1>2 DEF Tick
  <1> QED
    BY <1>3, <1>4, DraftStep

\* The API is deployed.
LEMMA DeployStep ==
    ASSUME IInv, Deploy
    PROVE  IInv'
  <1>1. drafts' = drafts /\ UNCHANGED <<plans, builds>>
    BY DEF Deploy
  <1>2. configured' \in BOOLEAN
    BY DEF Deploy, IInv
  <1>3. Numbered' /\ Immutable /\ active' = active /\ latest' = latest
    BY ProjectStays, PoliciesStep DEF Deploy, IInv
  <1>4. DraftsFine'
    BY <1>1, <1>3, DraftsStay DEF IInv, Immutable
  <1> QED
    BY <1>1, <1>2, <1>3, <1>4, QuietStep DEF IInv, Immutable, HeadHasLatestImage

\* The project is renamed, or has a new source.
LEMMA WriteStep ==
    ASSUME IInv, Write
    PROVE  IInv' /\ Immutable /\ OneField(active, active')
  <1>1. drafts' = drafts /\ UNCHANGED <<plans, builds>> /\ configured' = configured
    BY DEF Write
  <1>2. active \in Specs /\ active.image = latest
    BY ProjectIs DEF IInv, Numbered, HeadHasLatestImage
  <1>3. /\ Numbered' /\ Immutable /\ active'.image = latest'
        /\ OneField(active, active')
    <2>1. ASSUME NEW name \in Names, Rename(name)
          PROVE  /\ Numbered' /\ Immutable /\ active'.image = latest'
                 /\ OneField(active, active')
      <3>1. /\ Numbered' /\ Immutable /\ latest' = latest
            /\ active' = [active EXCEPT !.name = name]
        BY <2>1, RenameStep DEF IInv
      <3>2. active'.image = active.image /\ OneField(active, active')
        BY <1>2, <3>1 DEF Specs, OneField
      <3> QED
        BY <1>2, <3>1, <3>2
    <2>2. ASSUME NEW image \in Images, Upload(image)
          PROVE  /\ Numbered' /\ Immutable /\ active'.image = latest'
                 /\ OneField(active, active')
      <3>1. /\ Numbered' /\ Immutable /\ latest' = image
            /\ active' = [active EXCEPT !.image = image]
        BY <2>2, UploadStep DEF IInv
      <3>2. active'.image = image /\ OneField(active, active')
        BY <1>2, <3>1 DEF Specs, OneField
      <3> QED
        BY <3>1, <3>2
    <2> QED
      BY <2>1, <2>2 DEF Write
  <1>4. DraftsFine'
    BY <1>1, <1>3, DraftsStay DEF IInv, Immutable
  <1> QED
    BY <1>1, <1>3, <1>4, QuietStep DEF IInv, Immutable

-----------------------------------------------------------------------------
(* Nodes *)

\* The nodes that may start are those of scheduling.py.
LEMMA ReadyIs ==
    ASSUME NEW nodes
    PROVE  S!ReadyNodes(Status(nodes), "RUNNING") = {n \in Nodes : Ready(nodes, n)}
  <1>1. \A n \in Nodes : Status(nodes)[n] = nodes[n].status
    BY DEF Status
  <1>2. ASSUME NEW n \in Nodes
        PROVE  S!DependenciesMet(Status(nodes), n) <=> \A m \in Reads(n) : nodes[m].status \in Accepted
    <2>1. \A m \in Nodes : <<m, n>> \in NodeEdges <=> m \in Reads(n)
      BY DEF NodeEdges
    <2>2. \A e \in NodeEdges : e[1] \in Nodes /\ e[2] \in Nodes /\ e = <<e[1], e[2]>>
      BY DEF NodeEdges
    <2>3. Reads(n) \subseteq Nodes
      BY Given
    <2>4. ASSUME S!DependenciesMet(Status(nodes), n), NEW m \in Reads(n)
          PROVE  nodes[m].status \in Accepted
      <3>1. PICK e : e = <<m, n>>
        OBVIOUS
      <3>2. e \in NodeEdges /\ e[1] = m /\ e[2] = n
        BY <2>1, <2>3, <3>1
      <3> QED
        BY <1>1, <2>3, <2>4, <3>2 DEF S!DependenciesMet, S!Satisfies, Accepted
    <2>5. ASSUME \A m \in Reads(n) : nodes[m].status \in Accepted, NEW e \in NodeEdges, e[2] = n
          PROVE  Status(nodes)[e[1]] \in S!Satisfies
      BY <1>1, <2>1, <2>2, <2>5 DEF S!Satisfies, Accepted
    <2> QED
      BY <2>4, <2>5 DEF S!DependenciesMet
  <1> QED
    BY <1>1, <1>2 DEF S!ReadyNodes, Ready

\* What schedule_ready_nodes makes of the nodes of a build.
SchedulesTo(spec, nodes, s) ==
    /\ IsNodes(s) /\ Closed(s)
    /\ \A n \in Nodes :
         /\ s[n].out = nodes[n].out /\ s[n].by = nodes[n].by
         /\ Ready(nodes, n) =>
              /\ s[n].status = "QUEUED"
              /\ s[n].fp = Fingerprint(GraphOf(spec)[n], Selected(nodes, n))
         /\ ~Ready(nodes, n) => s[n].status = nodes[n].status /\ s[n].fp = nodes[n].fp

\* It queues what may start, and leaves nothing behind that may.
LEMMA ScheduledIs ==
    ASSUME NEW spec, NEW nodes, IsNodes(nodes)
    PROVE  SchedulesTo(spec, nodes, Scheduled(spec, nodes))
  <1>1. PICK s : s = Scheduled(spec, nodes)
    OBVIOUS
  <1> DEFINE fp(n) == Fingerprint(GraphOf(spec)[n], Selected(nodes, n))
  <1>2. s = [n \in Nodes |-> IF Ready(nodes, n)
                               THEN [nodes[n] EXCEPT !.status = "QUEUED", !.fp = fp(n)]
                               ELSE nodes[n]]
    BY <1>1, ReadyIs DEF Scheduled
  <1> HIDE DEF fp
  <1>3. ASSUME NEW n \in Nodes
        PROVE  /\ IsRow(s[n]) /\ s[n].out = nodes[n].out /\ s[n].by = nodes[n].by
               /\ Ready(nodes, n) => s[n].status = "QUEUED" /\ s[n].fp = fp(n)
               /\ ~Ready(nodes, n) => s[n].status = nodes[n].status /\ s[n].fp = nodes[n].fp
    <2>1. IsRow(nodes[n])
      BY DEF IsNodes
    <2>2. CASE Ready(nodes, n)
      <3>1. PICK row : row = nodes[n]
        OBVIOUS
      <3>2. PICK new : new = [row EXCEPT !.status = "QUEUED", !.fp = fp(n)]
        OBVIOUS
      <3>3. new \in [status : NodeStatuses, fp : {fp(n)}, out : {row.out}, by : Nat]
            /\ new.status = "QUEUED" /\ new.fp = fp(n) /\ new.out = row.out /\ new.by = row.by
        BY <2>1, <3>1, <3>2 DEF IsRow, NodeStatuses
      <3>4. IsRow(new)
        BY <3>3 DEF IsRow
      <3>5. s[n] = new
        BY <1>2, <2>2, <3>1, <3>2
      <3> QED
        BY <2>2, <3>1, <3>3, <3>4, <3>5
    <2>3. CASE ~Ready(nodes, n)
      BY <1>2, <2>1, <2>3
    <2> QED
      BY <2>2, <2>3
  <1>4. s = [n \in Nodes |-> s[n]]
    BY <1>2
  <1>5. IsNodes(s)
    BY <1>3, <1>4 DEF IsNodes
  <1>6. Closed(s)
    <2> SUFFICES ASSUME NEW n \in Nodes, Ready(s, n)
                 PROVE  FALSE
      BY DEF Closed
    <2>1. ~Ready(nodes, n) /\ nodes[n].status = "PENDING"
      BY <1>3 DEF Ready
    <2>2. \A m \in Reads(n) : nodes[m].status \in Accepted
      BY <1>3, Given DEF Ready, Accepted
    <2> QED
      BY <2>1, <2>2 DEF Ready
  <1> QED
    BY <1>1, <1>3, <1>5, <1>6 DEF SchedulesTo, fp

\* The worker's own query for the end of a build.
LEMMA DoneIs ==
    ASSUME NEW nodes
    PROVE  AllDone(Status(nodes)) <=> Done(nodes)
  <1>1. \A n \in Nodes : Status(nodes)[n] = nodes[n].status
    BY DEF Status
  <1> QED
    BY <1>1 DEF AllDone, S!In, Done, Accepted

-----------------------------------------------------------------------------
(* The actions of the builds *)

\* The nodes and the status of a build change.
LEMMA ChangeStep ==
    ASSUME IInv, NEW b \in DOMAIN builds, builds[b].status # "SUCCEEDED",
           NEW nodes, IsNodes(nodes), NEW status \in BuildStatuses, StatusFine(status, nodes),
           \A n \in Nodes : nodes[n].by \in 0..b,
           builds' = [builds EXCEPT ![b] = [@ EXCEPT !.nodes = nodes, !.status = status]],
           UNCHANGED project, UNCHANGED <<drafts, plans, configured>>
    PROVE  IInv'
  <1>1. Numbered' /\ Immutable /\ active' = active /\ latest' = latest
    BY ProjectStays DEF IInv
  <1>2. PICK B : B = builds[b]
    OBVIOUS
  <1>3. BuildFine(B, b)
    BY <1>2 DEF IInv, BuildsFine
  <1>4. PICK C : C = [B EXCEPT !.nodes = nodes, !.status = status]
    OBVIOUS
  <1>5. /\ C \in [spec : Specs, plan : Nat, status : BuildStatuses, nodes : {nodes}]
        /\ C.spec = B.spec /\ C.plan = B.plan /\ C.status = status /\ C.nodes = nodes
    BY <1>3, <1>4 DEF BuildFine, IsRecord
  <1>6. BuildFine(C, b)
    BY <1>3, <1>5 DEF BuildFine, IsRecord
  <1>7. BuildFine(C, b)'
    BY <1>1, <1>6, BuildStays, SeqIs DEF IInv, PlansFine, Immutable
  <1>8. builds' = [builds EXCEPT ![b] = C]
    BY <1>2, <1>4
  <1>9. BuildsFine' /\ SucceededAny \subseteq SucceededAny'
    BY <1>1, <1>7, <1>8, OneBuild DEF IInv, Immutable
  <1>10. PlansFine' /\ DraftsFine'
    BY <1>1, <1>9, PlansStay, DraftsStay DEF IInv, Immutable
  <1> QED
    BY <1>1, <1>9, <1>10 DEF IInv, HeadHasLatestImage

\* What holds of the nodes of a build.
LEMMA BuildIs ==
    ASSUME IInv, NEW b \in DOMAIN builds
    PROVE  /\ b \in Nat \ {0} /\ BuildFine(builds[b], b)
           /\ IsNodes(builds[b].nodes) /\ StatusFine(builds[b].status, builds[b].nodes)
           /\ builds[b].status \in BuildStatuses
           /\ \A n \in Nodes : IsRow(builds[b].nodes[n]) /\ builds[b].nodes[n].by \in 0..b
           /\ builds[b].spec \in Known
  <1>1. BuildFine(builds[b], b) /\ b \in Nat \ {0}
    BY SeqIs DEF IInv, BuildsFine
  <1>2. IsRecord(builds[b])
    BY <1>1 DEF BuildFine
  <1>3. builds[b].status \in BuildStatuses /\ IsNodes(builds[b].nodes)
    BY <1>2 DEF IsRecord
  <1> QED
    BY <1>1, <1>3 DEF BuildFine, IsNodes

\* A node fails, and its build with it.
LEMMA FailStep ==
    ASSUME IInv, NEW b \in DOMAIN builds, NEW n \in Nodes, Fail(b, n)
    PROVE  IInv'
  <1>1. PICK nodes : nodes = builds[b].nodes
    OBVIOUS
  <1>2. /\ IsNodes(nodes) /\ StatusFine(builds[b].status, nodes) /\ b \in Nat
        /\ \A m \in Nodes : IsRow(nodes[m]) /\ nodes[m].by \in 0..b
    BY <1>1, BuildIs
  <1>3. nodes[n].status = "QUEUED" /\ n \notin Sources
    BY <1>1 DEF Fail, Queued
  <1>4. PICK new : new = [nodes EXCEPT ![n] = [@ EXCEPT !.status = "FAILED"]]
    OBVIOUS
  <1>5. \A m \in Nodes : new[m] = IF m = n THEN [nodes[n] EXCEPT !.status = "FAILED"] ELSE nodes[m]
    BY <1>2, <1>4 DEF IsNodes
  <1>6. /\ IsRow(new[n]) /\ new[n].status = "FAILED" /\ new[n].by = nodes[n].by
        /\ \A m \in Nodes \ {n} : new[m] = nodes[m]
    <2>1. PICK row : row = [nodes[n] EXCEPT !.status = "FAILED"]
      OBVIOUS
    <2>2. /\ row \in [status : NodeStatuses, fp : {nodes[n].fp}, out : {nodes[n].out}, by : Nat]
          /\ row.status = "FAILED" /\ row.by = nodes[n].by
      BY <1>2, <2>1 DEF IsRow, NodeStatuses
    <2>3. IsRow(row)
      BY <2>2 DEF IsRow
    <2> QED
      BY <1>5, <2>1, <2>2, <2>3
  <1>7. new = [m \in Nodes |-> new[m]]
    BY <1>2, <1>4 DEF IsNodes
  <1>8. IsNodes(new)
    BY <1>2, <1>6, <1>7 DEF IsNodes
  <1>9. StatusFine("FAILED", new)
    <2>1. Closed(new)
      <3> SUFFICES ASSUME NEW m \in Nodes, Ready(new, m)
                   PROVE  FALSE
        BY DEF Closed
      <3>1. Ready(nodes, m)
        BY <1>3, <1>6, Given DEF Ready, Accepted
      <3>2. builds[b].status # "PLANNED"
        BY <1>2, <1>3 DEF StatusFine
      <3> QED
        BY <1>2, <3>1, <3>2 DEF StatusFine, Closed
    <2>2. \A m \in Sources : new[m].status # "FAILED"
      BY <1>2, <1>3, <1>6, Given DEF StatusFine
    <2> QED
      BY <1>6, <2>1, <2>2 DEF StatusFine
  <1>10. builds[b].status # "SUCCEEDED"
    BY <1>2, <1>3 DEF StatusFine, Done, Accepted
  <1>11. builds' = [builds EXCEPT ![b] = [@ EXCEPT !.nodes = new, !.status = "FAILED"]]
    BY <1>1, <1>4 DEF Fail
  <1>12. \A m \in Nodes : new[m].by \in 0..b
    BY <1>2, <1>6
  <1>13. UNCHANGED project /\ UNCHANGED <<drafts, plans, configured>>
    BY DEF Fail
  <1>14. "FAILED" \in BuildStatuses
    BY DEF BuildStatuses
  <1> QED
    BY <1>8, <1>9, <1>10, <1>11, <1>12, <1>13, <1>14, ChangeStep

\* What passing does to the row of the node itself.
RowPassed(nodes, one, n, out, by) ==
    /\ IsNodes(one)
    /\ one[n].status = "PASSED" /\ one[n].out = out /\ one[n].by = by
    /\ one[n].fp = nodes[n].fp
    /\ \A m \in Nodes \ {n} : one[m] = nodes[m]

\* A node passes, and what has waited for it is queued.
LEMMA PassedIs ==
    ASSUME IInv, NEW b \in DOMAIN builds, NEW n \in Nodes, NEW v
    PROVE  \E one : /\ RowPassed(builds[b].nodes, one, n, Made(b, n, v), IF n \in Sources THEN 0 ELSE b)
                    /\ SchedulesTo(builds[b].spec, one, Passed(b, n, v))
  <1>1. PICK nodes : nodes = builds[b].nodes
    OBVIOUS
  <1>2. IsNodes(nodes) /\ IsRow(nodes[n]) /\ b \in Nat
    BY <1>1, BuildIs
  <1>3. PICK out, by : out = Made(b, n, v) /\ by = IF n \in Sources THEN 0 ELSE b
    OBVIOUS
  <1>4. PICK row : row = [nodes[n] EXCEPT !.status = "PASSED", !.out = out, !.by = by]
    OBVIOUS
  <1>5. PICK one : one = [nodes EXCEPT ![n] = row]
    OBVIOUS
  <1>6. /\ row \in [status : NodeStatuses, fp : {nodes[n].fp}, out : {out}, by : Nat]
        /\ row.status = "PASSED" /\ row.fp = nodes[n].fp /\ row.out = out /\ row.by = by
    <2>1. by \in Nat
      BY <1>2, <1>3
    <2> QED
      BY <1>2, <1>4, <2>1 DEF IsRow, NodeStatuses
  <1>7. IsRow(row)
    BY <1>6 DEF IsRow
  <1>8. one[n] = row /\ (\A m \in Nodes \ {n} : one[m] = nodes[m]) /\ one = [m \in Nodes |-> one[m]]
    BY <1>2, <1>5 DEF IsNodes
  <1>9. RowPassed(nodes, one, n, out, by)
    BY <1>2, <1>6, <1>7, <1>8 DEF RowPassed, IsNodes
  <1>10. Passed(b, n, v) = Scheduled(builds[b].spec, one)
    <2>1. one = [builds[b].nodes EXCEPT ![n].status = "PASSED", ![n].out = Made(b, n, v),
                                        ![n].by = IF n \in Sources THEN 0 ELSE b]
      BY <1>1, <1>2, <1>3, <1>4, <1>5 DEF IsNodes
    <2> QED
      BY <2>1 DEF Passed
  <1>11. SchedulesTo(builds[b].spec, one, Passed(b, n, v))
    BY <1>9, <1>10, ScheduledIs DEF RowPassed
  <1> QED
    BY <1>1, <1>3, <1>9, <1>11

\* A node passes: it was queued, and its build was neither planned nor done.
LEMMA PassStep ==
    ASSUME IInv, NEW b \in DOMAIN builds, NEW n \in Nodes, NEW v, Pass(b, n, v)
    PROVE  IInv'
  <1>1. PICK nodes, old : nodes = builds[b].nodes /\ old = builds[b].status
    OBVIOUS
  <1>2. /\ IsNodes(nodes) /\ StatusFine(old, nodes) /\ b \in Nat \ {0} /\ old \in BuildStatuses
        /\ \A m \in Nodes : IsRow(nodes[m]) /\ nodes[m].by \in 0..b
    BY <1>1, BuildIs
  <1>3. nodes[n].status = "QUEUED"
    BY <1>1 DEF Pass, Queued
  <1>4. PICK new : new = Passed(b, n, v)
    OBVIOUS
  <1>5. PICK one : /\ RowPassed(nodes, one, n, Made(b, n, v), IF n \in Sources THEN 0 ELSE b)
                   /\ SchedulesTo(builds[b].spec, one, new)
    BY <1>1, <1>4, PassedIs
  <1>6. PICK status : status = IF old = "FAILED" THEN old
                               ELSE IF AllDone(Status(new)) THEN "SUCCEEDED" ELSE "RUNNING"
    OBVIOUS
  <1>7. IsNodes(new) /\ Closed(new)
    BY <1>5 DEF SchedulesTo
  <1>8. \A m \in Nodes : new[m].status = "FAILED" <=> nodes[m].status = "FAILED"
    <2> SUFFICES ASSUME NEW m \in Nodes
                 PROVE  new[m].status = "FAILED" <=> nodes[m].status = "FAILED"
      OBVIOUS
    <2>1. new[m].status = "FAILED" <=> one[m].status = "FAILED"
      BY <1>5 DEF SchedulesTo, Ready
    <2>2. one[m].status = "FAILED" <=> nodes[m].status = "FAILED"
      BY <1>3, <1>5 DEF RowPassed
    <2> QED
      BY <2>1, <2>2
  <1>9. \A m \in Nodes : new[m].by \in 0..b
    <2> SUFFICES ASSUME NEW m \in Nodes
                 PROVE  new[m].by \in 0..b
      OBVIOUS
    <2>1. new[m].by = one[m].by
      BY <1>5 DEF SchedulesTo
    <2>2. one[m].by = nodes[m].by \/ one[m].by = 0 \/ one[m].by = b
      BY <1>5 DEF RowPassed
    <2> QED
      BY <1>2, <2>1, <2>2
  <1>10. AllDone(Status(new)) <=> Done(new)
    BY DoneIs
  <1>11. StatusFine(status, new) /\ status \in BuildStatuses
    BY <1>2, <1>6, <1>7, <1>8, <1>10, Given DEF StatusFine, BuildStatuses
  <1>12. old # "SUCCEEDED"
    BY <1>2, <1>3 DEF StatusFine, Done, Accepted
  <1>13. builds' = [builds EXCEPT ![b] = [@ EXCEPT !.nodes = new, !.status = status]]
    BY <1>1, <1>4, <1>6 DEF Pass
  <1>14. UNCHANGED project /\ UNCHANGED <<drafts, plans, configured>>
    BY DEF Pass
  <1> QED
    BY <1>1, <1>7, <1>9, <1>11, <1>12, <1>13, <1>14, ChangeStep

\* A build is added, of a revision there is.
LEMMA NewBuildStep ==
    ASSUME IInv, Numbered', Known \subseteq Known', active'.image = latest', DraftsFine',
           DOMAIN drafts \subseteq DOMAIN drafts',
           UNCHANGED <<plans, configured>>,
           NEW k, k = Len(builds) + 1, NEW B, IsRecord(B), StatusFine(B.status, B.nodes),
           B.spec \in Known', B.plan \in 0..Len(plans),
           \A n \in Nodes : B.nodes[n].by \in 0..k,
           builds' = Append(builds, B)
    PROVE  IInv'
  <1>1. BuildFine(B, k)'
    BY DEF BuildFine
  <1>2. BuildsFine' /\ SucceededAny \subseteq SucceededAny'
    BY <1>1, MoreBuilds DEF IInv
  <1>3. PlansFine'
    BY <1>2, PlansStay DEF IInv
  <1> QED
    BY <1>2, <1>3 DEF IInv, HeadHasLatestImage

\* The newest of the builds of the active revision is one of them.
LEMMA OfActiveIs ==
    ASSUME IInv, OfActive # {}
    PROVE  /\ Newest(OfActive) \in DOMAIN builds /\ builds[Newest(OfActive)].spec = active
           /\ Newest(OfActive) <= Len(builds)
  <1>1. Len(builds) \in Nat /\ DOMAIN builds = 1..Len(builds)
    BY SeqIs DEF IInv, BuildsFine
  <1>2. OfActive \subseteq 1..Len(builds)
    BY <1>1 DEF OfActive
  <1>3. Newest(OfActive) \in OfActive
    BY <1>1, <1>2, Greatest
  <1>4. Newest(OfActive) \in 1..Len(builds)
    BY <1>2, <1>3
  <1> QED
    BY <1>1, <1>3, <1>4 DEF OfActive

\* The row of a node the seed script gives its build, before it schedules it: kept
\* from the build that failed, content, or waiting.
SeedRow(row, n) ==
    \/ /\ Kept(n) /\ row.status = "REUSED"
       /\ row.fp = builds[Newest(OfActive)].nodes[n].fp
       /\ row.out = builds[Newest(OfActive)].nodes[n].out
       /\ row.by = builds[Newest(OfActive)].nodes[n].by
    \/ /\ ~Kept(n) /\ n \in Sources /\ row.status = "PASSED" /\ row.by = 0
       /\ row.out = IF n = TextSource THEN Text(DefaultBrief) ELSE File(SeedImage)
       /\ row.fp = SourceFingerprint(n, GraphOf(active)[n], row.out)
    \/ ~Kept(n) /\ n \notin Sources /\ row.status = "PENDING" /\ row.by = 0

\* SeedNode is one of the three.
LEMMA SeedRowIs ==
    ASSUME IInv, NEW n \in Nodes
    PROVE  IsRow(SeedNode(n)) /\ SeedRow(SeedNode(n), n) /\ SeedNode(n).by \in 0..(Len(builds) + 1)
  <1>1. Len(builds) \in Nat
    BY SeqIs DEF IInv, BuildsFine
  <1>2. CASE Kept(n)
    <2>1. PICK F : F = Newest(OfActive)
      OBVIOUS
    <2>2. F \in DOMAIN builds /\ F <= Len(builds) /\ F \in Nat
      BY <1>2, <2>1, OfActiveIs, BuildIs DEF Kept
    <2>3. PICK row : row = builds[F].nodes[n]
      OBVIOUS
    <2>4. IsRow(row) /\ row.by \in 0..F
      BY <2>2, <2>3, BuildIs
    <2>5. PICK new : new = [row EXCEPT !.status = "REUSED"]
      OBVIOUS
    <2>6. /\ new \in [status : NodeStatuses, fp : {row.fp}, out : {row.out}, by : Nat]
          /\ new.status = "REUSED" /\ new.fp = row.fp /\ new.out = row.out /\ new.by = row.by
      BY <2>4, <2>5 DEF IsRow, NodeStatuses
    <2>7. IsRow(new)
      BY <2>6 DEF IsRow
    <2>8. SeedNode(n) = new
      BY <1>2, <2>1, <2>3, <2>5 DEF SeedNode
    <2>9. new.by \in 0..(Len(builds) + 1)
      BY <1>1, <2>2, <2>4, <2>6
    <2> QED
      BY <1>2, <2>1, <2>3, <2>6, <2>7, <2>8, <2>9 DEF SeedRow
  <1>3. CASE ~Kept(n) /\ n \in Sources
    <2>1. PICK content : content = IF n = TextSource THEN Text(DefaultBrief) ELSE File(SeedImage)
      OBVIOUS
    <2>2. PICK fp : fp = SourceFingerprint(n, GraphOf(active)[n], content)
      OBVIOUS
    <2>3. SeedNode(n) = [status |-> "PASSED", out |-> content, by |-> 0, fp |-> fp]
      BY <1>3, <2>1, <2>2 DEF SeedNode
    <2> QED
      BY <1>1, <1>3, <2>1, <2>2, <2>3 DEF SeedRow, IsRow, NodeStatuses
  <1>4. CASE ~Kept(n) /\ n \notin Sources
    <2>1. PICK fp : fp = <<"specification", GraphOf(active)[n]>>
      OBVIOUS
    <2>2. SeedNode(n) = [status |-> "PENDING", fp |-> fp, out |-> None, by |-> 0]
      BY <1>4, <2>1 DEF SeedNode, Waiting
    <2> QED
      BY <1>1, <1>4, <2>2 DEF SeedRow, IsRow, NodeStatuses
  <1> QED
    BY <1>2, <1>3, <1>4

\* What the seed script gives its build.
LEMMA SeededIs ==
    ASSUME IInv, Seed
    PROVE  \E rows, nodes :
             /\ IsNodes(rows) /\ SchedulesTo(active, rows, nodes)
             /\ \A n \in Nodes : SeedRow(rows[n], n) /\ rows[n].by \in 0..(Len(builds) + 1)
             /\ builds' = Append(builds, NewBuild(active, 0, "QUEUED", nodes))
  <1>1. PICK rows : rows = [n \in Nodes |-> SeedNode(n)]
    OBVIOUS
  <1>2. \A n \in Nodes : rows[n] = SeedNode(n)
    BY <1>1
  <1>3. /\ rows = [n \in Nodes |-> rows[n]]
        /\ \A n \in Nodes : /\ IsRow(rows[n]) /\ SeedRow(rows[n], n)
                            /\ rows[n].by \in 0..(Len(builds) + 1)
    BY <1>1, <1>2, SeedRowIs
  <1>4. IsNodes(rows)
    BY <1>3 DEF IsNodes
  <1>5. SchedulesTo(active, rows, Scheduled(active, rows))
    BY <1>4, ScheduledIs
  <1>6. builds' = Append(builds, NewBuild(active, 0, "QUEUED", Scheduled(active, rows)))
    BY <1>1 DEF Seed
  <1> QED
    BY <1>3, <1>4, <1>5, <1>6

\* A node of the build the seed script makes was not accepted before: its own of the
\* build that failed, or all of a first build but the sources.
LEMMA SomethingToDo ==
    ASSUME IInv, Seed
    PROVE  \E n \in Nodes \ Sources : ~Kept(n)
  <1>1. CASE OfActive = {}
    <2>1. \E n \in Nodes : n \notin Sources
      BY GraphAssumption, InputAssumption
    <2> QED
      BY <1>1, <2>1 DEF Kept
  <1>2. CASE OfActive # {}
    <2>1. PICK F : F = Newest(OfActive)
      OBVIOUS
    <2>2. F \in DOMAIN builds /\ builds[F].status = "FAILED"
      BY <1>2, <2>1, OfActiveIs DEF Seed
    <2>3. StatusFine(builds[F].status, builds[F].nodes)
      BY <2>2, BuildIs
    <2>4. PICK n \in Nodes : builds[F].nodes[n].status = "FAILED"
      BY <2>2, <2>3 DEF StatusFine
    <2>5. n \notin Sources
      BY <2>3, <2>4 DEF StatusFine
    <2>6. ~Kept(n)
      BY <2>1, <2>4 DEF Kept, S!Satisfies
    <2> QED
      BY <2>5, <2>6
  <1> QED
    BY <1>1, <1>2

\* A new build is a record of its parts.
LEMMA NewBuildIs ==
    ASSUME NEW spec \in Specs, NEW plan \in Nat, NEW status \in BuildStatuses,
           NEW nodes, IsNodes(nodes), NEW B, B = NewBuild(spec, plan, status, nodes)
    PROVE  /\ IsRecord(B) /\ B.spec = spec /\ B.plan = plan /\ B.status = status
           /\ B.nodes = nodes
  BY DEF NewBuild, IsRecord

\* The seed script makes the first build, or does a failed one again.
LEMMA SeedStep ==
    ASSUME IInv, Seed
    PROVE  IInv'
  <1>1. PICK rows, nodes :
             /\ IsNodes(rows) /\ SchedulesTo(active, rows, nodes)
             /\ \A n \in Nodes : SeedRow(rows[n], n) /\ rows[n].by \in 0..(Len(builds) + 1)
             /\ builds' = Append(builds, NewBuild(active, 0, "QUEUED", nodes))
    BY SeededIs
  <1>2. PICK n \in Nodes \ Sources : ~Kept(n)
    BY SomethingToDo
  <1>3. PICK B, k : B = NewBuild(active, 0, "QUEUED", nodes) /\ k = Len(builds) + 1
    OBVIOUS
  <1>4. active \in Specs /\ active \in Known /\ "QUEUED" \in BuildStatuses /\ IsNodes(nodes)
    BY <1>1, ProjectIs DEF IInv, Numbered, BuildStatuses, SchedulesTo
  <1>5. IsRecord(B) /\ B.spec = active /\ B.plan = 0 /\ B.status = "QUEUED" /\ B.nodes = nodes
    <2>1. PICK spec, z : spec = active /\ z = 0
      OBVIOUS
    <2>2. spec \in Specs /\ z \in Nat /\ B = NewBuild(spec, z, "QUEUED", nodes)
      BY <1>3, <1>4, <2>1
    <2>3. /\ IsRecord(B) /\ B.spec = spec /\ B.plan = z /\ B.status = "QUEUED"
          /\ B.nodes = nodes
      BY <1>4, <2>2, NewBuildIs
    <2> QED
      BY <2>1, <2>3
  <1>6. StatusFine("QUEUED", nodes)
    <2>1. \A m \in Nodes : nodes[m].status # "FAILED"
      BY <1>1 DEF SchedulesTo, SeedRow
    <2>2. nodes[n].status \in {"PENDING", "QUEUED"}
      BY <1>1, <1>2 DEF SchedulesTo, SeedRow
    <2>3. ~Done(nodes)
      BY <2>2 DEF Done, Accepted
    <2> QED
      BY <1>1, <2>1, <2>3, Given DEF StatusFine, SchedulesTo
  <1>7. \A m \in Nodes : nodes[m].by \in 0..k
    BY <1>1, <1>3 DEF SchedulesTo
  <1>8. UNCHANGED project /\ drafts' = drafts /\ UNCHANGED <<plans, configured>>
    BY DEF Seed
  <1>9. Numbered' /\ Immutable /\ active' = active /\ latest' = latest
    BY <1>8, ProjectStays DEF IInv
  <1>10. Known \subseteq Known' /\ active'.image = latest' /\ DraftsFine'
    BY <1>8, <1>9, DraftsStay DEF IInv, Immutable, HeadHasLatestImage
  <1>11. B.spec \in Known' /\ B.plan \in 0..Len(plans)
    BY <1>4, <1>5, <1>10, SeqIs DEF IInv, PlansFine
  <1> QED
    BY <1>1, <1>3, <1>5, <1>6, <1>7, <1>8, <1>9, <1>10, <1>11, NewBuildStep

\* The baseline of a preview is a build that has succeeded.
LEMMA BaselineIs ==
    ASSUME IInv, SucceededAny # {}, NEW spec
    PROVE  Baseline(spec) \in SucceededAny
  <1>1. Len(builds) \in Nat /\ DOMAIN builds = 1..Len(builds)
    BY SeqIs DEF IInv, BuildsFine
  <1>2. Succeeded(spec) \subseteq SucceededAny /\ SucceededAny \subseteq 1..Len(builds)
    BY <1>1 DEF Succeeded, SucceededAny
  <1>3. Newest(SucceededAny) \in SucceededAny
    BY <1>1, <1>2, Greatest
  <1>4. Succeeded(spec) # {} => Newest(Succeeded(spec)) \in Succeeded(spec)
    BY <1>1, <1>2, Greatest
  <1> QED
    BY <1>2, <1>3, <1>4 DEF Baseline

\* The entries of an impact plan follow from one another.
LEMMA ImpactIs ==
    ASSUME NEW spec, NEW b, NEW base, NEW plan, plan = ImpactOf(spec, b, base)
    PROVE  /\ DOMAIN plan = Nodes
           /\ \A n \in Nodes : plan[n] = Entry(n, Refs(plan, n), Operation(spec, policy),
                                               Content(spec), Candidates(b, base), Blocked)
  <1>1. PICK o, c, d, x : /\ o = Operation(spec, policy) /\ c = Content(spec)
                          /\ d = Candidates(b, base) /\ x = Blocked
    OBVIOUS
  <1>2. plan = ComputeImpact(o, c, d, x)
    BY <1>1 DEF ImpactOf
  <1>3. DOMAIN plan = Nodes /\ \A n \in Nodes : plan[n] = Entry(n, Refs(plan, n), o, c, d, x)
    BY <1>2, PlanIsDecided
  <1> QED
    BY <1>1, <1>3

\* A preview adds a plan.
LEMMA PreviewStep ==
    ASSUME IInv, NEW d \in DOMAIN drafts, Preview(d)
    PROVE  IInv'
  <1>1. PICK b, nodes : /\ b = Baseline(drafts[d].base)
                        /\ nodes = ImpactOf(Proposed(d), b, drafts[d].base)
    OBVIOUS
  <1>2. PICK plan : plan = [draft |-> d, patch |-> drafts[d].patch, env |-> Environment,
                            baseline |-> b, nodes |-> nodes]
    OBVIOUS
  <1>3. /\ plans' = Append(plans, plan) /\ SucceededAny # {}
        /\ UNCHANGED project /\ drafts' = drafts /\ builds' = builds /\ configured' = configured
    BY <1>1, <1>2 DEF Preview
  <1>4. Numbered' /\ Immutable /\ active' = active /\ latest' = latest
    BY <1>3, ProjectStays DEF IInv
  <1>5. b \in SucceededAny
    BY <1>1, <1>3, BaselineIs
  <1>6. DOMAIN nodes = Nodes
    <2>1. PICK spec, base : spec = Proposed(d) /\ base = drafts[d].base
      OBVIOUS
    <2> QED
      BY <1>1, <2>1, ImpactIs
  <1>7. IsPlan(plan)
    BY <1>2, <1>5, <1>6 DEF IsPlan
  <1>8. SucceededAny' = SucceededAny
    BY <1>3 DEF SucceededAny
  <1>9. /\ IsSeq(plans') /\ Len(plans') = Len(plans) + 1 /\ Len(plans) \in Nat
        /\ \A p \in DOMAIN plans' : plans'[p] = plan \/ (p \in DOMAIN plans /\ plans'[p] = plans[p])
    <2>1. PICK s, r : s = plans /\ r = plans'
      OBVIOUS
    <2>2. IsSeq(s) /\ r = Append(s, plan)
      BY <1>3, <2>1 DEF IInv, PlansFine
    <2>3. Extends(r, s, plan)
      BY <2>2, Appended
    <2> QED
      BY <2>1, <2>2, <2>3, SeqIs DEF Extends
  <1>10. PlansFine'
    <2>1. \A p \in DOMAIN plans' : IsPlan(plans'[p])
      BY <1>7, <1>9 DEF IInv, PlansFine
    <2>2. \A p \in DOMAIN plans' : IsPlan(plans[p])'
      BY <1>3, <1>8, <2>1 DEF IsPlan
    <2> QED
      BY <1>9, <2>2 DEF PlansFine
  <1>11. BuildsFine'
    <2>1. Len(plans) <= Len(plans')
      BY <1>9
    <2> QED
      BY <1>3, <1>4, <1>10, <2>1, BuildsStay DEF IInv, Immutable
  <1>12. DraftsFine'
    BY <1>3, <1>4, DraftsStay DEF IInv, Immutable
  <1> QED
    BY <1>3, <1>4, <1>10, <1>11, <1>12 DEF IInv, HeadHasLatestImage

\* The row of a node a commit gives its build: kept, queued or waiting.
PlannedRow(row, entry, candidate, starts) ==
    \/ /\ entry.decision = "REUSE" /\ row.status = "REUSED"
       /\ row.fp = entry.fp /\ row.out = candidate.out /\ row.by = candidate.by
    \/ /\ entry.decision # "REUSE" /\ starts /\ row.status = "QUEUED"
       /\ row.fp = entry.fp /\ row.by = 0
    \/ /\ entry.decision # "REUSE" /\ ~starts /\ row.status = "PENDING" /\ row.by = 0

\* It is one of the three.
LEMMA PlannedIs ==
    ASSUME NEW plan, NEW start, NEW base, \A n \in Nodes : base[n].by \in Nat
    PROVE  /\ IsNodes(Planned(plan, start, base))
           /\ \A n \in Nodes : PlannedRow(Planned(plan, start, base)[n], plan[n], base[n],
                                          Started(plan, start, n))
  <1>1. PICK nodes : nodes = Planned(plan, start, base)
    OBVIOUS
  <1>2. ASSUME NEW n \in Nodes
        PROVE  /\ IsRow(nodes[n])
               /\ PlannedRow(nodes[n], plan[n], base[n], Started(plan, start, n))
    <2>1. PICK fp, out, by : fp = plan[n].fp /\ out = base[n].out /\ by = base[n].by
      OBVIOUS
    <2>2. nodes[n] = CASE plan[n].decision = "REUSE" ->
                            [status |-> "REUSED", fp |-> fp, out |-> out, by |-> by]
                       [] plan[n].decision # "REUSE" /\ Started(plan, start, n) ->
                            [status |-> "QUEUED", fp |-> fp, out |-> None, by |-> 0]
                       [] OTHER -> [status |-> "PENDING", fp |-> fp, out |-> None, by |-> 0]
      BY <1>1, <2>1 DEF Planned, Waiting
    <2>3. CASE plan[n].decision = "REUSE"
      <3>1. nodes[n] = [status |-> "REUSED", fp |-> fp, out |-> out, by |-> by]
        BY <2>2, <2>3
      <3>2. by \in Nat
        BY <2>1
      <3> QED
        BY <2>1, <2>3, <3>1, <3>2 DEF IsRow, NodeStatuses, PlannedRow
    <2>4. CASE plan[n].decision # "REUSE" /\ Started(plan, start, n)
      <3>1. nodes[n] = [status |-> "QUEUED", fp |-> fp, out |-> None, by |-> 0]
        BY <2>2, <2>4
      <3> QED
        BY <2>1, <2>4, <3>1 DEF IsRow, NodeStatuses, PlannedRow
    <2>5. CASE plan[n].decision # "REUSE" /\ ~Started(plan, start, n)
      <3>1. nodes[n] = [status |-> "PENDING", fp |-> fp, out |-> None, by |-> 0]
        BY <2>2, <2>5
      <3> QED
        BY <2>1, <2>5, <3>1 DEF IsRow, NodeStatuses, PlannedRow
    <2> QED
      BY <2>3, <2>4, <2>5
  <1>3. nodes = [n \in Nodes |-> nodes[n]]
    BY <1>1 DEF Planned
  <1>4. IsNodes(nodes)
    BY <1>2, <1>3 DEF IsNodes
  <1> QED
    BY <1>1, <1>2, <1>4

\* What a commit does: the base of its draft is active, its build carries the draft's
\* edit, and its nodes are those of the plan.
LEMMA CommittedIs ==
    ASSUME IInv, NEW p \in DOMAIN plans, NEW start \in Starts, Commit(p, start)
    PROVE  \E d \in DOMAIN drafts, b \in SucceededAny, spec \in Specs : \E nodes :
             /\ drafts[d].base = active /\ spec = Proposed(d) /\ OneField(active, spec)
             /\ b = plans[p].baseline /\ b \in DOMAIN builds
             /\ Adopt(spec) /\ Compiles(spec) /\ spec.image = active.image
             /\ PlanHash(ImpactOf(spec, b, active)) = PlanHash(plans[p].nodes)
             /\ nodes = Planned(plans[p].nodes, start, Candidates(b, active))
             /\ IsNodes(nodes)
             /\ \A n \in Nodes : PlannedRow(nodes[n], plans[p].nodes[n], builds[b].nodes[n],
                                            Started(plans[p].nodes, start, n))
             /\ builds' = Append(builds, NewBuild(spec, p, IF start THEN "QUEUED" ELSE "PLANNED", nodes))
             /\ drafts' = [drafts EXCEPT ![d] = [@ EXCEPT !.status = "COMMITTED"]]
  <1>1. PICK d, b : d = plans[p].draft /\ b = plans[p].baseline
    OBVIOUS
  <1>2. d \in DOMAIN drafts /\ b \in SucceededAny /\ b \in DOMAIN builds
    BY <1>1 DEF IInv, PlansFine, IsPlan, SucceededAny
  <1>3. drafts[d] \in DraftRows /\ drafts[d].base = active
    BY <1>1, <1>2 DEF Commit, Current, IInv, DraftsFine
  <1>4. PICK spec : spec = Proposed(d)
    OBVIOUS
  <1>5. active \in Specs
    BY ProjectIs DEF IInv, Numbered
  <1>6. spec \in Specs /\ spec.image = active.image /\ OneField(active, spec)
    <2>1. PICK a, patch : a = active /\ patch = drafts[d].patch
      OBVIOUS
    <2>2. a \in Specs /\ patch \in Patches
      BY <1>3, <1>5, <2>1 DEF DraftRows
    <2>3. spec = Apply(a, patch)
      BY <1>3, <1>4, <2>1 DEF Proposed
    <2>4. spec \in Specs /\ spec.image = a.image /\ OneField(a, spec)
      BY <2>2, <2>3, ProposedIs
    <2> QED
      BY <2>1, <2>4
  <1>7. /\ Adopt(spec) /\ Compiles(spec)
        /\ PlanHash(ImpactOf(spec, b, active)) = PlanHash(plans[p].nodes)
        /\ builds' = Append(builds,
             NewBuild(spec, p, IF start THEN "QUEUED" ELSE "PLANNED",
                      Planned(plans[p].nodes, start, Candidates(b, active))))
        /\ drafts' = [drafts EXCEPT ![d] = [@ EXCEPT !.status = "COMMITTED"]]
    BY <1>1, <1>3, <1>4 DEF Commit
  <1>8. PICK nodes, plan, base : /\ nodes = Planned(plans[p].nodes, start, Candidates(b, active))
                                 /\ plan = plans[p].nodes /\ base = Candidates(b, active)
    OBVIOUS
  <1>9. \A n \in Nodes : /\ base[n].by = builds[b].nodes[n].by /\ base[n].by \in Nat
                         /\ base[n].out = builds[b].nodes[n].out
    <2> SUFFICES ASSUME NEW n \in Nodes
                 PROVE  /\ base[n].by = builds[b].nodes[n].by /\ base[n].by \in Nat
                        /\ base[n].out = builds[b].nodes[n].out
      OBVIOUS
    <2>1. base[n].by = builds[b].nodes[n].by /\ base[n].out = builds[b].nodes[n].out
      BY <1>8 DEF Candidates
    <2>2. builds[b].nodes[n].by \in 0..b /\ b \in Nat
      BY <1>2, BuildIs
    <2> QED
      BY <2>1, <2>2
  <1>10. /\ IsNodes(nodes)
         /\ \A n \in Nodes : PlannedRow(nodes[n], plan[n], base[n], Started(plan, start, n))
    BY <1>8, <1>9, PlannedIs
  <1>11. \A n \in Nodes : PlannedRow(nodes[n], plan[n], builds[b].nodes[n], Started(plan, start, n))
    BY <1>9, <1>10 DEF PlannedRow
  <1> QED
    BY <1>1, <1>2, <1>3, <1>4, <1>6, <1>7, <1>8, <1>10, <1>11

\* A commit adds its build, and moves the project on by one edit.
LEMMA CommitStep ==
    ASSUME IInv, NEW p \in DOMAIN plans, NEW start \in Starts, Commit(p, start)
    PROVE  IInv' /\ Immutable /\ OneField(active, active')
  <1>0. PICK d \in DOMAIN drafts, b \in SucceededAny, spec \in Specs : \E nodes :
             /\ drafts[d].base = active /\ spec = Proposed(d) /\ OneField(active, spec)
             /\ b = plans[p].baseline /\ b \in DOMAIN builds
             /\ Adopt(spec) /\ Compiles(spec) /\ spec.image = active.image
             /\ PlanHash(ImpactOf(spec, b, active)) = PlanHash(plans[p].nodes)
             /\ nodes = Planned(plans[p].nodes, start, Candidates(b, active))
             /\ IsNodes(nodes)
             /\ \A n \in Nodes : PlannedRow(nodes[n], plans[p].nodes[n], builds[b].nodes[n],
                                            Started(plans[p].nodes, start, n))
             /\ builds' = Append(builds, NewBuild(spec, p, IF start THEN "QUEUED" ELSE "PLANNED", nodes))
             /\ drafts' = [drafts EXCEPT ![d] = [@ EXCEPT !.status = "COMMITTED"]]
    BY CommittedIs
  <1>1. PICK nodes :
             /\ drafts[d].base = active /\ spec = Proposed(d) /\ OneField(active, spec)
             /\ b = plans[p].baseline /\ b \in DOMAIN builds
             /\ Adopt(spec) /\ Compiles(spec) /\ spec.image = active.image
             /\ PlanHash(ImpactOf(spec, b, active)) = PlanHash(plans[p].nodes)
             /\ nodes = Planned(plans[p].nodes, start, Candidates(b, active))
             /\ IsNodes(nodes)
             /\ \A n \in Nodes : PlannedRow(nodes[n], plans[p].nodes[n], builds[b].nodes[n],
                                            Started(plans[p].nodes, start, n))
             /\ builds' = Append(builds, NewBuild(spec, p, IF start THEN "QUEUED" ELSE "PLANNED", nodes))
             /\ drafts' = [drafts EXCEPT ![d] = [@ EXCEPT !.status = "COMMITTED"]]
    BY <1>0
  <1>2. UNCHANGED <<latest, policy>> /\ UNCHANGED <<plans, configured>> /\ start \in BOOLEAN
    BY PatchAssumption DEF Commit
  <1>3. Numbered' /\ Immutable /\ Known' = Known \cup {spec} /\ active' = spec
    BY <1>1, <1>2, AdoptStep DEF IInv
  <1>4. active'.image = latest' /\ OneField(active, active')
    BY <1>1, <1>2, <1>3 DEF IInv, HeadHasLatestImage
  <1>5. DraftsFine' /\ DOMAIN drafts' = DOMAIN drafts
    <2>1. PICK row : row = [drafts[d] EXCEPT !.status = "COMMITTED"]
      OBVIOUS
    <2>2. drafts[d] \in DraftRows
      BY <1>1 DEF IInv, DraftsFine
    <2>3. row \in DraftRows /\ row.base = drafts[d].base
      BY <2>1, <2>2 DEF DraftRows
    <2>4. PICK s, r : s = drafts /\ r = drafts'
      OBVIOUS
    <2>5. IsSeq(s) /\ d \in DOMAIN s
      BY <2>4 DEF IInv, DraftsFine
    <2>6. r = [s EXCEPT ![d] = row]
      BY <1>1, <2>1, <2>4
    <2>7. /\ IsSeq(r) /\ DOMAIN r = DOMAIN s
          /\ \A c \in DOMAIN s : r[c] = IF c = d THEN row ELSE s[c]
      BY <2>5, <2>6, Replaced
    <2> QED
      BY <1>1, <1>3, <2>3, <2>4, <2>7 DEF DraftsFine, IInv
  <1>6. PICK status, B, k : /\ status = IF start THEN "QUEUED" ELSE "PLANNED"
                            /\ B = NewBuild(spec, p, status, nodes) /\ k = Len(builds) + 1
    OBVIOUS
  <1>7. p \in Nat /\ p \in 0..Len(plans)
    BY SeqIs DEF IInv, PlansFine
  <1>8. IsRecord(B) /\ B.spec = spec /\ B.plan = p /\ B.status = status /\ B.nodes = nodes
    <2>1. status \in BuildStatuses
      BY <1>6 DEF BuildStatuses
    <2> QED
      BY <1>1, <1>6, <1>7, <2>1, NewBuildIs
  <1>9. StatusFine(status, nodes)
    <2>1. \A n \in Nodes : /\ nodes[n].status \in {"PENDING", "QUEUED", "REUSED"}
                           /\ ~start => nodes[n].status # "QUEUED"
      BY <1>1 DEF PlannedRow, Started
    <2>2. Done(nodes) => AllKept(nodes)
      BY <2>1 DEF Done, AllKept, Accepted
    <2>3. start => Closed(nodes)
      <3> SUFFICES ASSUME start, NEW n \in Nodes, Ready(nodes, n)
                   PROVE  FALSE
        BY DEF Closed
      <3>1. ~Started(plans[p].nodes, start, n) /\ nodes[n].status = "PENDING"
        BY <1>1 DEF Ready, PlannedRow
      <3>2. PICK m \in Reads(n) : plans[p].nodes[m].decision # "REUSE"
        BY <3>1 DEF Started
      <3>3. m \in Nodes
        BY <3>2, Given
      <3>4. nodes[m].status \notin Accepted
        BY <1>1, <3>2, <3>3 DEF PlannedRow, Accepted
      <3> QED
        BY <3>2, <3>4 DEF Ready
    <2> QED
      BY <1>2, <1>6, <2>1, <2>2, <2>3, Given DEF StatusFine
  <1>10. \A n \in Nodes : nodes[n].by \in 0..k
    <2> SUFFICES ASSUME NEW n \in Nodes
                 PROVE  nodes[n].by \in 0..k
      OBVIOUS
    <2>1. builds[b].nodes[n].by \in 0..b /\ b \in 1..Len(builds) /\ Len(builds) \in Nat
      BY <1>1, BuildIs, SeqIs DEF IInv, BuildsFine
    <2>2. nodes[n].by = 0 \/ nodes[n].by = builds[b].nodes[n].by
      BY <1>1 DEF PlannedRow
    <2> QED
      BY <1>6, <2>1, <2>2
  <1>11. IInv'
    <2>1. /\ builds' = Append(builds, B) /\ B.spec \in Known' /\ B.plan \in 0..Len(plans)
          /\ StatusFine(B.status, B.nodes) /\ \A n \in Nodes : B.nodes[n].by \in 0..k
          /\ Known \subseteq Known' /\ DOMAIN drafts \subseteq DOMAIN drafts'
      BY <1>1, <1>3, <1>5, <1>6, <1>7, <1>8, <1>9, <1>10
    <2> QED
      BY <1>2, <1>3, <1>4, <1>5, <1>6, <1>8, <2>1, NewBuildStep
  <1> QED
    BY <1>3, <1>4, <1>11

-----------------------------------------------------------------------------
(* The invariant holds *)

\* The project has two revisions, the first without a source, and nothing else.
LEMMA Begins == Init => IInv
  <1> SUFFICES ASSUME Init
               PROVE  IInv
    OBVIOUS
  <1>1. PICK spec \in Specs :
          /\ spec.image = SeedImage
          /\ number = [s \in {[spec EXCEPT !.image = NoImage], spec} |-> IF s = spec THEN 2 ELSE 1]
          /\ active = spec
    BY DEF Init
  <1>2. PICK first : first = [spec EXCEPT !.image = NoImage]
    OBVIOUS
  <1>3. SeedImage \in Images /\ SeedImage # NoImage /\ MaxPolicy \in Nat \ {0}
    BY Given, RevisionAssumption
  <1>4. first \in Specs /\ first # spec
    BY <1>1, <1>2, <1>3 DEF Specs
  <1>5. Known = {first, spec} /\ number[first] = 1 /\ number[spec] = 2
    BY <1>1, <1>2, <1>4 DEF Known
  <1>6. Numbers = {1, 2}
    BY <1>5 DEF Numbers
  <1>7. IsFiniteSet(Known) /\ Cardinality(Known) = 2
    <2>1. IsFiniteSet({spec}) /\ Cardinality({spec}) = 1
      BY FS_Singleton
    <2>2. Known = {spec} \cup {first} /\ first \notin {spec}
      BY <1>4, <1>5
    <2> QED
      BY <2>1, <2>2, FS_AddElement
  <1>8. compiled = [s \in Known |-> 1] /\ latest = SeedImage /\ policy = 1
    BY DEF Init
  <1>9. Numbered
    <2>1. 1..2 = {1, 2}
      OBVIOUS
    <2>2. NumberedWithoutGaps
      BY <1>6, <1>7, <2>1 DEF NumberedWithoutGaps
    <2>3. number \in [Known -> Nat \ {0}] /\ compiled \in [Known -> 1..policy]
      BY <1>1, <1>2, <1>5, <1>8
    <2> QED
      BY <1>1, <1>3, <1>4, <1>5, <1>7, <1>8, <2>2, <2>3 DEF Numbered, ProjectTypeOK
  <1>10. drafts = <<>> /\ plans = <<>> /\ builds = <<>> /\ configured \in BOOLEAN
    BY DEF Init
  <1>11. \A s : s = <<>> => IsSeq(s) /\ DOMAIN s = {}
    BY EmptySeq DEF IsSeq
  <1> QED
    BY <1>1, <1>8, <1>9, <1>10, <1>11
    DEF IInv, HeadHasLatestImage, DraftsFine, PlansFine, BuildsFine

\* Every action keeps it.
LEMMA Goes == IInv /\ [Next]_vars => IInv'
  <1> SUFFICES ASSUME IInv, [Next]_vars
               PROVE  IInv'
    OBVIOUS
  <1>1. CASE Edit
    <2>1. ASSUME NEW base \in Known, NEW patch \in Patches, Create(base, patch)
          PROVE  IInv'
      BY <2>1, CreateStep
    <2>2. ASSUME NEW d \in DOMAIN drafts, NEW patch \in Patches, Update(d, patch)
          PROVE  IInv'
      BY <2>2, UpdateStep
    <2>3. ASSUME NEW d \in DOMAIN drafts, Preview(d)
          PROVE  IInv'
      BY <2>3, PreviewStep
    <2>4. ASSUME NEW d \in DOMAIN drafts, Tick(d)
          PROVE  IInv'
      BY <2>4, TickStep
    <2>5. ASSUME NEW p \in DOMAIN plans, NEW start \in Starts, Commit(p, start)
          PROVE  IInv'
      BY <2>5, CommitStep
    <2> QED
      BY <1>1, <2>1, <2>2, <2>3, <2>4, <2>5 DEF Edit
  <1>2. CASE Execute
    <2>1. ASSUME NEW b \in DOMAIN builds, NEW n \in Nodes, NEW v \in Variants, Pass(b, n, v)
          PROVE  IInv'
      BY <2>1, PassStep
    <2>2. ASSUME NEW b \in DOMAIN builds, NEW n \in Nodes, Fail(b, n)
          PROVE  IInv'
      BY <2>2, FailStep
    <2> QED
      BY <1>2, <2>1, <2>2 DEF Execute
  <1>3. CASE Write
    BY <1>3, WriteStep
  <1>4. CASE Seed
    BY <1>4, SeedStep
  <1>5. CASE Deploy
    BY <1>5, DeployStep
  <1>6. CASE UNCHANGED vars
    <2>1. /\ UNCHANGED project /\ drafts' = drafts
          /\ UNCHANGED <<plans, builds>> /\ configured' = configured
      BY <1>6 DEF vars, project
    <2>2. Numbered' /\ Immutable /\ active' = active /\ latest' = latest
      BY <2>1, ProjectStays DEF IInv
    <2>3. DraftsFine'
      BY <2>1, <2>2, DraftsStay DEF IInv, Immutable
    <2> QED
      BY <2>1, <2>2, <2>3, QuietStep DEF IInv, Immutable, HeadHasLatestImage
  <1> QED
    BY <1>1, <1>2, <1>3, <1>4, <1>5, <1>6 DEF Next

\* The statuses of drafts, plans and builds, the numbers of the revisions and the
\* head of the project, for every graph, every set of edits and every bound.
THEOREM Invariance == Spec => []IInv
  BY Begins, Goes, PTL DEF Spec

\* Every row that change sets, impact plans and builds have refers to what exists
\* (the foreign keys of models.py, and the statuses the code writes).
THEOREM TypesHold == Spec => []TypeOK
  <1>1. IInv => TypeOK
    <2> SUFFICES ASSUME IInv
                 PROVE  TypeOK
      OBVIOUS
    <2>1. \A d \in DOMAIN drafts : IsDraft(drafts[d])
      BY DEF IInv, DraftsFine, DraftRows, IsDraft
    <2>2. ASSUME NEW b \in DOMAIN builds
          PROVE  IsBuild(builds[b]) /\ \A n \in Nodes : builds[b].nodes[n].by \in 0..b
      <3>1. /\ BuildFine(builds[b], b) /\ builds[b].status \in BuildStatuses
            /\ \A n \in Nodes : IsRow(builds[b].nodes[n])
        BY BuildIs
      <3>2. \A n \in Nodes : IsNode(builds[b].nodes[n])
        BY <3>1 DEF IsRow, IsNode, NodeStatuses
      <3> QED
        BY <3>1, <3>2 DEF BuildFine, IsBuild, BuildStatuses
    <2> QED
      BY <2>1, <2>2 DEF TypeOK, IInv, Numbered, PlansFine
  <1> QED
    BY <1>1, Invariance, PTL

\* revision_no has neither gap nor repetition, although uploads count on from the
\* active revision (uploads.py) and renames and commits from the highest number.
THEOREM NumberedHolds == Spec => []NumberedWithoutGaps
  <1>1. IInv => NumberedWithoutGaps
    BY DEF IInv, Numbered
  <1> QED
    BY <1>1, Invariance, PTL

\* The active specification names the newest source, although a commit adopts a
\* specification that was made from the base of its draft (changes.py).
THEOREM HeadHolds == Spec => []HeadHasLatestImage
  <1>1. IInv => HeadHasLatestImage
    BY DEF IInv
  <1> QED
    BY <1>1, Invariance, PTL

\* What a build's status says of its nodes is what scheduling.py would decide.
LEMMA Agrees ==
    ASSUME NEW status, NEW nodes, NEW st, st = Status(nodes), IsNodes(nodes),
           StatusFine(status, nodes)
    PROVE  /\ status \in {"SUCCEEDED", "FAILED"} => S!Outcome(st) = status
           /\ status = "RUNNING" => S!Completion(st, "RUNNING") = "RUNNING"
  <1>1. \A n \in Nodes : st[n] = nodes[n].status /\ st[n] \in NodeStatuses
    BY DEF Status, IsNodes, IsRow
  <1>2. CASE status = "FAILED"
    <2>1. S!In(st, {"FAILED"}) # {}
      BY <1>1, <1>2 DEF StatusFine, S!In
    <2> QED
      BY <1>2, <2>1 DEF S!Outcome
  <1>3. CASE status = "SUCCEEDED"
    <2>1. \A n \in Nodes : st[n] \in S!Satisfies
      BY <1>1, <1>3 DEF StatusFine, Done, Accepted, S!Satisfies
    <2>2. S!In(st, {"FAILED"}) = {} /\ S!In(st, {"WAITING_REVIEW"}) = {}
      BY <2>1 DEF S!In, S!Satisfies
    <2>3. S!Unfinished(st) = {} /\ S!In(st, S!Satisfies) = Nodes
      BY <2>1 DEF S!Unfinished, S!In, S!Finished
    <2> QED
      BY <1>3, <2>2, <2>3 DEF S!Outcome
  <1>4. CASE status = "RUNNING"
    <2>1. \A n \in Nodes : st[n] \in {"PENDING", "QUEUED", "PASSED", "REUSED"}
      BY <1>1, <1>4 DEF StatusFine, NodeStatuses
    <2>2. S!In(st, {"FAILED"}) = {} /\ S!In(st, {"WAITING_REVIEW"}) = {}
      BY <2>1 DEF S!In
    <2>3. PICK n \in Nodes : st[n] \in {"PENDING", "QUEUED"}
      BY <1>1, <1>4, <2>1 DEF StatusFine, Done, Accepted
    <2>4. n \in S!Unfinished(st)
      BY <2>3 DEF S!Unfinished, S!In, S!Finished, S!Satisfies
    <2>5. ~S!Stuck(st)
      BY <2>2 DEF S!Stuck
    <2>6. S!Outcome(st) = "RUNNING"
      BY <2>2, <2>4, <2>5 DEF S!Outcome
    <2>7. S!Completion(st, "RUNNING") = S!Outcome(st)
      BY DEF S!Completion, S!Ended
    <2> QED
      BY <1>4, <2>6, <2>7
  <1> QED
    BY <1>2, <1>3, <1>4

\* The worker's own queries for the end of a build (schedule_ready_nodes and the
\* handlers) agree with evaluate_build_completion, whatever the graph, for builds that
\* do not wait for review.
THEOREM CompletionHolds == Spec => []CompletionAgrees
  <1>1. IInv => CompletionAgrees
    <2> SUFFICES ASSUME IInv, NEW b \in DOMAIN builds, NEW st, st = Status(builds[b].nodes)
                 PROVE  /\ builds[b].status \in {"SUCCEEDED", "FAILED"} =>
                             S!Outcome(st) = builds[b].status
                        /\ builds[b].status = "RUNNING" => S!Completion(st, "RUNNING") = "RUNNING"
      BY DEF CompletionAgrees
    <2>1. IsNodes(builds[b].nodes) /\ StatusFine(builds[b].status, builds[b].nodes)
      BY BuildIs
    <2> QED
      BY <2>1, Agrees
  <1> QED
    BY <1>1, Invariance, PTL

\* Of nodes none of which may start, fails or is under way, all are accepted.
LEMMA ClosedIsDone ==
    ASSUME NEW nodes, Closed(nodes),
           \A n \in Nodes : nodes[n].status \in {"PENDING", "PASSED", "REUSED"}
    PROVE  Done(nodes)
  <1>1. PICK waiting : waiting = {n \in Nodes : nodes[n].status = "PENDING"}
    OBVIOUS
  <1>2. ASSUME waiting # {}
        PROVE  FALSE
    <2>1. PICK n \in waiting : Reads(n) \cap waiting = {}
      BY <1>1, <1>2, AcyclicAssumption
    <2>2. n \in Nodes /\ nodes[n].status = "PENDING" /\ Reads(n) \subseteq Nodes
      BY <1>1, Given
    <2>3. \A m \in Reads(n) : nodes[m].status \in Accepted
      BY <1>1, <2>1, <2>2 DEF Accepted
    <2> QED
      BY <2>2, <2>3 DEF Closed, Ready
  <1> QED
    BY <1>1, <1>2 DEF Done, Accepted

\* A build that was started has work queued until it ends, unless its plan keeps
\* every node: between a commit, which queues what may start, and the scheduler,
\* which queues the rest, no node is forgotten, in any graph without a cycle.  Queued is
\* the status of the node, which is an item as long as no build waits for review.
THEOREM AttendedHolds == Spec => []OpenIsAttended
  <1>1. IInv => OpenIsAttended
    <2> SUFFICES ASSUME IInv, NEW b \in DOMAIN builds,
                        builds[b].status \in {"QUEUED", "RUNNING"},
                        NEW st, st = Status(builds[b].nodes),
                        S!In(st, {"QUEUED"}) = {}
                 PROVE  S!In(st, {"REUSED"}) = Nodes
      BY DEF OpenIsAttended
    <2>1. PICK nodes, status : nodes = builds[b].nodes /\ status = builds[b].status
      OBVIOUS
    <2>2. IsNodes(nodes) /\ StatusFine(status, nodes) /\ status \in {"QUEUED", "RUNNING"}
      BY <2>1, BuildIs
    <2>3. \A n \in Nodes : st[n] = nodes[n].status
      BY <2>1 DEF Status
    <2>4. \A n \in Nodes : nodes[n].status \in {"PENDING", "PASSED", "REUSED"}
      BY <2>2, <2>3 DEF StatusFine, IsNodes, IsRow, NodeStatuses, S!In
    <2>5. Done(nodes)
      BY <2>2, <2>4, ClosedIsDone DEF StatusFine
    <2>6. AllKept(nodes)
      BY <2>2, <2>5 DEF StatusFine
    <2> QED
      BY <2>3, <2>6 DEF AllKept, S!In
  <1> QED
    BY <1>1, Invariance, PTL

\* A step moves the active specification by one field, from where it is.
OneFieldAtATime == active' # active => OneField(active, active')

\* Commits of drafts made on different revisions, undone and redone, with uploads
\* and renames between them, lose no edit and apply none twice: the check of the
\* base (changes.py, _assert_plan_current) and the project's lock are enough.
THEOREM NoLostUpdateHolds == Spec => NoLostUpdate
  <1>1. ASSUME IInv, [Next]_vars
        PROVE  [OneFieldAtATime]_vars
    <2>1. CASE Edit
      <3>1. ASSUME NEW p \in DOMAIN plans, NEW start \in Starts, Commit(p, start)
            PROVE  OneField(active, active')
        BY <1>1, <3>1, CommitStep
      <3>2. (\E p \in DOMAIN plans, start \in Starts : Commit(p, start)) \/ active' = active
        BY <2>1 DEF Edit, Create, Update, Preview, Tick, project
      <3> QED
        BY <3>1, <3>2 DEF OneFieldAtATime
    <2>2. CASE Write
      BY <1>1, <2>2, WriteStep DEF OneFieldAtATime
    <2>3. CASE Execute \/ Seed \/ Deploy
      <3>1. active' = active
        BY <2>3 DEF Execute, Pass, Fail, Seed, Deploy, NewPolicies, project
      <3> QED
        BY <3>1 DEF OneFieldAtATime
    <2> QED
      BY <1>1, <2>1, <2>2, <2>3 DEF Next
  <1>2. IInv /\ [Next]_vars => [OneFieldAtATime]_vars
    BY <1>1
  <1> QED
    BY <1>2, Invariance, PTL DEF Spec, NoLostUpdate, OneFieldAtATime

-----------------------------------------------------------------------------
(* What the rows were made from *)

\* Outputs are told from no output by what they are.
NoneIsNoOutput == \A x, y : None # Text(x) /\ None # File(x) /\ None # Bytes(x, y)

\* Only the outputs of what a node reads are selected for it.
LEMMA SameSelected ==
    ASSUME NEW n \in Nodes, NEW old, NEW new, \A m \in Reads(n) : new[m].out = old[m].out
    PROVE  Selected(new, n) = Selected(old, n)
  <1>1. \A i \in DOMAIN Inputs[n] : new[Inputs[n][i]].out = old[Inputs[n][i]].out
    BY DEF Reads
  <1> QED
    BY <1>1 DEF Selected

\* A row that does not change is as fine as it was, if what it reads does not.
LEMMA FineStays ==
    ASSUME NEW graph, NEW brief, NEW planned, NEW old, NEW new, NEW n \in Nodes,
           NodeFine(graph, brief, planned, old, n), new[n] = old[n],
           old[n].status \in Accepted \cup {"QUEUED"} =>
             \A m \in Reads(n) : old[m].status \in Accepted =>
                                   new[m].status \in Accepted /\ new[m].out = old[m].out
    PROVE  NodeFine(graph, brief, planned, new, n)
  <1>1. CASE old[n].status \notin Accepted \cup {"QUEUED"}
    BY <1>1 DEF NodeFine
  <1>2. CASE old[n].status \in Accepted \cup {"QUEUED"}
    <2>1. \A m \in Reads(n) : old[m].status \in Accepted
      BY <1>2 DEF NodeFine
    <2>2. \A m \in Reads(n) : new[m].status \in Accepted /\ new[m].out = old[m].out
      BY <1>2, <2>1
    <2>3. Selected(new, n) = Selected(old, n)
      BY <2>2, SameSelected
    <2> QED
      BY <2>2, <2>3 DEF NodeFine
  <1> QED
    BY <1>1, <1>2

\* What is fine stays so when the nodes that may start are queued.
LEMMA ScheduledFine ==
    ASSUME NEW spec, NEW graph, graph = GraphOf(spec), NEW brief, NEW planned,
           NEW nodes, \A n \in Nodes : NodeFine(graph, brief, planned, nodes, n),
           \A n \in Sources : nodes[n].status # "PENDING",
           NEW s, SchedulesTo(spec, nodes, s)
    PROVE  \A n \in Nodes : NodeFine(graph, brief, planned, s, n)
  <1> SUFFICES ASSUME NEW n \in Nodes
               PROVE  NodeFine(graph, brief, planned, s, n)
    OBVIOUS
  <1>1. Reads(n) \subseteq Nodes
    BY Given
  <1>2. \A m \in Nodes : /\ s[m].out = nodes[m].out
                         /\ nodes[m].status \in Accepted => s[m].status \in Accepted
    BY DEF SchedulesTo, Ready, Accepted
  <1>3. Selected(s, n) = Selected(nodes, n)
    BY <1>1, <1>2, SameSelected
  <1>4. CASE Ready(nodes, n)
    <2>1. s[n].status = "QUEUED" /\ s[n].fp = Fingerprint(graph[n], Selected(nodes, n))
      BY <1>4 DEF SchedulesTo
    <2>2. n \notin Sources
      BY <1>4 DEF Ready
    <2>3. \A m \in Reads(n) : s[m].status \in Accepted
      BY <1>1, <1>2, <1>4 DEF Ready
    <2>4. n # TextSource
      BY <2>2, Given
    <2> QED
      BY <1>3, <2>1, <2>2, <2>3, <2>4 DEF NodeFine, Accepted
  <1>5. CASE ~Ready(nodes, n)
    <2>1. s[n].status = nodes[n].status /\ s[n].fp = nodes[n].fp /\ s[n].out = nodes[n].out
      BY <1>5 DEF SchedulesTo
    <2>2. nodes[n].status \in Accepted \cup {"QUEUED"} =>
            \A m \in Reads(n) : s[m].status \in Accepted
      BY <1>1, <1>2 DEF NodeFine
    <2>3. NodeFine(graph, brief, planned, nodes, n)
      OBVIOUS
    <2> QED
      BY <1>3, <2>1, <2>2, <2>3 DEF NodeFine
  <1> QED
    BY <1>4, <1>5

\* What is fine stays so when a queued node passes, with an output made under its
\* fingerprint: nothing that has started reads it.
LEMMA PassedFine ==
    ASSUME NEW graph, NEW brief, NEW planned, NEW nodes,
           \A m \in Nodes : NodeFine(graph, brief, planned, nodes, m),
           NEW n \in Nodes, nodes[n].status = "QUEUED",
           NEW one, NEW out, NEW by, RowPassed(nodes, one, n, out, by), IsOutput(out),
           n \notin Sources => \E v \in Variants : out = Bytes(nodes[n].fp, v),
           n = TextSource => out = Text(brief)
    PROVE  \A m \in Nodes : NodeFine(graph, brief, planned, one, m)
  <1>1. \A m \in Nodes : nodes[m].status \in Accepted => m # n
    BY DEF Accepted
  <1>2. \A m \in Nodes : nodes[m].status \in Accepted =>
                           one[m].status \in Accepted /\ one[m].out = nodes[m].out
    BY <1>1 DEF RowPassed
  <1>3. ASSUME NEW m \in Nodes \ {n}
        PROVE  NodeFine(graph, brief, planned, one, m)
    <2>1. Reads(m) \subseteq Nodes /\ one[m] = nodes[m]
      BY Given DEF RowPassed
    <2> QED
      BY <1>2, <2>1, FineStays
  <1>4. NodeFine(graph, brief, planned, one, n)
    <2>1. Reads(n) \subseteq Nodes
      BY Given
    <2>2. /\ \A m \in Reads(n) : nodes[m].status \in Accepted
          /\ n \notin Sources => nodes[n].fp = Fingerprint(graph[n], Selected(nodes, n))
          /\ n = TextSource => nodes[n].fp = SourceFingerprint(n, nodes[n].fp[3], Text(brief))
      BY DEF NodeFine
    <2>3. \A m \in Reads(n) : one[m].status \in Accepted /\ one[m].out = nodes[m].out
      BY <1>2, <2>1, <2>2
    <2>4. Selected(one, n) = Selected(nodes, n)
      BY <2>3, SameSelected
    <2>5. one[n].status = "PASSED" /\ one[n].out = out /\ one[n].fp = nodes[n].fp
      BY DEF RowPassed
    <2> QED
      BY <2>2, <2>3, <2>4, <2>5 DEF NodeFine, Accepted
  <1> QED
    BY <1>3, <1>4

\* The graph of a revision there is stays what it was.
LEMMA GraphStays ==
    ASSUME Immutable, NEW spec \in Known
    PROVE  GraphOf(spec)' = GraphOf(spec)
  BY DEF Immutable, GraphOf

\* The rows of a build stay fine while revisions are only added.
LEMMA RowStays ==
    ASSUME Immutable, NEW B, B.spec \in Known, NEW n, RowFine(B, n)
    PROVE  RowFine(B, n)'
  <1>1. PICK spec, graph : spec = B.spec /\ graph = GraphOf(spec)
    OBVIOUS
  <1>2. GraphOf(spec)' = graph
    BY <1>1, GraphStays
  <1>3. NodeFine(graph, spec.brief, B.plan # 0, B.nodes, n)
    BY <1>1 DEF RowFine
  <1> QED
    BY <1>1, <1>2, <1>3 DEF RowFine

\* An attempt that passed is not undone.
Lasting ==
    \A c \in DOMAIN builds, n \in Nodes :
       builds[c].nodes[n].status = "PASSED" =>
         /\ c \in DOMAIN builds'
         /\ builds'[c].nodes[n].status = "PASSED"
         /\ builds'[c].nodes[n].fp = builds[c].nodes[n].fp

\* So what was attempted for an output stays so.
LEMMA AttemptStays ==
    ASSUME IInv, Lasting, NEW B, NEW b \in DOMAIN builds, NEW n \in Nodes, Attempted(B, b, n)
    PROVE  Attempted(B, b, n)'
  <1> SUFFICES ASSUME n \notin Sources, B.nodes[n].status \in Accepted,
                      NEW by, by = B.nodes[n].by
               PROVE  /\ by \in 1..b
                      /\ builds'[by].nodes[n].status = "PASSED"
                      /\ builds'[by].nodes[n].fp = B.nodes[n].fp
    BY DEF Attempted
  <1>1. /\ by \in 1..b
        /\ builds[by].nodes[n].status = "PASSED"
        /\ builds[by].nodes[n].fp = B.nodes[n].fp
    BY DEF Attempted
  <1>2. by \in DOMAIN builds
    BY <1>1, SeqIs DEF IInv, BuildsFine
  <1> QED
    BY <1>1, <1>2 DEF Lasting

\* The rows, when no build changes.
LEMMA RowsStay ==
    ASSUME IInv, RowsFine, Immutable, builds' = builds
    PROVE  RowsFine'
  <1>1. ASSUME NEW b \in DOMAIN builds, NEW n \in Nodes
        PROVE  RowFine(builds[b], n)' /\ Attempted(builds[b], b, n)'
    <2>1. PICK B : B = builds[b]
      OBVIOUS
    <2>2. RowFine(B, n) /\ Attempted(B, b, n) /\ B.spec \in Known
      BY <2>1, BuildIs DEF RowsFine
    <2>3. Lasting
      BY DEF Lasting
    <2>4. RowFine(B, n)' /\ Attempted(B, b, n)'
      BY <2>2, <2>3, RowStays, AttemptStays
    <2> QED
      BY <2>1, <2>4
  <1> QED
    BY <1>1 DEF RowsFine

\* What becomes of the accepted rows of build b: those that passed stay, and those
\* that are new have passed here.
Stands(old, new, b) ==
    \A n \in Nodes :
      /\ old[n].status = "PASSED" => new[n].status = "PASSED" /\ new[n].fp = old[n].fp
      /\ n \notin Sources /\ new[n].status \in Accepted =>
           \/ new[n].status = "PASSED" /\ new[n].by = b
           \/ new[n] = old[n]

\* The rows, when those of one build change.
LEMMA RowsChange ==
    ASSUME IInv, RowsFine, Immutable, NEW b \in DOMAIN builds,
           NEW C, builds' = [builds EXCEPT ![b] = C], C.spec = builds[b].spec,
           \A n \in Nodes : RowFine(C, n),
           Stands(builds[b].nodes, C.nodes, b)
    PROVE  RowsFine'
  <1>1. b \in Nat \ {0} /\ C.spec \in Known
    BY BuildIs
  <1>2. /\ DOMAIN builds' = DOMAIN builds
        /\ \A c \in DOMAIN builds : builds'[c] = IF c = b THEN C ELSE builds[c]
    <2>1. IsSeq(builds)
      BY DEF IInv, BuildsFine
    <2> QED
      BY <2>1, SeqIs
  <1>3. Lasting
    BY <1>2 DEF Lasting, Stands
  <1>4. ASSUME NEW c \in DOMAIN builds, c # b, NEW n \in Nodes
        PROVE  RowFine(builds[c], n)' /\ Attempted(builds[c], c, n)'
    <2>1. PICK B : B = builds[c]
      OBVIOUS
    <2>2. RowFine(B, n) /\ Attempted(B, c, n) /\ B.spec \in Known
      BY <2>1, BuildIs DEF RowsFine
    <2>3. RowFine(B, n)' /\ Attempted(B, c, n)'
      BY <1>3, <2>2, RowStays, AttemptStays
    <2>4. builds'[c] = B
      BY <1>2, <1>4, <2>1
    <2> QED
      BY <2>3, <2>4
  <1>5. ASSUME NEW n \in Nodes
        PROVE  RowFine(builds[b], n)' /\ Attempted(builds[b], b, n)'
    <2>1. RowFine(C, n)'
      BY <1>1, RowStays
    <2>2. Attempted(C, b, n)'
      <3>1. CASE C.nodes[n] = builds[b].nodes[n]
        <4>1. Attempted(C, b, n)
          BY <3>1 DEF RowsFine, Attempted
        <4> QED
          BY <1>3, <4>1, AttemptStays
      <3>2. CASE C.nodes[n].status = "PASSED" /\ C.nodes[n].by = b
        BY <1>1, <1>2, <3>2 DEF Attempted
      <3>3. CASE n \in Sources \/ C.nodes[n].status \notin Accepted
        BY <3>3 DEF Attempted
      <3> QED
        BY <3>1, <3>2, <3>3 DEF Stands
    <2>3. builds'[b] = C
      BY <1>2
    <2> QED
      BY <2>1, <2>2, <2>3
  <1>6. \A c \in DOMAIN builds : \A n \in Nodes : RowFine(builds[c], n)' /\ Attempted(builds[c], c, n)'
    BY <1>4, <1>5
  <1> QED
    BY <1>2, <1>6 DEF RowsFine

\* The rows, when a build is added: what it keeps was attempted before.
LEMMA RowsMore ==
    ASSUME IInv, RowsFine, Immutable,
           NEW B, builds' = Append(builds, B),
           \A n \in Nodes : RowFine(B, n)',
           \A n \in Nodes \ Sources : B.nodes[n].status \in Accepted =>
             \E c \in DOMAIN builds :
                /\ Attempted(builds[c], c, n) /\ builds[c].nodes[n].status \in Accepted
                /\ builds[c].nodes[n].by = B.nodes[n].by
                /\ builds[c].nodes[n].fp = B.nodes[n].fp
    PROVE  RowsFine'
  <1>0. PICK k : k = Len(builds) + 1
    OBVIOUS
  <1>1. /\ DOMAIN builds = 1..Len(builds) /\ Len(builds) \in Nat
        /\ DOMAIN builds' = DOMAIN builds \cup {k}
        /\ \A b \in DOMAIN builds : builds'[b] = builds[b]
        /\ builds'[k] = B
    <2>1. PICK s, r : s = builds /\ r = builds'
      OBVIOUS
    <2>2. IsSeq(s) /\ r = Append(s, B)
      BY <2>1 DEF IInv, BuildsFine
    <2>3. Extends(r, s, B)
      BY <2>2, Appended
    <2> QED
      BY <1>0, <2>1, <2>2, <2>3, SeqIs DEF Extends
  <1>2. Lasting
    BY <1>1 DEF Lasting
  <1>3. ASSUME NEW b \in DOMAIN builds, NEW n \in Nodes
        PROVE  RowFine(builds[b], n)' /\ Attempted(builds[b], b, n)'
    <2>1. PICK C : C = builds[b]
      OBVIOUS
    <2>2. RowFine(C, n) /\ Attempted(C, b, n) /\ C.spec \in Known
      BY <2>1, BuildIs DEF RowsFine
    <2>3. RowFine(C, n)' /\ Attempted(C, b, n)'
      BY <1>2, <2>2, RowStays, AttemptStays
    <2>4. builds'[b] = C
      BY <1>1, <2>1
    <2> QED
      BY <2>3, <2>4
  <1>4. ASSUME NEW n \in Nodes
        PROVE  RowFine(builds[k], n)' /\ Attempted(builds[k], k, n)'
    <2>1. Attempted(B, k, n)'
      <3>1. CASE n \in Sources \/ B.nodes[n].status \notin Accepted
        BY <3>1 DEF Attempted
      <3>2. CASE n \notin Sources /\ B.nodes[n].status \in Accepted
        <4>1. PICK c \in DOMAIN builds :
                /\ Attempted(builds[c], c, n) /\ builds[c].nodes[n].status \in Accepted
                /\ builds[c].nodes[n].by = B.nodes[n].by
                /\ builds[c].nodes[n].fp = B.nodes[n].fp
          BY <3>2
        <4>2. PICK by : by = B.nodes[n].by
          OBVIOUS
        <4>3. /\ by \in 1..c /\ builds[by].nodes[n].status = "PASSED"
              /\ builds[by].nodes[n].fp = B.nodes[n].fp
          BY <3>2, <4>1, <4>2 DEF Attempted
        <4>4. by \in DOMAIN builds /\ by \in 1..k
          BY <1>0, <1>1, <4>3
        <4>5. /\ builds'[by].nodes[n].status = "PASSED"
              /\ builds'[by].nodes[n].fp = B.nodes[n].fp
          BY <1>1, <4>3, <4>4
        <4> QED
          BY <3>2, <4>2, <4>4, <4>5 DEF Attempted
      <3> QED
        BY <3>1, <3>2
    <2> QED
      BY <1>1, <2>1
  <1> QED
    BY <1>1, <1>3, <1>4 DEF RowsFine

\* The rows when a node fails: nothing that has started reads it.
LEMMA FailKeepsRows ==
    ASSUME IInv, RowsFine, NEW b \in DOMAIN builds, NEW n \in Nodes, Fail(b, n)
    PROVE  RowsFine'
  <1>1. PICK B, nodes, graph : /\ B = builds[b] /\ nodes = B.nodes
                               /\ graph = GraphOf(B.spec)
    OBVIOUS
  <1>2. IsRecord(B) /\ IsNodes(nodes) /\ nodes[n].status = "QUEUED" /\ n \notin Sources
    BY <1>1, BuildIs DEF Fail, Queued, BuildFine
  <1>3. PICK new : new = [nodes EXCEPT ![n] = [@ EXCEPT !.status = "FAILED"]]
    OBVIOUS
  <1>4. PICK C : C = [B EXCEPT !.nodes = new, !.status = "FAILED"]
    OBVIOUS
  <1>5. C.spec = B.spec /\ C.plan = B.plan /\ C.nodes = new
    BY <1>2, <1>4 DEF IsRecord
  <1>6. builds' = [builds EXCEPT ![b] = C]
    BY <1>1, <1>3, <1>4 DEF Fail
  <1>7. new[n].status = "FAILED" /\ \A m \in Nodes \ {n} : new[m] = nodes[m]
    <2>1. PICK row : row = [nodes[n] EXCEPT !.status = "FAILED"]
      OBVIOUS
    <2>2. row.status = "FAILED"
      BY <1>2, <2>1 DEF IsNodes, IsRow
    <2> QED
      BY <1>2, <1>3, <2>1, <2>2 DEF IsNodes
  <1>8. ASSUME NEW m \in Nodes
        PROVE  RowFine(C, m)
    <2>1. NodeFine(graph, B.spec.brief, B.plan # 0, new, m)
      <3>1. CASE m = n
        BY <1>7, <3>1 DEF NodeFine, Accepted
      <3>2. CASE m # n
        <4>1. NodeFine(graph, B.spec.brief, B.plan # 0, nodes, m)
          BY <1>1 DEF RowsFine, RowFine
        <4>2. \A r \in Reads(m) : nodes[r].status \in Accepted => new[r] = nodes[r]
          BY <1>2, <1>7, Given DEF Accepted
        <4>3. new[m] = nodes[m]
          BY <1>7, <3>2
        <4> QED
          BY <4>1, <4>2, <4>3, FineStays
      <3> QED
        BY <3>1, <3>2
    <2> QED
      BY <1>1, <1>5, <2>1 DEF RowFine
  <1>9. \A m \in Nodes :
          /\ nodes[m].status = "PASSED" => new[m] = nodes[m]
          /\ new[m].status \in Accepted => new[m] = nodes[m]
    BY <1>2, <1>7 DEF Accepted
  <1>10. Immutable
    BY ProjectStays DEF Fail, IInv
  <1>11. Stands(builds[b].nodes, C.nodes, b)
    BY <1>1, <1>5, <1>9 DEF Stands
  <1> QED
    BY <1>1, <1>5, <1>6, <1>8, <1>10, <1>11, RowsChange

\* The rows when a node passes.
LEMMA PassKeepsRows ==
    ASSUME IInv, RowsFine, NEW b \in DOMAIN builds, NEW n \in Nodes, NEW v \in Variants,
           Pass(b, n, v)
    PROVE  RowsFine'
  <1>1. PICK B, nodes, graph, spec : /\ B = builds[b] /\ nodes = B.nodes /\ spec = B.spec
                                     /\ graph = GraphOf(spec)
    OBVIOUS
  <1>2. /\ IsRecord(B) /\ IsNodes(nodes) /\ StatusFine(B.status, nodes) /\ b \in Nat \ {0}
        /\ nodes[n].status = "QUEUED"
    BY <1>1, BuildIs DEF Pass, Queued, BuildFine
  <1>3. PICK new, out, by : /\ new = Passed(b, n, v) /\ out = Made(b, n, v)
                            /\ by = IF n \in Sources THEN 0 ELSE b
    OBVIOUS
  <1>4. PICK one : RowPassed(nodes, one, n, out, by) /\ SchedulesTo(spec, one, new)
    BY <1>1, <1>3, PassedIs
  <1>5. PICK status : status = IF B.status = "FAILED" THEN "FAILED"
                               ELSE IF AllDone(Status(new)) THEN "SUCCEEDED" ELSE "RUNNING"
    OBVIOUS
  <1>6. PICK C : C = [B EXCEPT !.nodes = new, !.status = status]
    OBVIOUS
  <1>7. C.spec = spec /\ C.plan = B.plan /\ C.nodes = new
    BY <1>1, <1>2, <1>6 DEF IsRecord
  <1>8. builds' = [builds EXCEPT ![b] = C]
    BY <1>1, <1>3, <1>5, <1>6 DEF Pass
  <1>9. \A m \in Nodes : NodeFine(graph, spec.brief, B.plan # 0, nodes, m)
    BY <1>1 DEF RowsFine, RowFine
  <1>10. /\ IsOutput(out)
         /\ n \notin Sources => \E u \in Variants : out = Bytes(nodes[n].fp, u)
         /\ n = TextSource => out = Text(spec.brief)
    <2>1. CASE n = TextSource
      <3>1. out = Text(spec.brief)
        BY <1>1, <1>3, <2>1, GraphAssumption DEF Made
      <3> QED
        BY <2>1, <3>1, Given DEF IsOutput, Text
    <2>2. CASE n = ImageSource
      <3>1. n # TextSource
        BY <2>2, GraphAssumption
      <3>2. out = File(latest)
        BY <1>3, <2>2, <3>1 DEF Made
      <3> QED
        BY <2>2, <3>1, <3>2, Given DEF IsOutput, File
    <2>3. CASE n # TextSource /\ n # ImageSource
      <3>1. out = Bytes(nodes[n].fp, v)
        BY <1>1, <1>3, <2>3 DEF Made
      <3> QED
        BY <2>3, <3>1 DEF IsOutput, Bytes
    <2> QED
      BY <2>1, <2>2, <2>3
  <1>11. \A m \in Nodes : NodeFine(graph, spec.brief, B.plan # 0, one, m)
    BY <1>2, <1>4, <1>9, <1>10, PassedFine
  <1>12. \A m \in Sources : one[m].status # "PENDING"
    <2> SUFFICES ASSUME NEW m \in Sources
                 PROVE  one[m].status # "PENDING"
      OBVIOUS
    <2>1. Closed(nodes) /\ m \in Nodes /\ Reads(m) = {}
      BY <1>2, Given DEF StatusFine
    <2>2. nodes[m].status # "PENDING"
      BY <2>1 DEF Closed, Ready
    <2> QED
      BY <1>4, <2>1, <2>2 DEF RowPassed
  <1>13. \A m \in Nodes : NodeFine(graph, spec.brief, B.plan # 0, new, m)
    BY <1>1, <1>4, <1>11, <1>12, ScheduledFine
  <1>14. \A m \in Nodes : RowFine(C, m)
    BY <1>1, <1>7, <1>13 DEF RowFine
  <1>15. ASSUME NEW m \in Nodes
         PROVE  /\ nodes[m].status = "PASSED" =>
                     new[m].status = "PASSED" /\ new[m].fp = nodes[m].fp
                /\ m \notin Sources /\ new[m].status \in Accepted =>
                     \/ new[m].status = "PASSED" /\ new[m].by = b
                     \/ new[m] = nodes[m]
    <2>1. CASE m = n
      <3>1. one[n].status = "PASSED" /\ one[n].by = by /\ ~Ready(one, n)
        BY <1>4 DEF RowPassed, Ready
      <3>2. new[n].status = "PASSED" /\ new[n].by = by
        BY <1>4, <3>1 DEF SchedulesTo
      <3> QED
        BY <1>2, <1>3, <2>1, <3>2
    <2>2. CASE m # n
      <3>1. one[m] = nodes[m]
        BY <1>4, <2>2 DEF RowPassed
      <3>2. CASE Ready(one, m)
        BY <1>4, <3>1, <3>2 DEF SchedulesTo, Ready, Accepted
      <3>3. CASE ~Ready(one, m)
        <4>1. /\ new[m].status = nodes[m].status /\ new[m].fp = nodes[m].fp
              /\ new[m].out = nodes[m].out /\ new[m].by = nodes[m].by
          BY <1>4, <3>1, <3>3 DEF SchedulesTo
        <4>2. IsRow(new[m]) /\ IsRow(nodes[m])
          BY <1>2, <1>4 DEF SchedulesTo, IsNodes
        <4>3. new[m] = nodes[m]
          BY <4>1, <4>2 DEF IsRow
        <4> QED
          BY <4>3
      <3> QED
        BY <3>2, <3>3
    <2> QED
      BY <2>1, <2>2
  <1>16. Immutable
    BY ProjectStays DEF Pass, IInv
  <1>17. Stands(builds[b].nodes, C.nodes, b)
    BY <1>1, <1>7, <1>15 DEF Stands
  <1> QED
    BY <1>1, <1>7, <1>8, <1>14, <1>16, <1>17, RowsChange

\* The rows when the seed script makes a build: what it keeps of the build that
\* failed it keeps with everything that was read for it.
LEMMA SeedKeepsRows ==
    ASSUME NoneIsNoOutput, IInv, RowsFine, Seed
    PROVE  RowsFine'
  <1>1. PICK rows, nodes :
             /\ IsNodes(rows) /\ SchedulesTo(active, rows, nodes)
             /\ \A n \in Nodes : SeedRow(rows[n], n) /\ rows[n].by \in 0..(Len(builds) + 1)
             /\ builds' = Append(builds, NewBuild(active, 0, "QUEUED", nodes))
    BY SeededIs
  <1>2. PICK B, spec, graph, F : /\ B = NewBuild(active, 0, "QUEUED", nodes) /\ spec = active
                                 /\ graph = GraphOf(spec) /\ F = Newest(OfActive)
    OBVIOUS
  <1>3. B.spec = spec /\ B.plan = 0 /\ B.nodes = nodes /\ spec \in Known
    BY <1>2, ProjectIs DEF NewBuild, IInv, Numbered
  <1>4. ASSUME NEW n \in Nodes, Kept(n)
        PROVE  /\ F \in DOMAIN builds /\ builds[F].nodes[n].status \in Accepted
               /\ NodeFine(graph, spec.brief, builds[F].plan # 0, builds[F].nodes, n)
               /\ \A m \in Reads(n) : Kept(m)
    <2>1. F \in DOMAIN builds /\ builds[F].spec = spec
      BY <1>2, <1>4, OfActiveIs DEF Kept
    <2>2. \A m \in Nodes : NodeFine(graph, spec.brief, builds[F].plan # 0, builds[F].nodes, m)
      BY <1>2, <2>1 DEF RowsFine, RowFine
    <2>3. builds[F].nodes[n].status \in Accepted
      BY <1>2, <1>4 DEF Kept, S!Satisfies, Accepted
    <2>4. \A m \in Reads(n) : m \in Nodes /\ builds[F].nodes[m].status \in Accepted
      BY <2>2, <2>3, Given DEF NodeFine
    <2>5. \A m \in Reads(n) : builds[F].nodes[m].out # None
      BY <2>2, <2>4 DEF NodeFine, IsOutput, NoneIsNoOutput
    <2>6. \A m \in Reads(n) : Kept(m)
      BY <1>2, <1>4, <2>4, <2>5 DEF Kept, S!Satisfies, Accepted
    <2> QED
      BY <2>1, <2>2, <2>3, <2>6
  <1>5. ASSUME NEW n \in Nodes
        PROVE  NodeFine(graph, spec.brief, FALSE, rows, n)
    <2>1. CASE Kept(n)
      <3>1. PICK old, planned : old = builds[F].nodes /\ planned = (builds[F].plan # 0)
        OBVIOUS
      <3>2. /\ old[n].status \in Accepted /\ NodeFine(graph, spec.brief, planned, old, n)
            /\ \A m \in Reads(n) : Kept(m) /\ m \in Nodes
        BY <1>4, <2>1, <3>1, Given
      <3>3. \A m \in Nodes : Kept(m) => /\ rows[m].status = "REUSED"
                                        /\ rows[m].fp = old[m].fp /\ rows[m].out = old[m].out
        BY <1>1, <1>2, <3>1 DEF SeedRow
      <3>4. Selected(rows, n) = Selected(old, n)
        BY <3>2, <3>3, SameSelected
      <3> QED
        BY <2>1, <3>2, <3>3, <3>4 DEF NodeFine, Accepted
    <2>2. CASE ~Kept(n) /\ n \in Sources
      <3>1. /\ rows[n].status = "PASSED" /\ IsOutput(rows[n].out)
            /\ rows[n].fp = SourceFingerprint(n, rows[n].fp[3], rows[n].out)
        <4>1. /\ rows[n].status = "PASSED"
              /\ rows[n].out = Text(DefaultBrief) \/ rows[n].out = File(SeedImage)
              /\ rows[n].fp = SourceFingerprint(n, GraphOf(active)[n], rows[n].out)
          BY <1>1, <2>2 DEF SeedRow
        <4>2. IsOutput(rows[n].out)
          BY <4>1 DEF IsOutput, Text, File
        <4> QED
          BY <4>1, <4>2 DEF SourceFingerprint
      <3> QED
        BY <2>2, <3>1, Given DEF NodeFine, Accepted
    <2>3. CASE ~Kept(n) /\ n \notin Sources
      <3>1. rows[n].status = "PENDING"
        BY <1>1, <2>3 DEF SeedRow
      <3> QED
        BY <3>1 DEF NodeFine, Accepted
    <2> QED
      BY <2>1, <2>2, <2>3
  <1>6. \A n \in Sources : rows[n].status # "PENDING"
    BY <1>1, Given DEF SeedRow
  <1>7. \A n \in Nodes : NodeFine(graph, spec.brief, FALSE, nodes, n)
    BY <1>1, <1>2, <1>5, <1>6, ScheduledFine
  <1>8. Immutable
    BY ProjectStays DEF Seed, IInv
  <1>9. \A n \in Nodes : RowFine(B, n)'
    <2>1. \A n \in Nodes : RowFine(B, n)
      BY <1>2, <1>3, <1>7 DEF RowFine
    <2> QED
      BY <1>3, <1>8, <2>1, RowStays
  <1>10. ASSUME NEW n \in Nodes \ Sources, B.nodes[n].status \in Accepted
         PROVE  \E c \in DOMAIN builds :
                  /\ Attempted(builds[c], c, n) /\ builds[c].nodes[n].status \in Accepted
                  /\ builds[c].nodes[n].by = B.nodes[n].by
                  /\ builds[c].nodes[n].fp = B.nodes[n].fp
    <2>1. nodes[n].status \in Accepted
      BY <1>3, <1>10
    <2>2. rows[n].status \in Accepted /\ nodes[n].fp = rows[n].fp /\ nodes[n].by = rows[n].by
      BY <1>1, <2>1 DEF SchedulesTo, Accepted
    <2>3. Kept(n)
      BY <1>1, <2>2 DEF SeedRow, Accepted
    <2>4. rows[n].fp = builds[F].nodes[n].fp /\ rows[n].by = builds[F].nodes[n].by
      BY <1>1, <1>2, <2>3 DEF SeedRow
    <2>5. F \in DOMAIN builds /\ builds[F].nodes[n].status \in Accepted
      BY <1>4, <2>3
    <2> QED
      BY <1>3, <2>2, <2>4, <2>5 DEF RowsFine
  <1> QED
    BY <1>1, <1>2, <1>8, <1>9, <1>10, RowsMore

\* Equal hashes of plans are equal decisions for equal fingerprints.
LEMMA HashTells ==
    ASSUME NEW plan, NEW fresh, PlanHash(plan) = PlanHash(fresh)
    PROVE  \A n \in Nodes : plan[n].decision = fresh[n].decision /\ plan[n].fp = fresh[n].fp
  <1>1. PICK h, g : h = PlanHash(plan) /\ g = PlanHash(fresh)
    OBVIOUS
  <1>2. \A n \in Nodes : /\ h[n] = <<plan[n].decision, plan[n].reason, plan[n].fp, plan[n].old>>
                         /\ g[n] = <<fresh[n].decision, fresh[n].reason, fresh[n].fp, fresh[n].old>>
    BY <1>1 DEF PlanHash
  <1>3. \A n \in Nodes : h[n] = g[n]
    BY <1>1
  <1> SUFFICES ASSUME NEW n \in Nodes
               PROVE  plan[n].decision = fresh[n].decision /\ plan[n].fp = fresh[n].fp
    OBVIOUS
  <1>4. h[n][1] = g[n][1] /\ h[n][3] = g[n][3]
    BY <1>3
  <1> QED
    BY <1>2, <1>4

\* What a commit keeps was made from what it keeps: the nodes of a plan that is
\* still current, over the rows of a baseline that is done.
LEMMA KeptFine ==
    ASSUME NEW operation, NEW content, NEW base, NEW blocked,
           NEW plan, plan = ComputeImpact(operation, content, base, blocked),
           Decided(plan, "BLOCKED") = {},
           NEW graph, NEW old, NEW earlier, NEW first,
           \A n \in Nodes : /\ old[n].status \in Accepted
                            /\ NodeFine(graph, earlier, first, old, n)
                            /\ base[n].fp = old[n].fp /\ base[n].out = old[n].out,
           NEW brief, content[TextSource] = Text(brief),
           NEW planned, NEW starts, NEW new,
           \A n \in Nodes : /\ PlannedRow(new[n], plan[n], old[n], starts[n])
                            /\ starts[n] => \A m \in Reads(n) : plan[m].decision = "REUSE"
    PROVE  \A n \in Nodes : NodeFine(operation, brief, planned, new, n)
  <1>1. /\ DOMAIN plan = Nodes
        /\ \A n \in Nodes : plan[n] = Entry(n, Refs(plan, n), operation, content, base, blocked)
    BY PlanIsDecided
  <1>2. ASSUME NEW n \in Nodes
        PROVE  /\ plan[n].fp = IF n \in Sources THEN SourceFingerprint(n, operation[n], content[n])
                               ELSE Fingerprint(operation[n], Refs(plan, n))
               /\ plan[n].decision = "REUSE" => plan[n].ref = old[n].out /\ plan[n].fp = old[n].fp
    <2>1. PICK refs, e : refs = Refs(plan, n) /\ e = plan[n]
      OBVIOUS
    <2>2. e = Entry(n, refs, operation, content, base, blocked)
      BY <1>1, <2>1
    <2>3. /\ e.fp = IF n \in Sources THEN SourceFingerprint(n, operation[n], content[n])
                    ELSE Fingerprint(operation[n], refs)
          /\ e.decision = "REUSE" => e.ref = base[n].out /\ base[n].fp = e.fp
      BY <2>2, EntryIs
    <2> QED
      BY <2>1, <2>3
  <1>3. \A n \in Nodes : plan[n].decision = "REUSE" =>
                           /\ new[n].status = "REUSED" /\ new[n].out = old[n].out
                           /\ new[n].fp = plan[n].fp
    BY DEF PlannedRow
  <1>4. ASSUME NEW n \in Nodes, \A m \in Reads(n) : plan[m].decision = "REUSE"
        PROVE  /\ \A m \in Reads(n) : new[m].status \in Accepted
               /\ Refs(plan, n) = Selected(new, n) /\ Selected(new, n) = Selected(old, n)
    <2>1. Reads(n) \subseteq Nodes
      BY Given
    <2>2. \A m \in Reads(n) : new[m].status = "REUSED" /\ new[m].out = old[m].out
                              /\ plan[m].ref = new[m].out
      BY <1>2, <1>3, <1>4, <2>1
    <2>3. Selected(new, n) = Selected(old, n)
      BY <2>2, SameSelected
    <2>4. \A i \in DOMAIN Inputs[n] : plan[Inputs[n][i]].ref = new[Inputs[n][i]].out
      BY <2>2 DEF Reads
    <2>5. Refs(plan, n) = Selected(new, n)
      BY <2>4 DEF Refs, Selected
    <2> QED
      BY <2>2, <2>3, <2>5 DEF Accepted
  <1>5. ASSUME NEW n \in Nodes, plan[n].decision = "REUSE"
        PROVE  NodeFine(operation, brief, planned, new, n)
    <2>1. /\ new[n].status = "REUSED" /\ new[n].out = old[n].out /\ new[n].fp = old[n].fp
          /\ new[n].fp = plan[n].fp
      BY <1>2, <1>3, <1>5
    <2>2. old[n].status \in Accepted /\ NodeFine(graph, earlier, first, old, n)
      OBVIOUS
    <2>3. CASE n \in Sources
      <3>1. Reads(n) = {} /\ IsOutput(new[n].out)
        BY <2>1, <2>2, <2>3, Given DEF NodeFine
      <3>2. ASSUME n = TextSource
            PROVE  /\ new[n].fp = SourceFingerprint(n, new[n].fp[3], new[n].out)
                   /\ new[n].out = Text(brief)
        <4>1. PICK fp, out, x, y : /\ fp = new[n].fp /\ out = new[n].out /\ x = fp[3]
                                   /\ y = operation[n]
          OBVIOUS
        <4>2. fp = SourceFingerprint(n, x, out)
          BY <2>1, <2>2, <3>2, <4>1 DEF NodeFine
        <4>3. fp = SourceFingerprint(n, y, Text(brief))
          BY <1>2, <2>1, <2>3, <3>2, <4>1
        <4>4. fp[4] = out
          BY <4>2 DEF SourceFingerprint
        <4>5. fp[4] = Text(brief)
          BY <4>3 DEF SourceFingerprint
        <4> QED
          BY <4>1, <4>2, <4>4, <4>5
      <3> QED
        BY <2>1, <2>3, <3>1, <3>2 DEF NodeFine, Accepted
    <2>4. CASE n \notin Sources
      <3>1. PICK recipe, used : recipe = graph[n] /\ used = Selected(old, n)
        OBVIOUS
      <3>2. /\ old[n].fp = Fingerprint(recipe, used)
            /\ \E v \in Variants : old[n].out = Bytes(old[n].fp, v)
            /\ IsOutput(old[n].out)
            /\ \A m \in Reads(n) : m \in Nodes
        BY <2>2, <2>4, <3>1, Given DEF NodeFine
      <3>3. \A i \in DOMAIN Inputs[n] : used[i][1] # "pending"
        <4> SUFFICES ASSUME NEW i \in DOMAIN Inputs[n]
                     PROVE  used[i][1] # "pending"
          OBVIOUS
        <4>1. PICK m : m = Inputs[n][i]
          OBVIOUS
        <4>2. m \in Nodes
          BY <3>2, <4>1 DEF Reads
        <4>3. PICK out : out = old[m].out
          OBVIOUS
        <4>4. used[i] = out /\ IsOutput(out)
          BY <3>1, <4>1, <4>2, <4>3 DEF Selected, NodeFine
        <4>5. out[1] \in {"text", "file", "bytes"}
          BY <4>4 DEF IsOutput, Text, File, Bytes
        <4> QED
          BY <4>4, <4>5
      <3>4. base[n].fp = Fingerprint(recipe, used)
        BY <3>2
      <3>5. \A m \in Reads(n) : plan[m].decision = "REUSE"
        BY <1>5, <2>4, <3>3, <3>4, KeptReadsKept
      <3>6. /\ \A m \in Reads(n) : new[m].status \in Accepted
            /\ Refs(plan, n) = Selected(new, n)
        BY <1>4, <3>5
      <3>7. plan[n].fp = Fingerprint(operation[n], Selected(new, n))
        BY <1>2, <2>4, <3>6
      <3>8. n # TextSource
        BY <2>4, Given
      <3> QED
        BY <2>1, <2>4, <3>2, <3>6, <3>7, <3>8 DEF NodeFine, Accepted
    <2> QED
      BY <2>3, <2>4
  <1>6. ASSUME NEW n \in Nodes, plan[n].decision # "REUSE"
        PROVE  NodeFine(operation, brief, planned, new, n)
    <2>1. CASE starts[n]
      <3>1. new[n].status = "QUEUED" /\ new[n].fp = plan[n].fp
        BY <1>6, <2>1 DEF PlannedRow
      <3>2. /\ \A m \in Reads(n) : new[m].status \in Accepted
            /\ Refs(plan, n) = Selected(new, n)
        BY <1>4, <2>1
      <3>3. n \notin Sources => new[n].fp = Fingerprint(operation[n], Selected(new, n))
        BY <1>2, <3>1, <3>2
      <3>4. n = TextSource => new[n].fp = SourceFingerprint(n, operation[n], Text(brief))
        BY <1>2, <3>1, Given
      <3>5. n = TextSource => new[n].fp[3] = operation[n]
        BY <3>4 DEF SourceFingerprint
      <3> QED
        BY <3>1, <3>2, <3>3, <3>4, <3>5 DEF NodeFine, Accepted
    <2>2. CASE ~starts[n]
      <3>1. new[n].status = "PENDING"
        BY <1>6, <2>2 DEF PlannedRow
      <3> QED
        BY <3>1 DEF NodeFine, Accepted
    <2> QED
      BY <2>1, <2>2
  <1> QED
    BY <1>5, <1>6

\* The rows when a plan is committed.
LEMMA CommitKeepsRows ==
    ASSUME IInv, RowsFine, NEW p \in DOMAIN plans, NEW start \in Starts, Commit(p, start)
    PROVE  RowsFine'
  <1>0. PICK d \in DOMAIN drafts, b \in SucceededAny, spec \in Specs : \E nodes :
             /\ drafts[d].base = active /\ spec = Proposed(d) /\ OneField(active, spec)
             /\ b = plans[p].baseline /\ b \in DOMAIN builds
             /\ Adopt(spec) /\ Compiles(spec) /\ spec.image = active.image
             /\ PlanHash(ImpactOf(spec, b, active)) = PlanHash(plans[p].nodes)
             /\ nodes = Planned(plans[p].nodes, start, Candidates(b, active))
             /\ IsNodes(nodes)
             /\ \A n \in Nodes : PlannedRow(nodes[n], plans[p].nodes[n], builds[b].nodes[n],
                                            Started(plans[p].nodes, start, n))
             /\ builds' = Append(builds, NewBuild(spec, p, IF start THEN "QUEUED" ELSE "PLANNED", nodes))
             /\ drafts' = [drafts EXCEPT ![d] = [@ EXCEPT !.status = "COMMITTED"]]
    BY CommittedIs
  <1>1. PICK new :
             /\ b \in DOMAIN builds /\ Adopt(spec) /\ Compiles(spec)
             /\ PlanHash(ImpactOf(spec, b, active)) = PlanHash(plans[p].nodes)
             /\ \A n \in Nodes : PlannedRow(new[n], plans[p].nodes[n], builds[b].nodes[n],
                                            Started(plans[p].nodes, start, n))
             /\ builds' = Append(builds, NewBuild(spec, p, IF start THEN "QUEUED" ELSE "PLANNED", new))
    BY <1>0
  <1>2. UNCHANGED <<latest, policy>>
    BY DEF Commit
  <1>3. /\ Immutable /\ Known' = Known \cup {spec}
        /\ compiled'[spec] = IF spec \in Known THEN compiled[spec] ELSE policy
    BY <1>1, <1>2, AdoptStep DEF IInv
  <1>4. compiled'[spec] = policy
    BY <1>1, <1>3 DEF Compiles
  <1>5. PICK operation, content, base, blocked :
          /\ operation = Operation(spec, policy) /\ content = Content(spec)
          /\ base = Candidates(b, active) /\ blocked = Blocked
    OBVIOUS
  <1>6. PICK plan, shown : /\ plan = ComputeImpact(operation, content, base, blocked)
                           /\ shown = plans[p].nodes
    OBVIOUS
  <1>7. \A n \in Nodes : shown[n].decision = plan[n].decision /\ shown[n].fp = plan[n].fp
    <2>1. PlanHash(shown) = PlanHash(plan)
      BY <1>1, <1>5, <1>6 DEF ImpactOf
    <2> QED
      BY <2>1, HashTells
  <1>8. Decided(plan, "BLOCKED") = {}
    <2>1. Decided(shown, "BLOCKED") = {}
      BY <1>6 DEF Commit
    <2> QED
      BY <1>7, <2>1 DEF Decided
  <1>9. PICK old, graph, earlier, first :
          /\ old = builds[b].nodes /\ graph = GraphOf(builds[b].spec)
          /\ earlier = builds[b].spec.brief /\ first = (builds[b].plan # 0)
    OBVIOUS
  <1>10. \A n \in Nodes : /\ old[n].status \in Accepted
                          /\ NodeFine(graph, earlier, first, old, n)
                          /\ base[n].fp = old[n].fp /\ base[n].out = old[n].out
    <2>1. builds[b].status = "SUCCEEDED" /\ StatusFine(builds[b].status, old)
      BY <1>9, BuildIs DEF SucceededAny
    <2>2. \A n \in Nodes : old[n].status \in Accepted
      BY <2>1 DEF StatusFine, Done
    <2>3. \A n \in Nodes : NodeFine(graph, earlier, first, old, n)
      BY <1>1, <1>9 DEF RowsFine, RowFine
    <2>4. \A n \in Nodes : base[n].fp = old[n].fp /\ base[n].out = old[n].out
      BY <1>5, <1>9 DEF Candidates
    <2> QED
      BY <2>2, <2>3, <2>4
  <1>11. content[TextSource] = Text(spec.brief)
    BY <1>5, Given DEF Content
  <1>12. PICK starts : starts = [n \in Nodes |-> Started(shown, start, n)]
    OBVIOUS
  <1>13. \A n \in Nodes : /\ PlannedRow(new[n], plan[n], old[n], starts[n])
                          /\ starts[n] => \A m \in Reads(n) : plan[m].decision = "REUSE"
    <2> SUFFICES ASSUME NEW n \in Nodes
                 PROVE  /\ PlannedRow(new[n], plan[n], old[n], starts[n])
                        /\ starts[n] => \A m \in Reads(n) : plan[m].decision = "REUSE"
      OBVIOUS
    <2>1. starts[n] <=> Started(shown, start, n)
      BY <1>12
    <2>2. PlannedRow(new[n], shown[n], old[n], Started(shown, start, n))
      BY <1>1, <1>6, <1>9
    <2>3. PlannedRow(new[n], plan[n], old[n], starts[n])
      BY <1>7, <2>1, <2>2 DEF PlannedRow
    <2>4. Started(shown, start, n) => \A m \in Reads(n) : plan[m].decision = "REUSE"
      BY <1>7, Given DEF Started
    <2> QED
      BY <2>1, <2>3, <2>4
  <1>14. PICK B, status : /\ status = IF start THEN "QUEUED" ELSE "PLANNED"
                          /\ B = NewBuild(spec, p, status, new)
    OBVIOUS
  <1>15. B.spec = spec /\ B.plan = p /\ B.nodes = new
    BY <1>14 DEF NewBuild
  <1>16. \A n \in Nodes : NodeFine(operation, spec.brief, TRUE, new, n)
    <2>1. PICK brief, planned : brief = spec.brief /\ planned = TRUE
      OBVIOUS
    <2>2. content[TextSource] = Text(brief)
      BY <1>11, <2>1
    <2>3. \A n \in Nodes : NodeFine(operation, brief, planned, new, n)
      BY <1>6, <1>8, <1>10, <1>13, <2>2, KeptFine
    <2> QED
      BY <2>1, <2>3
  <1>17. \A n \in Nodes : RowFine(B, n)'
    <2>1. GraphOf(spec)' = operation
      BY <1>4, <1>5 DEF GraphOf
    <2>2. p # 0
      BY SeqIs DEF IInv, PlansFine
    <2>3. (B.plan # 0) = TRUE
      BY <1>15, <2>2
    <2> QED
      BY <1>15, <1>16, <2>1, <2>3 DEF RowFine
  <1>18. ASSUME NEW n \in Nodes \ Sources, B.nodes[n].status \in Accepted
         PROVE  \E c \in DOMAIN builds :
                  /\ Attempted(builds[c], c, n) /\ builds[c].nodes[n].status \in Accepted
                  /\ builds[c].nodes[n].by = B.nodes[n].by
                  /\ builds[c].nodes[n].fp = B.nodes[n].fp
    <2>1. new[n].status \in Accepted
      BY <1>15, <1>18
    <2>2. PlannedRow(new[n], plan[n], old[n], starts[n])
      BY <1>13
    <2>3. plan[n].decision = "REUSE" /\ new[n].fp = plan[n].fp /\ new[n].by = old[n].by
      BY <2>1, <2>2 DEF PlannedRow, Accepted
    <2>4. plan[n].fp = base[n].fp
      <3>1. PICK refs, e : refs = Refs(plan, n) /\ e = plan[n]
        OBVIOUS
      <3>2. e = Entry(n, refs, operation, content, base, blocked)
        BY <1>6, <3>1, PlanIsDecided
      <3>3. e.decision = "REUSE" => base[n].fp = e.fp
        BY <3>2, EntryIs
      <3> QED
        BY <2>3, <3>1, <3>3
    <2>5. new[n].fp = old[n].fp /\ old[n].status \in Accepted
      BY <1>10, <2>3, <2>4
    <2>6. Attempted(builds[b], b, n)
      BY <1>1 DEF RowsFine
    <2> QED
      BY <1>1, <1>9, <1>15, <2>3, <2>5, <2>6
  <1>19. builds' = Append(builds, B)
    BY <1>1, <1>14
  <1> QED
    BY <1>3, <1>17, <1>18, <1>19, RowsMore

\* The inductive invariant of the outputs.
MInv == NoneIsNoOutput /\ IInv /\ RowsFine

\* Every action keeps it.
LEMMA RowsGo == MInv /\ [Next]_vars => MInv'
  <1> SUFFICES ASSUME MInv, [Next]_vars
               PROVE  RowsFine'
    BY Goes DEF MInv, NoneIsNoOutput
  <1> USE DEF MInv
  <1>1. ASSUME Immutable, builds' = builds
        PROVE  RowsFine'
    BY <1>1, RowsStay
  <1>2. CASE Edit
    <2>1. ASSUME NEW p \in DOMAIN plans, NEW start \in Starts, Commit(p, start)
          PROVE  RowsFine'
      BY <2>1, CommitKeepsRows
    <2>2. \/ \E p \in DOMAIN plans, start \in Starts : Commit(p, start)
          \/ UNCHANGED project /\ builds' = builds
      BY <1>2 DEF Edit, Create, Update, Preview, Tick
    <2> QED
      BY <1>1, <2>1, <2>2, ProjectStays DEF IInv
  <1>3. CASE Execute
    <2>1. ASSUME NEW b \in DOMAIN builds, NEW n \in Nodes, NEW v \in Variants, Pass(b, n, v)
          PROVE  RowsFine'
      BY <2>1, PassKeepsRows
    <2>2. ASSUME NEW b \in DOMAIN builds, NEW n \in Nodes, Fail(b, n)
          PROVE  RowsFine'
      BY <2>2, FailKeepsRows
    <2> QED
      BY <1>3, <2>1, <2>2 DEF Execute
  <1>4. CASE Write
    <2>1. Immutable
      BY <1>4, WriteStep
    <2>2. builds' = builds
      BY <1>4 DEF Write
    <2> QED
      BY <1>1, <2>1, <2>2
  <1>5. CASE Seed
    BY <1>5, SeedKeepsRows
  <1>6. CASE Deploy
    <2>1. Immutable /\ builds' = builds
      BY <1>6, ProjectStays, PoliciesStep DEF Deploy, IInv
    <2> QED
      BY <1>1, <2>1
  <1>7. CASE UNCHANGED vars
    <2>1. UNCHANGED project /\ builds' = builds
      BY <1>7 DEF vars, project
    <2> QED
      BY <1>1, <2>1, ProjectStays DEF IInv
  <1> QED
    BY <1>2, <1>3, <1>4, <1>5, <1>6, <1>7 DEF Next

\* Where the rows of the builds come from, whatever is previewed, committed, seeded,
\* made again or fails, in any order and on any graph without a cycle.
THEOREM RowsInvariance == NoneIsNoOutput => (Spec => []MInv)
  <1>1. NoneIsNoOutput /\ Init => MInv
    <2>1. Init => RowsFine
      <3>1. ASSUME Init
            PROVE  DOMAIN builds = {}
        BY <3>1, EmptySeq DEF Init
      <3> QED
        BY <3>1 DEF RowsFine
    <2> QED
      BY <2>1, Begins DEF MInv
  <1> QED
    BY <1>1, RowsGo, PTL DEF Spec

\* Whatever was reused, rebuilt, kept from a failed build or scheduled while the
\* project changed: every accepted output was made under the recipe of the build's
\* revision, from the very outputs its build has selected (impact.py, and
\* schedule_ready_nodes), provided that no output is taken for none.
THEOREM MadeHolds == NoneIsNoOutput => (Spec => []MadeFromSelected)
  <1>1. MInv => MadeFromSelected
    <2> SUFFICES ASSUME MInv, NEW b \in DOMAIN builds, NEW n \in Nodes, NEW row, NEW fp,
                        row = builds[b].nodes[n],
                        fp = Fingerprint(GraphOf(builds[b].spec)[n], Selected(builds[b].nodes, n)),
                        row.status \in S!Satisfies
                 PROVE  IF n \in Sources
                          THEN n = TextSource /\ builds[b].plan # 0 =>
                                 row.out = Text(builds[b].spec.brief)
                          ELSE /\ row.fp = fp
                               /\ \E v \in Variants : row.out = Bytes(fp, v)
                               /\ row.by # 0 /\ builds[row.by].nodes[n].fp = fp
      BY DEF MadeFromSelected
    <2>1. row.status \in Accepted
      BY DEF S!Satisfies, Accepted
    <2>2. RowFine(builds[b], n) /\ Attempted(builds[b], b, n)
      BY DEF MInv, RowsFine
    <2>3. CASE n \in Sources
      BY <2>1, <2>2, <2>3 DEF RowFine, NodeFine
    <2>4. CASE n \notin Sources
      <3>1. row.fp = fp /\ \E v \in Variants : row.out = Bytes(fp, v)
        BY <2>1, <2>2, <2>4 DEF RowFine, NodeFine
      <3>2. row.by \in 1..b /\ builds[row.by].nodes[n].fp = fp
        BY <2>1, <2>2, <2>4, <3>1 DEF Attempted
      <3>3. row.by # 0
        BY <3>2
      <3> QED
        BY <2>4, <3>1, <3>2, <3>3
    <2> QED
      BY <2>3, <2>4
  <1> QED
    BY <1>1, RowsInvariance, PTL

-----------------------------------------------------------------------------
(* What is previewed *)

\* Nor is a candidate taken for none.
NoneIsNoCandidate ==
    \A fp, accepted, out, by, present, verified :
       None # [fp |-> fp, accepted |-> accepted, out |-> out, by |-> by, present |-> present,
               verified |-> verified, current |-> TRUE, revoked |-> FALSE, fixture |-> FALSE]

\* The nodes of a successful build are accepted.
LEMMA SuccessIsDone ==
    ASSUME IInv, NEW b \in SucceededAny, NEW n \in Nodes
    PROVE  b \in DOMAIN builds /\ builds[b].nodes[n].status \in Accepted
  <1>1. b \in DOMAIN builds /\ builds[b].status = "SUCCEEDED"
    BY DEF SucceededAny
  <1>2. PICK status, nodes : status = builds[b].status /\ nodes = builds[b].nodes
    OBVIOUS
  <1>3. StatusFine(status, nodes) /\ status = "SUCCEEDED"
    BY <1>1, <1>2, BuildIs
  <1>4. Done(nodes)
    BY <1>3 DEF StatusFine
  <1> QED
    BY <1>1, <1>2, <1>4 DEF Done

\* _asset_integrity finds what a node of a successful build has made, through whatever
\* builds it was reused.
LEMMA MadeIsPresent ==
    ASSUME MInv, NEW b \in SucceededAny, NEW base, NEW n \in Nodes \ Sources
    PROVE  Verified(b, n, base) /\ Present(b, n, base)
  <1>1. b \in DOMAIN builds /\ builds[b].nodes[n].status \in Accepted
    BY SuccessIsDone DEF MInv
  <1>2. Attempted(builds[b], b, n)
    BY <1>1 DEF MInv, RowsFine
  <1>3. PICK by : by = builds[b].nodes[n].by
    OBVIOUS
  <1>4. by \in 1..b /\ builds[by].nodes[n].fp = builds[b].nodes[n].fp
    BY <1>1, <1>2, <1>3 DEF Attempted
  <1>5. builds[b].nodes[n].by # 0 /\ Owns(b, n)
    BY <1>3, <1>4 DEF Owns
  <1>6. n # TextSource /\ n # ImageSource
    BY GraphAssumption
  <1>7. Present(b, n, base)
    BY <1>5, <1>6 DEF Present
  <1> QED
    BY <1>6, <1>7 DEF Verified

\* A candidate of a successful build: of a source it is sound if it is verified, of any
\* other node it always is.
LEMMA CandidateIs ==
    ASSUME MInv, NoneIsNoCandidate, NEW b \in SucceededAny, NEW base, NEW n \in Nodes,
           NEW c, c = Candidates(b, base)[n], NEW row, row = builds[b].nodes[n]
    PROVE  /\ c.fp = row.fp /\ c.out = row.out /\ IsReal(row.out)
           /\ IsSound(c) <=> Verified(b, n, base)
           /\ n \notin Sources => IsSound(c)
  <1>1. b \in DOMAIN builds /\ row.status \in Accepted
    BY SuccessIsDone DEF MInv
  <1>2. RowFine(builds[b], n)
    BY <1>1 DEF MInv, RowsFine
  <1>3. IsOutput(row.out)
    BY <1>1, <1>2 DEF RowFine, NodeFine
  <1>4. row.out # None /\ IsReal(row.out)
    <2>1. PICK out : out = row.out
      OBVIOUS
    <2>2. IsOutput(out) /\ NoneIsNoOutput
      BY <1>3, <2>1 DEF MInv
    <2>3. out # None /\ out[1] \in {"text", "file", "bytes"}
      BY <2>2 DEF IsOutput, NoneIsNoOutput, Text, File, Bytes
    <2> QED
      BY <2>1, <2>3 DEF IsReal
  <1>5. PICK accepted, present, verified :
             /\ accepted = (row.status \in S!Satisfies)
             /\ present = Present(b, n, base) /\ verified = Verified(b, n, base)
    OBVIOUS
  <1>6. c = [fp |-> row.fp, accepted |-> accepted, out |-> row.out, by |-> row.by,
             present |-> present, verified |-> verified,
             current |-> TRUE, revoked |-> FALSE, fixture |-> FALSE]
    BY <1>5 DEF Candidates
  <1>7. accepted
    BY <1>1, <1>5 DEF Accepted, S!Satisfies
  <1>8. verified => present
    BY <1>5 DEF Verified
  <1>9. c # None
    BY <1>6 DEF NoneIsNoCandidate
  <1>10. IsSound(c) <=> verified
    BY <1>4, <1>6, <1>7, <1>8, <1>9 DEF IsSound
  <1>11. n \notin Sources => verified
    BY <1>5, MadeIsPresent
  <1> QED
    BY <1>4, <1>5, <1>6, <1>10, <1>11

\* A plan that is computed for a draft against a successful build is exact.
LEMMA ImpactIsExact ==
    ASSUME MInv, NoneIsNoCandidate, NEW b \in SucceededAny,
           NEW plan, plan.baseline = b, NEW base, base = drafts[plan.draft].base,
           plan.nodes = ImpactOf(Proposed(plan.draft), b, base)
    PROVE  Exact(plan)
  <1>1. PICK spec, operation, content, cs, blocked :
             /\ spec = Proposed(plan.draft) /\ operation = Operation(spec, policy)
             /\ content = Content(spec) /\ cs = Candidates(b, base) /\ blocked = Blocked
    OBVIOUS
  <1>2. PICK recipe, nodes, entries :
             /\ recipe = GraphOf(builds[b].spec) /\ nodes = builds[b].nodes
             /\ entries = plan.nodes
    OBVIOUS
  <1>3. PICK used : used = [n \in Nodes |-> Selected(nodes, n)]
    OBVIOUS
  <1>4. entries = ComputeImpact(operation, content, cs, blocked)
    BY <1>1, <1>2 DEF ImpactOf
  <1>5. ASSUME NEW n \in Nodes
        PROVE  /\ cs[n].fp = nodes[n].fp /\ cs[n].out = nodes[n].out /\ IsReal(nodes[n].out)
               /\ IsSound(cs[n]) <=> Verified(b, n, base)
               /\ n \notin Sources => IsSound(cs[n])
    BY <1>1, <1>2, CandidateIs
  <1>6. WasMade(cs, recipe, used)
    <2> SUFFICES ASSUME NEW n \in Nodes \ Sources
                 PROVE  cs[n].fp = Fingerprint(recipe[n], used[n]) /\ WasUsed(cs, n, used[n])
      BY DEF WasMade
    <2>1. b \in DOMAIN builds /\ nodes[n].status \in Accepted /\ RowFine(builds[b], n)
      BY <1>2, SuccessIsDone DEF MInv, RowsFine
    <2>2. nodes[n].fp = Fingerprint(recipe[n], Selected(nodes, n))
      BY <1>2, <2>1 DEF RowFine, NodeFine
    <2>3. used[n] = Selected(nodes, n)
      BY <1>3
    <2>4. PICK s : s = Selected(nodes, n)
      OBVIOUS
    <2>5. /\ s = [i \in DOMAIN Inputs[n] |-> s[i]]
          /\ \A i \in DOMAIN Inputs[n] : s[i] = nodes[Inputs[n][i]].out
      BY <2>4 DEF Selected
    <2>6. \A i \in DOMAIN Inputs[n] : Inputs[n][i] \in Nodes
      BY InputAssumption
    <2>7. WasUsed(cs, n, s)
      BY <1>5, <2>5, <2>6 DEF WasUsed
    <2> QED
      BY <1>5, <2>2, <2>3, <2>4, <2>7
  <1>7. PICK changed, kept : /\ changed = Changed(operation, content, cs, recipe)
                             /\ kept = Decided(entries, "REUSE")
    OBVIOUS
  <1>8. \A n \in Nodes : n \in kept <=> n \notin changed /\ Reads(n) \subseteq kept
    BY <1>4, <1>6, <1>7, OnlyTheReachedIsRebuilt
  <1>9. ASSUME NEW n \in Nodes
        PROVE  /\ n \in Sources => (n \notin changed <=>
                    /\ Verified(b, n, base)
                    /\ nodes[n].fp = SourceFingerprint(n, operation[n], content[n]))
               /\ n \notin Sources => (n \notin changed <=> operation[n] = recipe[n])
    BY <1>5, <1>7 DEF Changed
  <1>10. \A n \in Nodes :
           n \in kept <=> /\ IF n \in Sources
                               THEN /\ Verified(b, n, base)
                                    /\ nodes[n].fp = SourceFingerprint(n, operation[n], content[n])
                               ELSE operation[n] = recipe[n]
                          /\ Reads(n) \subseteq kept
    BY <1>8, <1>9
  <1> QED
    BY <1>1, <1>2, <1>7, <1>10 DEF Exact

\* Previews rebuild what a change reaches and nothing else (changes.py, create_impact_plan),
\* through any history of commits, failures, seeds and changes of policies: the fingerprints
\* and the owners of what is reused are never lost on the way.  No output and no
\* candidate is taken for none.
THEOREM PlansHold == NoneIsNoOutput /\ NoneIsNoCandidate => (Spec => PlansAreExact)
  <1>1. ASSUME NoneIsNoCandidate, MInv, [Next]_vars
        PROVE  [NewPlansAreExact]_vars
    <2>1. ASSUME NEW d \in DOMAIN drafts, Preview(d)
          PROVE  NewPlansAreExact
      <3>1. PICK b, base : base = drafts[d].base /\ b = Baseline(base)
        OBVIOUS
      <3>2. PICK plan : plan = [draft |-> d, patch |-> drafts[d].patch, env |-> Environment,
                                baseline |-> b, nodes |-> ImpactOf(Proposed(d), b, base)]
        OBVIOUS
      <3>3. plans' = Append(plans, plan) /\ SucceededAny # {}
        BY <2>1, <3>1, <3>2 DEF Preview
      <3>4. b \in SucceededAny
        BY <1>1, <3>1, <3>3, BaselineIs DEF MInv
      <3>5. Exact(plan)
        BY <1>1, <3>1, <3>2, <3>4, ImpactIsExact
      <3>6. \A p \in DOMAIN plans' \ DOMAIN plans : plans'[p] = plan
        <4>1. PICK s, r : s = plans /\ r = plans'
          OBVIOUS
        <4>2. IsSeq(s) /\ r = Append(s, plan)
          BY <1>1, <3>3, <4>1 DEF MInv, IInv, PlansFine
        <4>3. Extends(r, s, plan)
          BY <4>2, Appended
        <4> QED
          BY <4>1, <4>2, <4>3, SeqIs DEF Extends
      <3> QED
        BY <3>5, <3>6 DEF NewPlansAreExact
    <2>2. (\E d \in DOMAIN drafts : Preview(d)) \/ plans' = plans
      BY <1>1 DEF Next, Edit, Create, Update, Tick, Commit, Execute, Pass, Fail, Write, Seed,
                  Deploy, vars
    <2>3. plans' = plans => NewPlansAreExact
      BY DEF NewPlansAreExact
    <2> QED
      BY <2>1, <2>2, <2>3
  <1>2. NoneIsNoCandidate /\ MInv /\ [Next]_vars => [NewPlansAreExact]_vars
    BY <1>1
  <1>3. NoneIsNoCandidate => []NoneIsNoCandidate
    OBVIOUS
  <1> QED
    BY <1>2, <1>3, RowsInvariance, PTL DEF Spec, PlansAreExact

=============================================================================
