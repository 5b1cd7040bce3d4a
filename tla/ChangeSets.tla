----------------------------- MODULE ChangeSets -----------------------------
(***************************************************************************)
(* Drafts, impact plans, commits and the builds they start (changes.py),   *)
(* over the revisions of one project, with the builds of the seed script,  *)
(* which makes a project's first build and redoes a failed one.            *)
(*                                                                         *)
(* A request is one transaction and one action.  A commit locks the plan,  *)
(* the draft and the project; a preview takes no lock, and what it has     *)
(* read is only ever used by commits, which read it again.  The execution  *)
(* of a build is reduced to what DataFlow promises of BuildExecution, with *)
(* the fingerprints and the outputs that DataFlow leaves out.              *)
(***************************************************************************)
EXTENDS Revisions, Impact

CONSTANTS
    TextSource, ImageSource, \* the brief and the product reference
    Provided,                \* the nodes that need a credential to execute
    Binds,                   \* Binds[n]: the parameters n's operation is bound to
    Patches,                 \* the edits: [field, to]
    Starts,                  \* the values of start_build that are requested
    Variants,                \* the different results of one and the same work
    DefaultBrief, SeedImage, \* what the seed script builds from
    MaxDrafts, MaxPlans, MaxBuilds,  \* bounds: drafts, plans, builds
    MaxEvents        \* bound: clock steps, redeployments, failures, renames and uploads

ASSUME GraphAssumption ==
    /\ Sources = {TextSource, ImageSource} /\ TextSource # ImageSource
    /\ Sources # Nodes
    /\ Provided \subseteq Nodes \ Sources
    /\ Binds \in [Nodes -> SUBSET {"legal", "brief"}]

\* A patch edits parameters of the specification and nothing else of it.
ASSUME PatchAssumption ==
    /\ Patches \subseteq [field : {"legal"}, to : Legals] \cup [field : {"brief"}, to : Briefs]
    /\ SeedImage \in Images /\ Starts \subseteq BOOLEAN
    /\ {MaxDrafts, MaxPlans, MaxBuilds, MaxEvents} \subseteq Nat

VARIABLES
    drafts,          \* the change sets
    plans,           \* the impact plans
    builds,          \* the builds, in the order of their creation
    configured,      \* the credentials are in the environment of the API
    events           \* events spent

vars == <<number, active, latest, compiled, policy, drafts, plans, builds, configured, events>>

NodeEdges == {e \in Nodes \X Nodes : e[1] \in Reads(e[2])}
Event == events < MaxEvents /\ events' = events + 1

S == INSTANCE Scheduling WITH Edges <- NodeEdges

-----------------------------------------------------------------------------
(* What the specification of a revision makes of the template *)

Apply(spec, patch) == [spec EXCEPT ![patch.field] = patch.to]

\* The operation of a node and its policies, as the graph of spec compiles them.
Operation(spec, policies) ==
    [n \in Nodes |-> <<n, [p \in Binds[n] |-> spec[p]], IF n \in Provided THEN policies ELSE 0>>]

GraphOf(spec) == Operation(spec, compiled[spec])

Text(brief) == <<"text", brief>>
File(image) == <<"file", image>>
Bytes(fp, v) == <<"bytes", fp, v>>

Content(spec) == [n \in Sources |-> IF n = TextSource THEN Text(spec.brief) ELSE File(latest)]

Blocked == IF configured THEN {} ELSE Provided

-----------------------------------------------------------------------------
(* Builds.  by is the build whose attempt made the output, 0 if none did. *)

Waiting(fp) == [status |-> "PENDING", fp |-> fp, out |-> None, by |-> 0]

Status(nodes) == [n \in Nodes |-> nodes[n].status]
Selected(nodes, n) == [i \in DOMAIN Inputs[n] |-> nodes[Inputs[n][i]].out]

\* Variant of Scheduled: the node keeps the fingerprint of the plan.
ScheduledAsPlanned(spec, nodes) ==
    [n \in Nodes |->
       IF n \in S!ReadyNodes(Status(nodes), "RUNNING")
         THEN [nodes[n] EXCEPT !.status = "QUEUED"] ELSE nodes[n]]

\* schedule_ready_nodes: a node is queued under the fingerprint of what it is
\* going to read.
Scheduled(spec, nodes) ==
    LET ready == S!ReadyNodes(Status(nodes), "RUNNING")
    IN [n \in Nodes |->
          IF n \in ready
            THEN [nodes[n] EXCEPT !.status = "QUEUED",
                                  !.fp = Fingerprint(GraphOf(spec)[n], Selected(nodes, n))]
            ELSE nodes[n]]

\* Variant of Started: a commit queues the sources, and leaves the rest to them.
StartedFromSources(plan, start, n) == start /\ Inputs[n] = <<>>

\* A node that is rebuilt can start with the build.
Started(plan, start, n) == start /\ \A m \in Reads(n) : plan[m].decision = "REUSE"

\* The nodes a commit gives its build.
Planned(plan, start, base) ==
    [n \in Nodes |->
       CASE plan[n].decision = "REUSE" ->
              [status |-> "REUSED", fp |-> plan[n].fp, out |-> base[n].out, by |-> base[n].by]
         [] plan[n].decision # "REUSE" /\ Started(plan, start, n) ->
              [Waiting(plan[n].fp) EXCEPT !.status = "QUEUED"]
         [] OTHER -> Waiting(plan[n].fp)]

NewBuild(spec, plan, status, nodes) ==
    [spec |-> spec, plan |-> plan, status |-> status, nodes |-> nodes]

-----------------------------------------------------------------------------
(* The baseline of a preview and its candidates *)

Succeeded(spec) == {b \in DOMAIN builds : builds[b].spec = spec /\ builds[b].status = "SUCCEEDED"}
SucceededAny == {b \in DOMAIN builds : builds[b].status = "SUCCEEDED"}
Newest(B) == CHOOSE b \in B : \A c \in B : c <= b

\* Variant of Baseline: a build that has not ended will do.
BaselineOfAny(spec) == Newest({b \in DOMAIN builds : builds[b].spec = spec} \cup SucceededAny)

\* The newest successful build of the base revision, or else of the project.
Baseline(spec) == IF Succeeded(spec) # {} THEN Newest(Succeeded(spec)) ELSE Newest(SucceededAny)

\* Variant of Owns: a build owns what its own attempts made.
OwnsOnlyOwn(b, n) == builds[b].nodes[n].by = b

\* _owns_reused_attempt
Owns(b, n) ==
    LET by == builds[b].nodes[n].by
    IN by = b \/ builds[by].nodes[n].fp = builds[b].nodes[n].fp

\* _asset_integrity
Present(b, n, base) ==
    CASE n = TextSource  -> builds[b].nodes[n].out = Text(base.brief)
      [] n = ImageSource -> latest # NoImage
      [] OTHER           -> builds[b].nodes[n].by # 0 /\ Owns(b, n)

Verified(b, n, base) ==
    /\ Present(b, n, base)
    /\ n = ImageSource => builds[b].nodes[n].out = File(latest)

\* _base_states, for a base revision: nothing revokes an output, approves one by
\* hand or marks a build as a fixture, and every node that passed has its gates.
Candidates(b, base) ==
    [n \in Nodes |->
       [fp |-> builds[b].nodes[n].fp,
        accepted |-> builds[b].nodes[n].status \in S!Satisfies,
        out |-> builds[b].nodes[n].out, by |-> builds[b].nodes[n].by,
        present |-> Present(b, n, base), verified |-> Verified(b, n, base),
        current |-> TRUE, revoked |-> FALSE, fixture |-> FALSE]]

ImpactOf(spec, b, base) ==
    ComputeImpact(Operation(spec, policy), Content(spec), Candidates(b, base), Blocked)

-----------------------------------------------------------------------------
(* Drafts *)

Ages == {"fresh", "late", "expired"}   \* below 30 minutes, below 24 hours, beyond

Editable(d) == drafts[d].status = "DRAFT" /\ drafts[d].age # "expired"

\* On any revision: the first, without sources, is of no use, because nothing
\* makes it active again.
Create(base, patch) ==
    /\ Len(drafts) < MaxDrafts
    /\ base.image # NoImage
    /\ drafts' = Append(drafts, [status |-> "DRAFT", base |-> base, patch |-> patch, age |-> "fresh"])
    /\ UNCHANGED <<project, plans, builds, configured, events>>

Update(d, patch) ==
    /\ Editable(d) /\ patch # drafts[d].patch
    /\ drafts' = [drafts EXCEPT ![d].patch = patch]
    /\ UNCHANGED <<project, plans, builds, configured, events>>

Tick(d) ==
    /\ Event
    /\ drafts[d].age # "expired"
    /\ drafts' = [drafts EXCEPT ![d].age = IF @ = "fresh" THEN "late" ELSE "expired"]
    /\ UNCHANGED <<project, plans, builds, configured>>

\* Another environment, or other policies.
Deploy ==
    /\ Event
    /\ \/ configured' = ~configured /\ UNCHANGED project
       \/ NewPolicies /\ UNCHANGED configured
    /\ UNCHANGED <<drafts, plans, builds>>

-----------------------------------------------------------------------------
(* Preview and commit *)

Proposed(d) == Apply(drafts[d].base, drafts[d].patch)

\* What a plan is bound to besides the draft.
Environment == <<configured, policy>>

\* A plan is its plan_hash, which does not cover the baseline.
Hashed(p) == [p EXCEPT !.baseline = 0, !.nodes = PlanHash(@)]

Preview(d) ==
    /\ Editable(d)
    /\ Proposed(d) # drafts[d].base
    /\ SucceededAny # {} /\ Len(plans) < MaxPlans
    /\ LET b == Baseline(drafts[d].base)
           plan == [draft |-> d, patch |-> drafts[d].patch, env |-> Environment,
                    baseline |-> b, nodes |-> ImpactOf(Proposed(d), b, drafts[d].base)]
       IN /\ \A p \in DOMAIN plans : Hashed(plans[p]) # Hashed(plan)
          /\ plans' = Append(plans, plan)
    /\ UNCHANGED <<project, drafts, builds, configured, events>>

\* Variant of Current: the base of the draft need not be the active revision.
CurrentOnAnyBase(p) ==
    LET d == plans[p].draft
    IN /\ drafts[d].status = "DRAFT" /\ drafts[d].age = "fresh"
       /\ plans[p].patch = drafts[d].patch
       /\ plans[p].env = Environment

\* _assert_plan_current: a plan expires 30 minutes after its draft was made.
Current(p) ==
    LET d == plans[p].draft
    IN /\ drafts[d].status = "DRAFT" /\ drafts[d].age = "fresh"
       /\ active = drafts[d].base
       /\ plans[p].patch = drafts[d].patch
       /\ plans[p].env = Environment

\* A commit that is sent again changes nothing: it is answered with the build
\* there is if its Idempotency-Key is the same, and refused otherwise.
Committed(p) == \E b \in DOMAIN builds : builds[b].plan = p

Commit(p, start) ==
    LET d == plans[p].draft
        b == plans[p].baseline
        nodes == plans[p].nodes
    IN /\ ~Committed(p)
       /\ Current(p)
       /\ PlanHash(ImpactOf(Proposed(d), b, drafts[d].base)) = PlanHash(nodes)
       /\ Decided(nodes, "BLOCKED") = {}
       /\ Len(builds) < MaxBuilds
       /\ Compiles(Proposed(d)) /\ Adopt(Proposed(d))
       /\ builds' = Append(builds,
            NewBuild(Proposed(d), p, IF start THEN "QUEUED" ELSE "PLANNED",
                     Planned(nodes, start, Candidates(b, drafts[d].base))))
       /\ drafts' = [drafts EXCEPT ![d].status = "COMMITTED"]
       /\ UNCHANGED <<latest, policy, plans, configured, events>>

-----------------------------------------------------------------------------
(* The seed script: the first build of the active revision, or a new one after *)
(* a failure, which keeps what the failed build has made.                      *)

OfActive == {b \in DOMAIN builds : builds[b].spec = active}

Kept(n) ==
    /\ OfActive # {}
    /\ builds[Newest(OfActive)].nodes[n].status \in S!Satisfies
    /\ builds[Newest(OfActive)].nodes[n].out # None

SeedNode(n) ==
    IF Kept(n) THEN [builds[Newest(OfActive)].nodes[n] EXCEPT !.status = "REUSED"]
    ELSE IF n \in Sources
      THEN LET content == IF n = TextSource THEN Text(DefaultBrief) ELSE File(SeedImage)
           IN [status |-> "PASSED", out |-> content, by |-> 0,
               fp |-> SourceFingerprint(n, GraphOf(active)[n], content)]
    ELSE Waiting(<<"specification", GraphOf(active)[n]>>)

Seed ==
    /\ Len(builds) < MaxBuilds
    /\ \E spec \in Known : spec.image = SeedImage
    /\ OfActive # {} => builds[Newest(OfActive)].status = "FAILED"
    /\ builds' = Append(builds,
         NewBuild(active, 0, "QUEUED", Scheduled(active, [n \in Nodes |-> SeedNode(n)])))
    /\ UNCHANGED <<project, drafts, plans, configured, events>>

-----------------------------------------------------------------------------
(* The worker *)

\* source_node_work.py: the brief of the build's revision, the newest image.
Made(b, n, v) ==
    CASE n = TextSource  -> Text(builds[b].spec.brief)
      [] n = ImageSource -> File(latest)
      [] OTHER           -> Bytes(builds[b].nodes[n].fp, v)

Passed(b, n, v) ==
    Scheduled(builds[b].spec,
      [builds[b].nodes EXCEPT ![n].status = "PASSED", ![n].out = Made(b, n, v),
                              ![n].by = IF n \in Sources THEN 0 ELSE b])

Queued(b, n) == builds[b].nodes[n].status = "QUEUED"

\* Variant of AllDone: what was reused does not count.
AllDoneHere(st) == S!In(st, {"PASSED"}) = Nodes

\* The last node of a build succeeds it.
AllDone(st) == S!In(st, {"PASSED", "REUSED"}) = Nodes

\* A sibling that is under way when its build fails still finishes.  What is made
\* without a provider is made the same every time.
Pass(b, n, v) ==
    /\ Queued(b, n)
    /\ n \in Sources => builds[b].status \in {"QUEUED", "RUNNING"}
    /\ n \notin Provided => v = CHOOSE u \in Variants : TRUE
    /\ LET nodes == Passed(b, n, v)
       IN builds' = [builds EXCEPT
            ![b].nodes = nodes,
            ![b].status = IF @ = "FAILED" THEN @
                          ELSE IF AllDone(Status(nodes)) THEN "SUCCEEDED" ELSE "RUNNING"]
    /\ UNCHANGED <<project, drafts, plans, configured, events>>

Fail(b, n) ==
    /\ Queued(b, n) /\ n \notin Sources
    /\ builds[b].status # "FAILED"
    /\ Event
    /\ builds' = [builds EXCEPT ![b].nodes[n].status = "FAILED", ![b].status = "FAILED"]
    /\ UNCHANGED <<project, drafts, plans, configured>>

-----------------------------------------------------------------------------
\* A project with its first source, before anything was built.
Init ==
    /\ \E spec \in Specs :
         /\ spec.image = SeedImage /\ spec.brief = DefaultBrief
         /\ spec.legal = (CHOOSE l \in Legals : TRUE) /\ spec.name = (CHOOSE m \in Names : TRUE)
         /\ number = [s \in {[spec EXCEPT !.image = NoImage], spec} |-> IF s = spec THEN 2 ELSE 1]
         /\ compiled = [s \in Known |-> 1]
         /\ active = spec
    /\ latest = SeedImage /\ policy = 1
    /\ drafts = <<>> /\ plans = <<>> /\ builds = <<>>
    /\ configured = TRUE
    /\ events = 0

Edit ==
    \/ \E base \in Known, patch \in Patches : Create(base, patch)
    \/ \E d \in DOMAIN drafts : (\E patch \in Patches : Update(d, patch)) \/ Preview(d) \/ Tick(d)
    \/ \E p \in DOMAIN plans, start \in Starts : Commit(p, start)

Execute ==
    \E b \in DOMAIN builds, n \in Nodes : (\E v \in Variants : Pass(b, n, v)) \/ Fail(b, n)

Write ==
    /\ (\E name \in Names : Rename(name)) \/ (\E image \in Images : Upload(image))
    /\ Event
    /\ UNCHANGED <<drafts, plans, builds, configured>>

Next == Edit \/ Execute \/ Write \/ Seed \/ Deploy

Spec == Init /\ [][Next]_vars

-----------------------------------------------------------------------------
(* Properties *)

\* The rows of a change set, an impact plan, a node of a build and a build.
IsDraft(d) ==
    /\ d.status \in {"DRAFT", "COMMITTED"} /\ d.age \in Ages
    /\ d.base \in Known /\ d.patch \in Patches

IsPlan(p) == p.draft \in DOMAIN drafts /\ p.baseline \in SucceededAny /\ DOMAIN p.nodes = Nodes

IsNode(row) == row.status \in {"PENDING", "QUEUED", "PASSED", "REUSED", "FAILED"}

IsBuild(b) ==
    /\ b.spec \in Known /\ b.plan \in 0..Len(plans)
    /\ b.status \in {"PLANNED", "QUEUED", "RUNNING", "SUCCEEDED", "FAILED"}
    /\ \A n \in Nodes : IsNode(b.nodes[n])

\* Types of the rows.  A plan and a build never lose a node, and what a node
\* refers to exists.
TypeOK ==
    /\ ProjectTypeOK
    /\ \A d \in DOMAIN drafts : IsDraft(drafts[d])
    /\ \A p \in DOMAIN plans : IsPlan(plans[p])
    /\ \A b \in DOMAIN builds : IsBuild(builds[b]) /\ \A n \in Nodes : builds[b].nodes[n].by \in 0..b
    /\ configured \in BOOLEAN

\* Whatever was reused, rebuilt, kept from a failed build or scheduled while the
\* project changed: every accepted output was made under the recipe of the build's
\* revision, from exactly the outputs the build has selected for its inputs, by an
\* attempt at that fingerprint; and a committed build carries its own brief.
MadeFromSelected ==
    \A b \in DOMAIN builds, n \in Nodes :
       LET row == builds[b].nodes[n]
           fp  == Fingerprint(GraphOf(builds[b].spec)[n], Selected(builds[b].nodes, n))
       IN row.status \in S!Satisfies =>
            IF n \in Sources
              THEN n = TextSource /\ builds[b].plan # 0 => row.out = Text(builds[b].spec.brief)
              ELSE /\ row.fp = fp
                   /\ \E v \in Variants : row.out = Bytes(fp, v)
                   /\ row.by # 0 /\ builds[row.by].nodes[n].fp = fp

\* Against a successful build, however much of it was reused from builds before it, a
\* node is made again exactly if its recipe is another, if it is a source that is
\* another or is not verified, or if it reads such a node: no check of the baseline
\* turns down what the build itself has accepted.
Exact(plan) ==
    LET base == drafts[plan.draft].base
        spec == Proposed(plan.draft)
        kept == Decided(plan.nodes, "REUSE")
        same(n) ==
          IF n \in Sources
            THEN /\ Verified(plan.baseline, n, base)
                 /\ builds[plan.baseline].nodes[n].fp =
                      SourceFingerprint(n, Operation(spec, policy)[n], Content(spec)[n])
            ELSE Operation(spec, policy)[n] = GraphOf(builds[plan.baseline].spec)[n]
    IN \A n \in Nodes : n \in kept <=> same(n) /\ Reads(n) \subseteq kept

NewPlansAreExact == \A p \in DOMAIN plans' \ DOMAIN plans : Exact(plans'[p])

\* Every plan is exact when it is made.
PlansAreExact == [][NewPlansAreExact]_vars

\* The commits of drafts made on different revisions, undone and redone, and
\* uploads and renames between them: each step takes the active specification
\* from where it is, so that no edit is lost and none is applied twice.
OneField(from, to) ==
    \E field \in {"name", "legal", "brief", "image"} : to = [from EXCEPT ![field] = to[field]]

NoLostUpdate == [][active' # active => OneField(active, active')]_vars

\* The active specification names the newest image: no writer of revisions puts
\* the project back on a source that has been replaced.
HeadHasLatestImage == active.image = latest

\* The worker decides with its own queries when a build is finished; it agrees
\* with evaluate_build_completion for every build it has worked on.  No node is parked
\* here, so no build waits for review; BuildExecution has those.
CompletionAgrees ==
    \A b \in DOMAIN builds :
       LET st == Status(builds[b].nodes)
       IN /\ builds[b].status \in {"SUCCEEDED", "FAILED"} => S!Outcome(st) = builds[b].status
          /\ builds[b].status = "RUNNING" => S!Completion(st, "RUNNING") = "RUNNING"

\* A build that was started has a work item somewhere until it ends, unless its
\* plan reuses every node: the commit queues what is ready, the scheduler the rest,
\* and neither leaves a gap between them.  A QUEUED node has its item, because no build
\* waits for review here: where one does, QueuedIsAttended of BuildExecution fails.
OpenIsAttended ==
    \A b \in DOMAIN builds :
       LET st == Status(builds[b].nodes)
       IN builds[b].status \in {"QUEUED", "RUNNING"} =>
            S!In(st, {"QUEUED"}) # {} \/ S!In(st, {"REUSED"}) = Nodes

\* "A no-op incremental build is still a successful build" (test_scheduling.py, of
\* evaluate_build_completion): a commit whose plan keeps everything has its build done.
NoOpBuildSucceeds ==
    \A b \in DOMAIN builds :
       S!In(Status(builds[b].nodes), {"REUSED"}) = Nodes => builds[b].status = "SUCCEEDED"

=============================================================================
