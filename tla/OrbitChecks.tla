----------------------------- MODULE OrbitChecks -----------------------------
(***************************************************************************)
(* What the compiler and the impact plan make of ORBIT, and of every small *)
(* graph: facts about pure functions, which TLC evaluates as assumptions   *)
(* of the run that extends this module.                                    *)
(***************************************************************************)
EXTENDS Orbit, FiniteSets, TLC

CONSTANT none

C == INSTANCE Compiler WITH KeyOrder <- OrbitKeys

OrbitNodes == {OrbitKeys[i] : i \in DOMAIN OrbitKeys}
NodeOf(key) == C!ByKey(OrbitTemplate, key)
OrbitReads == [key \in OrbitNodes |-> C!Upstream(NodeOf(key))]
OrbitSources == {key \in OrbitNodes : OrbitReads[key] = {}}

Closure(reads, from) ==
    LET reached[k \in 0..Cardinality(DOMAIN reads)] ==
          IF k = 0 THEN from
          ELSE LET found == reached[k - 1]
               IN found \cup {n \in DOMAIN reads : reads[n] \cap found # {}}
    IN reached[Cardinality(DOMAIN reads)]

Descendants(from) == Closure(OrbitReads, from)

-----------------------------------------------------------------------------
(* The compiler *)

Parameters(legal, brief) == [legal_line |-> legal, brief_text |-> brief]
Versions == [p \in ReferencedPolicies |-> 1]
Graph(parameters, versions) == C!Compile(OrbitTemplate, parameters, versions)
OrbitGraph == Graph(Parameters("l1", "b1"), Versions)

InOrder(order, reads) ==
    \A i \in DOMAIN order : reads[order[i]] \subseteq {order[j] : j \in 1..(i - 1)}

\* ORBIT compiles, its order respects every edge, and each of its nodes feeds a
\* deliverable; without one of its policies or parameters it is refused.
ASSUME OrbitCompiles ==
    /\ OrbitGraph.error = "NONE"
    /\ Len(OrbitTemplate) = 18 /\ C!Keys(OrbitTemplate) = OrbitNodes
    /\ InOrder(OrbitGraph.order, OrbitReads)
    /\ C!Orphaned(OrbitGraph, DeliverableKeys) = {}
    /\ C!Orphaned(OrbitGraph, {"image.poster"}) # {}
    /\ \A p \in ReferencedPolicies :
         Graph(Parameters("l1", "b1"), [q \in ReferencedPolicies \ {p} |-> 1]).error = "INVALID_GRAPH"
    /\ Graph([legal_line |-> "l1"], Versions).error = "INVALID_GRAPH"

K == INSTANCE Compiler WITH KeyOrder <- <<1, 2, 3>>

\* A template of three nodes in the order of p, with these edges into them.
Template(p, reads) ==
    [i \in 1..3 |->
       Node(p[i], "t", [j \in 1..Cardinality(reads[p[i]]) |->
                          In(j, (CHOOSE s \in [1..Cardinality(reads[p[i]]) -> reads[p[i]]] :
                                   \A a, b \in DOMAIN s : a < b => s[a] < s[b])[j])],
            "op", {}, {})]

\* Of every graph of three nodes, in every order the template may list them: it is
\* refused for a self-edge, for a cycle exactly if no order respects its edges, and
\* the graph and its order do not depend on the listing.
ASSUME CompilerIsDeterministic ==
    \A reads \in [1..3 -> SUBSET (1..3)] :
       LET compiled == [p \in Permutations(1..3) |-> K!Compile(Template(p, reads), <<>>, <<>>)]
       IN \A p \in Permutations(1..3) :
            /\ (compiled[p].error = "INVALID_GRAPH") <=> (\E n \in 1..3 : n \in reads[n])
            /\ (compiled[p].error = "GRAPH_CYCLE") <=>
                 /\ \A n \in 1..3 : n \notin reads[n]
                 /\ ~\E q \in Permutations(1..3) : InOrder(q, reads)
            /\ compiled[p].error = "NONE" =>
                 /\ InOrder(compiled[p].order, reads)
                 /\ \A q \in Permutations(1..3) : /\ compiled[q].order = compiled[p].order
                                                  /\ compiled[q].hash = compiled[p].hash

-----------------------------------------------------------------------------
(* The impact plan *)

OrbitInputs ==
    [key \in OrbitNodes |-> [j \in DOMAIN NodeOf(key).inputs |-> NodeOf(key).inputs[j].from]]

I == INSTANCE Impact WITH
       Nodes <- OrbitNodes, Sources <- OrbitSources, Inputs <- OrbitInputs, None <- none

\* The recipe of a node: its type, operation, policies and slots, but not its key.
Recipes(parameters, versions) ==
    [key \in OrbitNodes |->
       LET node == C!CompiledNode(NodeOf(key), parameters, versions)
       IN <<node.type, node.operation, node.policies,
            [j \in DOMAIN node.inputs |-> <<node.inputs[j].slot, node.inputs[j].ordinal>>]>>]

Base == Recipes(Parameters("l1", "b1"), Versions)
Uploaded == [key \in OrbitSources |-> <<"content", key>>]
NoBase == [key \in OrbitNodes |-> none]

\* A first build makes every node; its outputs are the candidates of the next plan.
First == I!ComputeImpact(Base, Uploaded, NoBase, {})

Candidate(fp) ==
    [fp |-> fp, out |-> <<"bytes", fp>>, accepted |-> TRUE, present |-> TRUE, verified |-> TRUE,
     current |-> TRUE, revoked |-> FALSE, fixture |-> FALSE]

Built ==
    LET made[key \in OrbitNodes] ==
          Candidate(IF key \in OrbitSources
                      THEN I!SourceFingerprint(key, Base[key], Uploaded[key])
                      ELSE I!Fingerprint(Base[key], [j \in DOMAIN OrbitInputs[key] |->
                                                       made[OrbitInputs[key][j]].out]))
    IN made

Rebuilt(recipes, content, candidates) ==
    I!Decided(I!ComputeImpact(recipes, content, candidates, {}), "REBUILD")

\* Without an earlier build everything is made, no two nodes have one recipe, and
\* against an identical build nothing is.
ASSUME AllOrNothing ==
    /\ I!Decided(First, "REBUILD") = OrbitNodes
    /\ \A m, n \in OrbitNodes : m # n => Built[m].fp # Built[n].fp
    /\ Rebuilt(Base, Uploaded, Built) = {}

\* "AS-01": to edit the legal line rebuilds the four nodes the specification names,
\* for the reason it is.
ASSUME LegalEditRebuildsFour ==
    LET plan == I!ComputeImpact(Recipes(Parameters("l2", "b1"), Versions), Uploaded, Built, {})
    IN /\ I!Decided(plan, "REBUILD") = ExpectedLegalCopyRebuild
       /\ plan["copy.pack"].reason = "NODE_SPEC_CHANGED"
       /\ \A key \in ExpectedLegalCopyRebuild \ {"copy.pack"} :
            plan[key].reason = "UPSTREAM_FINGERPRINT_CHANGED"

\* Other content, or other policies: what carries or names it, and what follows.
ASSUME ChangeRebuildsDescendants ==
    /\ \A changed \in SUBSET OrbitSources :
         Rebuilt(Base, [key \in OrbitSources |-> IF key \in changed THEN <<"new">> ELSE Uploaded[key]],
                 Built) = Descendants(changed)
    /\ \A p, q \in ReferencedPolicies :
         Rebuilt(Recipes(Parameters("l1", "b1"), [Versions EXCEPT ![p] = 2, ![q] = 2]), Uploaded, Built)
           = Descendants({key \in OrbitNodes : {p, q} \cap NodeOf(key).policies # {}})

\* The ways in which the output of an earlier build is not to be kept.
Damages(c) ==
    {none, [c EXCEPT !.revoked = TRUE], [c EXCEPT !.accepted = FALSE], [c EXCEPT !.out = none],
     [c EXCEPT !.present = FALSE], [c EXCEPT !.verified = FALSE], [c EXCEPT !.current = FALSE],
     [c EXCEPT !.fixture = TRUE]}

\* A candidate that cannot be kept is made again, whatever is wrong with it, with
\* everything that follows from it and nothing else.
ASSUME DamageRebuildsDescendants ==
    \A m \in OrbitNodes : \A bad \in Damages(Built[m]) :
       LET damaged == [Built EXCEPT ![m] = bad]
       IN /\ Rebuilt(Base, Uploaded, damaged) = Descendants({m})
          /\ \A n \in OrbitNodes \ {m} :
               Rebuilt(Base, Uploaded, [damaged EXCEPT ![n].verified = FALSE]) = Descendants({m, n})

-----------------------------------------------------------------------------
(* Credentials *)

CallsProvider ==
    {"STRUCTURED_PLAN", "STRUCTURED_TEXT", "IMAGE_GENERATION", "VIDEO_GENERATION", "AUDIO_GENERATION"}

\* _configuration_blocks: the settings a node needs to execute.
Requires(node) ==
    CASE node.key = "audio.narration" -> {"ELEVENLABS_API_KEY", "ELEVENLABS_TTS_MODEL", "ELEVENLABS_VOICE_ID"}
      [] node.key = "audio.music" -> {"ELEVENLABS_API_KEY", "ELEVENLABS_MUSIC_MODEL"}
      [] node.type \in {"STRUCTURED_PLAN", "STRUCTURED_TEXT"} -> {"ANTHROPIC_API_KEY", "EVALUATOR_MODEL"}
      [] node.type = "IMAGE_GENERATION" -> {"GMI_API_KEY", "GMI_IMAGE_MODEL"}
      [] node.type = "VIDEO_GENERATION" -> {"GMI_API_KEY", "GMI_VIDEO_MODEL"}
      [] OTHER -> {}

BlockedWithout(missing) == {key \in OrbitNodes : Requires(NodeOf(key)) \cap missing # {}}

\* Exactly the nodes that are counted as provider calls can be blocked; a missing
\* setting blocks those of them that would be made, and never what is kept.
ASSUME OnlyCallsAreBlocked ==
    LET settings == UNION {Requires(NodeOf(key)) : key \in OrbitNodes}
        plan(recipes, missing) == I!ComputeImpact(recipes, Uploaded, Built, BlockedWithout(missing))
        edited == Recipes(Parameters("l2", "b1"), Versions)
    IN /\ BlockedWithout(settings) = {key \in OrbitNodes : NodeOf(key).type \in CallsProvider}
       /\ I!Decided(plan(Base, settings), "REUSE") = OrbitNodes
       /\ \A s \in settings :
            /\ I!Decided(plan(edited, {s}), "BLOCKED") = BlockedWithout({s}) \cap ExpectedLegalCopyRebuild
            /\ I!Decided(plan(edited, {s}), "REUSE") = OrbitNodes \ ExpectedLegalCopyRebuild

=============================================================================
