------------------------------ MODULE Compiler ------------------------------
(***************************************************************************)
(* The graph compiler (compiler.py).  A template is a sequence of nodes;   *)
(* compiling it for a revision yields the graph, or the reason it is       *)
(* refused for.  A canonical hash is what it is the hash of.               *)
(***************************************************************************)
EXTENDS Naturals, Sequences, FiniteSets

CONSTANT KeyOrder        \* every stable key, in ascending order

Least(keys) == KeyOrder[CHOOSE i \in DOMAIN KeyOrder :
                           /\ KeyOrder[i] \in keys
                           /\ \A j \in 1..(i - 1) : KeyOrder[j] \notin keys]

Keys(nodes) == {nodes[i].key : i \in DOMAIN nodes}
ByKey(nodes, key) == nodes[CHOOSE i \in DOMAIN nodes : nodes[i].key = key]
Upstream(node) == {node.inputs[j].from : j \in DOMAIN node.inputs}

-----------------------------------------------------------------------------
(* What makes a template invalid *)

DuplicateKeys(template) == \E i, j \in DOMAIN template : i # j /\ template[i].key = template[j].key

\* A self-edge, an edge from nowhere, or two edges into one place.
InvalidInputs(node, known) ==
    \/ node.key \in Upstream(node)
    \/ ~(Upstream(node) \subseteq known)
    \/ \E i, j \in DOMAIN node.inputs :
         /\ i # j
         /\ node.inputs[i].slot = node.inputs[j].slot
         /\ node.inputs[i].ordinal = node.inputs[j].ordinal

Unresolved(node, parameters, policies) ==
    \/ ~(node.binds \subseteq DOMAIN parameters)
    \/ ~(node.policies \subseteq DOMAIN policies)

\* Only the parameters a node binds reach its operation, and of the policies it
\* names their versions.
CompiledNode(node, parameters, policies) ==
    [key |-> node.key, type |-> node.type, required |-> node.required, inputs |-> node.inputs,
     operation |-> <<node.operation, [p \in node.binds |-> parameters[p]]>>,
     policies |-> [p \in node.policies |-> policies[p]]]

(***************************************************************************)
(* Kahn's algorithm: of the nodes that only wait for nodes already in the  *)
(* order, the one with the least key is next.                              *)
(***************************************************************************)
Frontier(nodes, done) ==
    {nodes[i].key : i \in {j \in DOMAIN nodes :
                             /\ nodes[j].key \notin done
                             /\ Upstream(nodes[j]) \subseteq done}}

Extended(nodes, order) ==
    LET ready == Frontier(nodes, {order[i] : i \in DOMAIN order})
    IN IF ready = {} THEN order ELSE Append(order, Least(ready))

TopologicalOrder(nodes) ==
    LET step[k \in 0..Len(nodes)] == IF k = 0 THEN <<>> ELSE Extended(nodes, step[k - 1])
    IN step[Len(nodes)]

Compile(template, parameters, policies) ==
    LET nodes == [i \in DOMAIN template |-> CompiledNode(template[i], parameters, policies)]
        order == TopologicalOrder(nodes)
    IN IF \/ DuplicateKeys(template)
          \/ \E i \in DOMAIN template : \/ InvalidInputs(template[i], Keys(template))
                                        \/ Unresolved(template[i], parameters, policies)
         THEN [error |-> "INVALID_GRAPH"]
       ELSE IF Len(order) # Len(nodes) THEN [error |-> "GRAPH_CYCLE"]
       ELSE [error |-> "NONE", nodes |-> nodes, order |-> order,
             hash |-> {nodes[i] : i \in DOMAIN nodes}]

\* assert_reaches: the required nodes that feed none of the deliverables.
WithUpstream(nodes, found) == found \cup UNION {Upstream(ByKey(nodes, key)) : key \in found}

Orphaned(graph, deliverables) ==
    LET reaching[k \in 0..Len(graph.nodes)] ==
          IF k = 0 THEN deliverables ELSE WithUpstream(graph.nodes, reaching[k - 1])
    IN {key \in Keys(graph.nodes) :
          ByKey(graph.nodes, key).required /\ key \notin reaching[Len(graph.nodes)]}

=============================================================================
