---------------------------- MODULE MCChangeSets ----------------------------
(* A small instance of ChangeSets: the two sources of ORBIT, its copy pack   *)
(* and its end card.                                                         *)
EXTENDS ChangeSets, TLC

CONSTANTS brief, image, copy, card, none

GraphNodes == {brief, image, copy, card}
GraphSources == {brief, image}
GraphInputs == brief :> <<>> @@ image :> <<>> @@ copy :> <<brief>> @@ card :> <<image, copy>>
GraphBinds == brief :> {"brief"} @@ image :> {} @@ copy :> {"legal"} @@ card :> {}

LegalEdits == {[field |-> "legal", to |-> l] : l \in Legals}
\* The brief is edited one way; the way back is the brief of an older revision.
Edits == LegalEdits \cup {[field |-> "brief", to |-> b] : b \in Briefs \ {DefaultBrief}}

\* Bound: a draft that edits the brief and a build that is not started count as
\* two events.
Few ==
    events + 2 * Cardinality({d \in DOMAIN drafts : drafts[d].patch.field = "brief"})
           + 2 * Cardinality({b \in DOMAIN builds : builds[b].status = "PLANNED"}) <= MaxEvents

\* Bound: the answers of a provider differ in nothing but that they differ, so that
\* the one the first build got may as well be the first.
FirstAnswer ==
    \A b \in DOMAIN builds :
       b = 1 /\ builds[b].nodes[copy].out # none => builds[b].nodes[copy].out[3] = 1

=============================================================================
