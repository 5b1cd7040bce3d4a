----------------------------- MODULE Revisions ------------------------------
(***************************************************************************)
(* The immutable revisions of a project and the pointer to the active one. *)
(* A revision is its specification: the schema keeps canonical hashes      *)
(* unique per project.  Three operations write revisions, all of them with *)
(* the project row locked: a rename (projects.py), an uploaded source      *)
(* (uploads.py) and the commit of a change (changes.py).                   *)
(***************************************************************************)
EXTENDS Naturals, FiniteSets

CONSTANTS
    Names, Legals, Briefs,   \* what the fields of a specification range over
    Images,                  \* the contents of the product reference
    NoImage,                 \* none was uploaded yet
    MaxPolicy,               \* bound: deployed versions of the policies
    MaxRevisions             \* bound: revisions of the project

ASSUME RevisionAssumption == NoImage \notin Images /\ {MaxPolicy, MaxRevisions} \subseteq Nat \ {0}

VARIABLES
    number,          \* number[spec]: revision_no, for the specifications there are
    active,          \* the specification projects.active_revision_id points to
    latest,          \* the content of the newest version of the product reference
    compiled,        \* compiled[spec]: the policies its graph was compiled with
    policy           \* the policies of the deployed code

project == <<number, active, latest, compiled, policy>>

Specs == [name : Names, legal : Legals, brief : Briefs, image : Images \cup {NoImage}]
Known == DOMAIN number
Numbers == {number[s] : s \in Known}
Highest == CHOOSE k \in Numbers : \A j \in Numbers : j <= k

ProjectTypeOK ==
    /\ Known \subseteq Specs /\ active \in Known
    /\ number \in [Known -> Nat \ {0}]
    /\ latest \in Images \cup {NoImage}
    /\ policy \in 1..MaxPolicy
    /\ compiled \in [Known -> 1..policy]

\* ProjectService.create: revision 1, without sources.
Created(spec) ==
    /\ spec.image = NoImage
    /\ number = [s \in {spec} |-> 1]
    /\ active = spec
    /\ latest = NoImage
    /\ policy = 1 /\ compiled = [s \in {spec} |-> 1]

\* A new revision has its graph compiled with it, by the policies of the day.
Recorded(spec, no) ==
    /\ spec \in Known \/ Cardinality(Known) < MaxRevisions
    /\ number' = [s \in Known \cup {spec} |-> IF s \in Known THEN number[s] ELSE no]
    /\ compiled' = [s \in Known \cup {spec} |-> IF s \in Known THEN compiled[s] ELSE policy]

\* compile_revision: a revision that has a graph compiles to that graph or not at all.
Compiles(spec) == spec \in Known => compiled[spec] = policy

\* Variant of Adopt: the next number is that after the active revision.
AdoptAfterActive(spec) == Recorded(spec, number[active] + 1) /\ active' = spec

\* A rename and a commit return to the revision of the same specification, if
\* there is one, or append after the highest number.
Adopt(spec) == Recorded(spec, Highest + 1) /\ active' = spec

\* ProjectService.patch; a stale If-Match or an unchanged name changes nothing.
Rename(name) ==
    /\ name # active.name
    /\ Adopt([active EXCEPT !.name = name])
    /\ UNCHANGED <<latest, policy>>

\* UploadService._create_project_revision: a child of the active revision, with
\* the next number; the unique constraints refuse a number or a specification
\* that another revision has, and with it the upload.
Child(content) == [active EXCEPT !.image = content]
NumberFree == number[active] + 1 \notin Numbers

Fits(content) == Child(content) = active \/ (Child(content) \notin Known /\ NumberFree)

Upload(content) ==
    /\ Fits(content) /\ Compiles(Child(content))
    /\ Recorded(Child(content), number[active] + 1)
    /\ active' = Child(content)
    /\ latest' = content
    /\ UNCHANGED policy

\* Code with other policies: their rows become new versions, the old ones stay.
NewPolicies ==
    /\ policy < MaxPolicy
    /\ policy' = policy + 1
    /\ UNCHANGED <<number, active, latest, compiled>>

\* Revisions are numbered without a gap or a repetition by writers that do not count
\* alike: uploads from the active revision, renames and commits from the highest.
NumberedWithoutGaps == Numbers = 1..Cardinality(Known)

=============================================================================
