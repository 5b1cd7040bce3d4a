-------------------------- MODULE Revisions_proofs --------------------------
(***************************************************************************)
(* Lemmas about the operations that write revisions, for every set of      *)
(* names, legal lines, briefs and images and for every bound.  The modules *)
(* whose specifications are made of these operations cite them.            *)
(***************************************************************************)
EXTENDS Revisions, FiniteSetTheorems, TLAPS

\* What the writers of revisions keep: the types, finitely many revisions, and
\* numbers without a gap.
Numbered == ProjectTypeOK /\ IsFiniteSet(Known) /\ NumberedWithoutGaps

\* What is known of a revision is not revised.
Immutable ==
    /\ Known \subseteq Known'
    /\ \A s \in Known : number'[s] = number[s] /\ compiled'[s] = compiled[s]

\* The types of the project, opened.
LEMMA ProjectIs ==
    ASSUME ProjectTypeOK
    PROVE  /\ Known \subseteq Specs /\ active \in Known /\ active \in Specs
           /\ number \in [Known -> Nat \ {0}] /\ latest \in Images \cup {NoImage}
           /\ policy \in Nat \ {0} /\ policy \in 1..MaxPolicy /\ MaxPolicy \in Nat
           /\ compiled \in [Known -> 1..policy]
  BY RevisionAssumption DEF ProjectTypeOK

\* The highest number is that of how many revisions there are.
LEMMA HighestIs ==
    ASSUME Numbered
    PROVE  /\ Cardinality(Known) \in Nat \ {0} /\ Highest = Cardinality(Known)
           /\ number[active] \in 1..Cardinality(Known)
  <1> DEFINE c == Cardinality(Known)
  <1>1. c \in Nat
    BY FS_CardinalityType DEF Numbered
  <1>2. Numbers = 1..c /\ active \in Known
    BY ProjectIs DEF Numbered, NumberedWithoutGaps
  <1>3. number[active] \in 1..c
    BY <1>2 DEF Numbers
  <1> HIDE DEF c
  <1>4. c \in Nat \ {0}
    BY <1>1, <1>3
  <1>5. c \in Numbers /\ \A j \in Numbers : j <= c
    BY <1>2, <1>4
  <1>6. \A k \in Numbers : (\A j \in Numbers : j <= k) => k = c
    BY <1>2, <1>4, <1>5
  <1>7. Highest = c
    BY <1>5, <1>6 DEF Highest
  <1> QED
    BY <1>3, <1>4, <1>7 DEF c

\* A revision that is recorded with the next number, unless it is there already.
LEMMA RecordingStep ==
    ASSUME Numbered, NEW spec \in Specs, NEW no, Recorded(spec, no), active' = spec,
           spec \notin Known => no = Cardinality(Known) + 1,
           latest' \in Images \cup {NoImage}, policy' = policy
    PROVE  /\ Numbered' /\ Immutable /\ Known' = Known \cup {spec}
           /\ compiled'[spec] = IF spec \in Known THEN compiled[spec] ELSE policy
  <1> DEFINE c == Cardinality(Known)
  <1>1. /\ Known \subseteq Specs /\ number \in [Known -> Nat \ {0}]
        /\ policy \in Nat \ {0} /\ policy \in 1..MaxPolicy
        /\ compiled \in [Known -> 1..policy]
    BY ProjectIs DEF Numbered
  <1>2. c \in Nat \ {0} /\ IsFiniteSet(Known) /\ Numbers = 1..c
    BY HighestIs DEF Numbered, NumberedWithoutGaps
  <1>3. /\ number' = [s \in Known \cup {spec} |-> IF s \in Known THEN number[s] ELSE no]
        /\ compiled' = [s \in Known \cup {spec} |-> IF s \in Known THEN compiled[s] ELSE policy]
    BY DEF Recorded
  <1>4. Known' = Known \cup {spec}
    BY <1>3 DEF Known
  <1>5. Immutable
    BY <1>3, <1>4 DEF Immutable
  <1>6. compiled'[spec] = IF spec \in Known THEN compiled[spec] ELSE policy
    BY <1>3
  <1>7. spec \notin Known => no \in Nat \ {0}
    BY <1>2
  <1>8. ProjectTypeOK'
    <2>1. number' \in [Known \cup {spec} -> Nat \ {0}]
      BY <1>1, <1>3, <1>7
    <2>2. compiled' \in [Known \cup {spec} -> 1..policy]
      BY <1>1, <1>3
    <2> QED
      BY <1>1, <1>4, <2>1, <2>2 DEF ProjectTypeOK
  <1>9. IsFiniteSet(Known')
    BY <1>2, <1>4, FS_AddElement
  <1>10. NumberedWithoutGaps'
    <2>1. CASE spec \in Known
      <3>1. Known' = Known /\ \A s \in Known : number'[s] = number[s]
        BY <1>3, <1>4, <2>1
      <3>2. Numbers' = Numbers
        BY <3>1 DEF Numbers
      <3>3. Cardinality(Known') = Cardinality(Known)
        BY <3>1
      <3> QED
        BY <3>2, <3>3 DEF Numbered, NumberedWithoutGaps
    <2>2. CASE spec \notin Known
      <3>1. Cardinality(Known') = c + 1
        BY <1>2, <1>4, <2>2, FS_AddElement
      <3>2. Numbers' = Numbers \cup {c + 1}
        <4>1. \A s \in Known : number'[s] = number[s]
          BY <1>3
        <4>2. number'[spec] = c + 1
          BY <1>3, <2>2
        <4> HIDE DEF c
        <4> QED
          BY <1>4, <4>1, <4>2 DEF Numbers
      <3> HIDE DEF c
      <3>3. 1..c \cup {c + 1} = 1..(c + 1)
        BY <1>2
      <3> QED
        BY <1>2, <3>1, <3>2, <3>3 DEF NumberedWithoutGaps
    <2> QED
      BY <2>1, <2>2
  <1> QED
    BY <1>4, <1>5, <1>6, <1>8, <1>9, <1>10 DEF Numbered

\* A rename and a commit number from the highest.
LEMMA AdoptStep ==
    ASSUME Numbered, NEW spec \in Specs, Adopt(spec), UNCHANGED <<latest, policy>>
    PROVE  /\ Numbered' /\ Immutable /\ Known' = Known \cup {spec} /\ active' = spec
           /\ compiled'[spec] = IF spec \in Known THEN compiled[spec] ELSE policy
  <1>1. Recorded(spec, Highest + 1) /\ active' = spec
    BY DEF Adopt
  <1>2. Highest = Cardinality(Known) /\ latest \in Images \cup {NoImage}
    BY HighestIs, ProjectIs DEF Numbered
  <1> QED
    BY <1>1, <1>2, RecordingStep

\* A rename changes the name.
LEMMA RenameStep ==
    ASSUME Numbered, NEW name \in Names, Rename(name)
    PROVE  /\ Numbered' /\ Immutable /\ latest' = latest
           /\ active' = [active EXCEPT !.name = name]
  <1> DEFINE spec == [active EXCEPT !.name = name]
  <1>1. active \in Specs
    BY ProjectIs DEF Numbered
  <1>2. spec \in Specs
    BY <1>1 DEF Specs
  <1>3. Adopt(spec) /\ UNCHANGED <<latest, policy>>
    BY DEF Rename
  <1> HIDE DEF spec
  <1>4. Numbered' /\ Immutable /\ active' = spec
    BY <1>2, <1>3, AdoptStep
  <1> QED
    BY <1>3, <1>4 DEF spec

\* An upload numbers from the active revision: where that number is free, it is the
\* next after the highest.
LEMMA UploadStep ==
    ASSUME Numbered, NEW content \in Images, Upload(content)
    PROVE  /\ Numbered' /\ Immutable /\ latest' = content
           /\ active' = [active EXCEPT !.image = content]
  <1> DEFINE spec == Child(content)
             c == Cardinality(Known)
             k == number[active]
  <1>1. active \in Specs /\ active \in Known
    BY ProjectIs DEF Numbered
  <1>2. spec \in Specs /\ spec = [active EXCEPT !.image = content]
    BY <1>1 DEF Specs, Child
  <1>3. /\ Recorded(spec, k + 1) /\ active' = spec /\ latest' = content /\ policy' = policy
        /\ Fits(content)
    BY DEF Upload
  <1>4. c \in Nat \ {0} /\ k \in 1..c /\ Numbers = 1..c
    BY HighestIs DEF Numbered, NumberedWithoutGaps
  <1>5. spec \notin Known => k + 1 = c + 1
    <2>1. spec \notin Known => k + 1 \notin 1..c
      BY <1>1, <1>3, <1>4 DEF Fits, NumberFree
    <2> HIDE DEF c, k, spec
    <2> QED
      BY <1>4, <2>1
  <1> HIDE DEF spec, k
  <1>6. Numbered' /\ Immutable
    BY <1>2, <1>3, <1>5, RecordingStep
  <1> QED
    BY <1>2, <1>3, <1>6

\* New policies are no revision.
LEMMA PoliciesStep ==
    ASSUME Numbered, NewPolicies
    PROVE  Numbered' /\ Immutable /\ active' = active /\ latest' = latest
  <1>1. /\ UNCHANGED <<number, active, latest, compiled>>
        /\ policy < MaxPolicy /\ policy' = policy + 1
    BY DEF NewPolicies
  <1>2. Known' = Known /\ Numbers' = Numbers
    BY <1>1 DEF Known, Numbers
  <1>3. policy' \in 1..MaxPolicy /\ compiled \in [Known -> 1..policy']
    BY <1>1, ProjectIs DEF Numbered
  <1>4. ProjectTypeOK'
    BY <1>1, <1>2, <1>3 DEF Numbered, ProjectTypeOK
  <1> QED
    BY <1>1, <1>2, <1>4 DEF Numbered, NumberedWithoutGaps, Immutable

\* Nothing happens to the project.
LEMMA ProjectStays ==
    ASSUME Numbered, UNCHANGED project
    PROVE  Numbered' /\ Immutable /\ active' = active /\ latest' = latest
  BY DEF project, Numbered, ProjectTypeOK, NumberedWithoutGaps, Known, Numbers, Immutable

\* A new project has one revision.
LEMMA CreatedStep ==
    ASSUME NEW spec \in Specs, Created(spec)
    PROVE  Numbered
  <1>1. /\ number = [s \in {spec} |-> 1] /\ active = spec /\ latest = NoImage /\ policy = 1
        /\ compiled = [s \in {spec} |-> 1]
    BY DEF Created
  <1>2. Known = {spec} /\ Numbers = {1}
    BY <1>1 DEF Known, Numbers
  <1>3. IsFiniteSet(Known) /\ Cardinality(Known) = 1
    BY <1>2, FS_Singleton
  <1>4. ProjectTypeOK
    BY <1>1, <1>2, RevisionAssumption DEF ProjectTypeOK
  <1> QED
    BY <1>2, <1>3, <1>4 DEF Numbered, NumberedWithoutGaps

=============================================================================
