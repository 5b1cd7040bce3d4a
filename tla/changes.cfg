CONSTANTS
    brief = brief
    image = image
    copy = copy
    card = card
    none = none
    Nodes <- GraphNodes
    Sources <- GraphSources
    Inputs <- GraphInputs
    None = none
    Names = {"A", "B"}
    Legals = {"l1", "l2"}
    Briefs = {"b1", "b2"}
    Images = {"i1", "i2"}
    NoImage = "i0"
    TextSource = brief
    ImageSource = image
    Provided = {copy}
    Binds <- GraphBinds
    Patches <- Edits
    Starts = {TRUE, FALSE}
    Variants = {1, 2}
    DefaultBrief = "b1"
    SeedImage = "i1"
    MaxRevisions = 4
    MaxPolicy = 2
    MaxDrafts = 2
    MaxPlans = 2
    MaxBuilds = 3
    MaxEvents = 2
SPECIFICATION Spec
INVARIANTS
    TypeOK
    NumberedWithoutGaps
    MadeFromSelected
    HeadHasLatestImage
    CompletionAgrees
    OpenIsAttended
PROPERTIES
    NoLostUpdate
    PlansAreExact
CONSTRAINTS
    Few
    FirstAnswer
CHECK_DEADLOCK FALSE
