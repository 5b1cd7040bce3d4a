CONSTANTS
    brief = brief
    image = image
    copy = copy
    card = card
    none = none
    Nodes <- GraphNodes
    Sources <- GraphSources
    Inputs <- GraphInputs
    None = none
    Names = {"A", "B"}
    Legals = {"l1", "l2"}
    Briefs = {"b1"}
    Images = {"i1", "i2"}
    NoImage = "i0"
    TextSource = brief
    ImageSource = image
    Provided = {copy}
    Binds <- GraphBinds
    Patches <- LegalEdits
    Starts = {TRUE}
    Variants = {1, 2}
    DefaultBrief = "b1"
    SeedImage = "i1"
    MaxRevisions = 4
    MaxPolicy = 2
    MaxDrafts = 2
    MaxPlans = 2
    MaxBuilds = 3
    MaxEvents = 2
SPECIFICATION Spec
INVARIANT NoOpBuildSucceeds
CHECK_DEADLOCK FALSE
