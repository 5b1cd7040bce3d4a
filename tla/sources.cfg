CONSTANTS
    u1 = u1
    u2 = u2
    Uploads = {u1, u2}
    FileOf <- TwoImages
    KindOf <- Kinds
    Names = {"A", "B"}
    Legals = {"l1"}
    Briefs = {"b1"}
    Images = {"i1", "i2"}
    NoImage = "i0"
    MaxRevisions = 3
    MaxPolicy = 1
    MaxAttempts = 2
    Limit = 1
    Watched = {u1}
    MaxOperations <- Operations
    MaxFaults = 1
    MaxEdits = 2
SPECIFICATION Spec
INVARIANTS
    TypeOK
    OneVersionEach
    ConfirmedWasThere
PROPERTIES
    StatusMovesForward
    PutIsNoticed
CHECK_DEADLOCK FALSE
