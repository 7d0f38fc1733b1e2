SPECIFICATION Spec
CONSTANTS
    destructive = destructive
    None = None
    Unreadable = Unreadable
    IllFormed = IllFormed
    ThreatClass <- Classes
    ConfigRef <- Configs
    Uri <- Uris
    Content <- TwoSubjects
    Procs = {p1, p2}
    Jobs <- AllJobs
    Seeds <- AllSeeds
    PowerJobs <- DiskJobs
INVARIANTS
    TypeOK
    WholeFiles
    NoOverclaimIsMinted
    SealedBytesWereRead
    StatusTellsTheOutcome
    OnlyVettedScansAreStored
PROPERTIES
    SealsTellTheWholeStore
ACTION_CONSTRAINT
    FromOneStore
