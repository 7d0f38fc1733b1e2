SPECIFICATION Spec
CONSTANTS
    destructive = destructive
    None = None
    Unreadable = Unreadable
    IllFormed = IllFormed
    ThreatClass <- Classes
    ConfigRef <- Configs
    Uri <- Uris
    Content <- TwoSubjects
    Procs = {p1, p2}
    Jobs <- NamingJobs
    Seeds <- DiskSeeds
    PowerJobs = {}
INVARIANTS
    EverySubjectCanBeRead
