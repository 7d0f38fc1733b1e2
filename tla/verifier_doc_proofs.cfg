SPECIFICATION Spec
CONSTANTS
    destructive = destructive
    exfiltration = exfiltration
    None = None
    NotAReport = NotAReport
    Unparsable = Unparsable
    Unreadable = Unreadable
    IllTyped = IllTyped
    ThreatClass <- Classes
    ConfigRef <- Configs
    Uri <- Uris
    Content <- AllContent
    ReportOf <- MCReportOf
    Seals <- ProofSeals
    Options <- ProofOptions
    Subjects <- TwoSubjects
    Reports <- AllReports
    MaxClock = 0
INVARIANTS
    ProofsAreJudged
