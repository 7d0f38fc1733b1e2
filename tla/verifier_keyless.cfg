SPECIFICATION FairSpec
CONSTANTS
    destructive = destructive
    exfiltration = exfiltration
    None = None
    NotAReport = NotAReport
    Unparsable = Unparsable
    Unreadable = Unreadable
    IllTyped = IllTyped
    ThreatClass <- Classes
    ConfigRef <- Configs
    Uri <- Uris
    Content <- AllContent
    ReportOf <- MCReportOf
    Seals <- KeylessSeals
    Options <- KeylessOptions
    Subjects <- TwoSubjects
    Reports <- TwoReports
    MaxClock = 3
INVARIANTS
    ExternalCallsOnlyWhenBound
    AuthenticIsCurrent
    GoodSealsPass
PROPERTIES
    ImplementsContract
    Terminates
