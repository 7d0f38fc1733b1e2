SPECIFICATION Spec
CONSTANTS
    destructive = destructive
    p1 = p1
    p2 = p2
    p3 = p3
    threeAsText = threeAsText
    yes = yes
    notANumber = notANumber
    None = None
    NotAReport = NotAReport
    Unparsable = Unparsable
    Unreadable = Unreadable
    IllTyped = IllTyped
    ThreatClass <- Classes
    ConfigRef <- AllDigests
    Uri = {"report"}
    Content <- AllContent
    ReportOf <- MCReportOf
    ReceiptOf <- MCReceiptOf
    RightsOf <- MCRightsOf
    IntOf <- MCIntOf
    EesOf <- MCEesOf
    LastSegment <- MCLastSegment
    IllFormed = {"DESTRUCTIVE"}
    ClaimOf <- MCClaimOf
    Procs = {p1}
    Path <- Paths
    Dir <- BundleDirs
    DirOf <- MCDirOf
    Key <- MCKey
    NoiseDirs = {"cache", "git"}
    NoiseNames = {"ds-store"}
    Versions <- MCVersions
    MaxRewrites = 0
    Out = {"t1", "t1b", "t2"}
    Jobs <- ScanJobs
    Seeds <- AllSeeds
INVARIANTS
    AnySymlinkIsRefused
CONSTRAINT
    InScope
CHECK_DEADLOCK FALSE
