CONSTANTS
    Branches <- SharedBranches
    Remote = "origin"
    HeadBranch = "origin/main"
    InitHistory <- SharedInitHistory
    InitTags <- SharedInitTags
    ManualVersions <- MCManualVersions
    MaxCommits = 3
    MaxDay = 3
    TagTimestampReadable = TRUE
    PromoteImmediately = FALSE
    MinorLines <- MCMinorLines
    KeepClone = FALSE
    MaxGitFailures = 0
SPECIFICATION MCSpec
INVARIANTS
    NoRunAborts
