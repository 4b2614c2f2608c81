CONSTANTS
    Branches <- MCBranches
    Remote = "origin"
    HeadBranch = "origin/main"
    InitHistory <- MCInitHistory
    InitTags <- ReleaseCutTags
    ManualVersions <- MCManualVersions
    MaxCommits = 4
    MaxDay = 4
    TagTimestampReadable = FALSE
    PromoteImmediately = FALSE
    MinorLines <- MCMinorLines
    KeepClone = FALSE
    MaxGitFailures = 1
SPECIFICATION MCSpec
PROPERTIES
    ManagedTipEventuallyTagged
