CONSTANTS
    Branches <- MCBranches
    Remote = "origin"
    HeadBranch = "origin/main"
    InitHistory <- MCInitHistory
    InitTags <- MCInitTags
    ManualVersions <- MCManualVersions
    MaxCommits = 4
    MaxDay = 3
    TagTimestampReadable = TRUE
    PromoteImmediately = TRUE
    MinorLines <- MCMinorLines
    KeepClone = FALSE
    MaxGitFailures = 1
SPECIFICATION MCSpec
INVARIANTS
    NoRunAborts
PROPERTIES
    RemoteRefinesReleaseLines
