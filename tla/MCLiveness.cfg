CONSTANTS
    Branches <- MCBranches
    Remote = "origin"
    HeadBranch = "origin/main"
    InitHistory <- MCInitHistory
    InitTags <- MCInitTags
    ManualVersions <- MCManualVersions
    MaxCommits = 3
    MaxDay = 3
    TagTimestampReadable = TRUE
    PromoteImmediately = FALSE
    MinorLines <- MCMinorLines
    KeepClone = FALSE
    MaxGitFailures = 1
SPECIFICATION MCSpec
PROPERTIES
    ReadyPrereleaseIsPromoted
