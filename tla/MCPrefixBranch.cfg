CONSTANTS
    Branches <- PrefixBranches
    Remote = "origin"
    HeadBranch = "origin/main"
    InitHistory <- PrefixInitHistory
    InitTags <- MCInitTags
    ManualVersions <- MCManualVersions
    MaxCommits = 3
    MaxDay = 2
    TagTimestampReadable = TRUE
    PromoteImmediately = FALSE
    MinorLines <- MCMinorLines
    KeepClone = FALSE
    MaxGitFailures = 0
SPECIFICATION MCSpec
INVARIANTS
    PrereleasesOnManagedBranches
