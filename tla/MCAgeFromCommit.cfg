CONSTANTS
    Branches <- MCBranches
    Remote = "origin"
    HeadBranch = "origin/main"
    InitHistory <- MCInitHistory
    InitTags <- MCInitTags
    ManualVersions <- MCManualVersions
    MaxCommits = 3
    MaxDay = 5
    TagTimestampReadable = TRUE
    PromoteImmediately = FALSE
    MinorLines <- MCMinorLines
    KeepClone = FALSE
    MaxGitFailures = 0
SPECIFICATION MCSpec
INVARIANTS
    PromotionWaitsSinceTagCreation
