CONSTANTS
    Branches <- MCBranches
    Remote = "origin"
    HeadBranch = "origin/main"
    InitHistory <- MCInitHistory
    InitTags <- MCInitTags
    ManualVersions <- MCManualVersions
    MaxCommits = 4
    MaxDay = 4
    TagTimestampReadable = TRUE
    PromoteImmediately = TRUE
    MinorLines <- MCMinorLines
    KeepClone = FALSE
    MaxGitFailures = 0
SPECIFICATION MCSpec
INVARIANTS
    TypeOK
    OnePromotionPerLinePerDay
