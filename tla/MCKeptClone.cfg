CONSTANTS
    Branches <- MCBranches
    Remote = "origin"
    HeadBranch = "origin/main"
    InitHistory <- MCInitHistory
    InitTags <- MCInitTags
    ManualVersions <- MCManualVersions
    MaxCommits = 4
    MaxDay = 2
    TagTimestampReadable = TRUE
    PromoteImmediately = TRUE
    MinorLines <- MCMinorLines
    KeepClone = TRUE
    MaxGitFailures = 1
SPECIFICATION MCSpec
PROPERTIES
    RemoteRefinesReleaseLines
