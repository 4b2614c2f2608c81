-------------------------- MODULE ReleasePromotion --------------------------
(***************************************************************************)
(* hack/release_promotion/scripts/promote.py run periodically against a   *)
(* clone of the repository.  The git repository is the only state: the    *)
(* commits of the remote-tracking branches and the tags.  Maintainers add *)
(* commits and hand-made tags, days pass, and the two commands of the     *)
(* script run one at a time, each as a loop of steps:                     *)
(*   create_new_prereleases  one CreateStep per managed branch;           *)
(*   promote_releases        one PromoteStep per version merged into HEAD.*)
(* A git command that fails (`git tag` of a name that exists, a `git push` *)
(* that fails or times out) raises out of the loop and ends the run.      *)
(*                                                                         *)
(* The script reads and writes the tags of its clone and pushes each tag  *)
(* it makes to the remote.  Before each run the job fetches the remote:   *)
(* into a fresh clone, or into the clone of the previous run, where       *)
(* `git fetch` keeps the tags the clone has and the remote has not.       *)
(*                                                                         *)
(* Tags the script creates are lightweight (`git tag <name> <commit>`), so *)
(* `%(creatordate)` of such a tag is the committer date of its commit.     *)
(***************************************************************************)
EXTENDS Versions

CONSTANTS
    Branches,          \* remote-tracking refs listed by `git branch -r`
    Remote,            \* --remote
    HeadBranch,        \* the ref the clone's HEAD is at
    InitHistory,       \* initial commits of each branch, oldest first
    InitTags,          \* tags present at the start
    ManualVersions,    \* versions a maintainer may tag by hand
    MaxCommits,        \* bound: commits in the repository
    MaxDay,            \* bound: days modelled
    TagTimestampReadable, \* whether get_tag_age returns an age (see README)
    PromoteImmediately,   \* the job passes --promote-immediately
    MinorLines,           \* the <<major, minor>> lines the properties watch
    KeepClone,            \* the job fetches into the previous run's clone
    MaxGitFailures        \* bound: git commands that fail or time out

\* Maintainers tag final releases by hand, in the tag format of the script.
ASSUME \A v \in ManualVersions : v \in VersionType /\ ~IsPre(v)

VARIABLES
    history,    \* [Branches -> Seq(commit)]: each branch's commits, oldest first
    commitDay,  \* [commit -> day]: committer date of each commit
    tags,       \* set of tag records: the tags of the clone
    remoteTags, \* set of tag records: the tags of the remote
    gitFailures, \* git commands that have failed or timed out so far
    day,        \* today
    ranToday,   \* the commands the daily job has run today
    pc,         \* "idle", "create" or "promote": the command running
    todo,       \* the loop items not reached yet: positions in ManagedBranches, or versions
    snapshot,   \* promote_releases: `versions`, read once at its start
    aborted     \* some run ended on a `git tag` of an existing name

vars == <<history, commitDay, tags, remoteTags, gitFailures, day, ranToday, pc, todo,
          snapshot, aborted>>

(***************************************************************************)
(* A tag: its name, the version the script parses from it, its commit, the *)
(* day it was made, who made it and the version it was derived from (the *)
(* latest version of the branch, or the promoted prerelease).  by and src *)
(* are history only: no action reads them.                                *)
(***************************************************************************)
Commits == 1..MaxCommits

NoCommit == 0

TagRec(v, c, d, by, src) ==
    [name |-> VersionToTag(v), ver |-> v, commit |-> c, created |-> d, by |-> by, src |-> src]

TagVersions == {t.ver : t \in tags}

TagOf(v) == CHOOSE t \in tags : t.ver = v

Tip(b) == Last(history[b])

CommitCount == Cardinality(DOMAIN commitDay)

\* get_tags(ref): the tags merged into the ref, listed by git in refname
\* order.  create_new_prereleases uses the first of the list, tags[0].
MergedIn(T, b) == {t \in T : t.commit \in Range(history[b])}

MergedTags(b) == MergedIn(tags, b)

FirstListedTag(b) ==
    CHOOSE t \in MergedTags(b) :
        \A u \in MergedTags(b) \ {t} : RefnameLess(t.name, u.name)

\* get_versions(ref), as a set: the loops below take its elements newest
\* first, as the list sorted with reverse=True gives them.
GetVersions(b) == {t.ver : t \in MergedTags(b)}

\* Fault: the branch is resolved where the tag should be.
LatestTaggedCommitOfBranch(b) == Tip(b)

\* The commit create_new_prereleases compares with the tip.
LatestTaggedCommit(b) ==
    IF MergedTags(b) = {} THEN NoCommit ELSE FirstListedTag(b).commit

(***************************************************************************)
(* get_managed_branches: `branch.split("/", 1)` and                       *)
(* MANAGED_BRANCH_RE.match, which anchors at the start only.              *)
(***************************************************************************)
SlashAt(b) == CHOOSE i \in 1..Len(b) : SubSeq(b, i, i) = "/"
                                      /\ \A j \in 1..(i - 1) : SubSeq(b, j, j) # "/"

RemoteOf(b) == SubSeq(b, 1, SlashAt(b) - 1)

BranchName(b) == SubSeq(b, SlashAt(b) + 1, Len(b))

IsManaged[b \in Branches] ==
    /\ RemoteOf(b) = Remote
    /\ IsPrefix("main", BranchName(b)) \/ IsPrefix("release-", BranchName(b))

ManagedBranches ==
    SelectSeq(SortedByRefname(Branches), LAMBDA a : IsManaged[a])

\* `branch.split("/")[1] == "main"`
ReleaseTypeOf[b \in Branches] ==
    LET rest == BranchName(b)
        cut  == {i \in 1..Len(rest) : SubSeq(rest, i, i) = "/"}
        part == IF cut = {} THEN rest ELSE SubSeq(rest, 1, Min(cut) - 1)
    IN  IF part = "main" THEN "minor" ELSE "micro"

(***************************************************************************)
(* get_tag_age: now minus the tag's creatordate.                          *)
(***************************************************************************)
TagAge(v) == day - commitDay[TagOf(v).commit]

\* The clone's tags after the job's `git fetch`.  A fetch does not
\* overwrite a tag the clone has (it would clobber it), nor delete one.
Fetched ==
    IF KeepClone
    THEN tags \cup {r \in remoteTags : \A t \in tags : t.name # r.name}
    ELSE remoteTags

-----------------------------------------------------------------------------
Init ==
    /\ history = InitHistory
    /\ commitDay = [c \in UNION {Range(InitHistory[b]) : b \in Branches} |-> 0]
    /\ tags = InitTags
    /\ remoteTags = InitTags
    /\ gitFailures = 0
    /\ day = 0
    /\ ranToday = {}
    /\ pc = "idle"
    /\ todo = {}
    /\ snapshot = {}
    /\ aborted = FALSE

(***************************************************************************)
(* The environment, while no command runs.  Maintainers stop on the last  *)
(* modelled day, so that every change is followed by a day of runs.       *)
(***************************************************************************)
NewCommit(b) ==
    /\ pc = "idle"
    /\ day < MaxDay
    /\ CommitCount < MaxCommits
    /\ LET c == CommitCount + 1
       IN  /\ history' = [history EXCEPT ![b] = Append(@, c)]
           /\ commitDay' = commitDay @@ (c :> day)
    /\ UNCHANGED <<tags, remoteTags, gitFailures, day, ranToday, pc, todo, snapshot, aborted>>

ManualTag(v, b) ==
    /\ pc = "idle"
    /\ day < MaxDay
    /\ \A t \in remoteTags : t.ver # v
    /\ remoteTags' = remoteTags \cup {TagRec(v, Tip(b), day, "manual", v)}
    /\ UNCHANGED <<history, commitDay, tags, gitFailures, day, ranToday, pc, todo,
                   snapshot, aborted>>

NextDay ==
    /\ pc = "idle"
    /\ day < MaxDay
    /\ day' = day + 1
    /\ ranToday' = {}
    /\ UNCHANGED <<history, commitDay, tags, remoteTags, gitFailures, pc, todo,
                   snapshot, aborted>>

(***************************************************************************)
(* The daily job runs each command once a day, in either order.          *)
(***************************************************************************)
StartCreate ==
    /\ pc = "idle"
    /\ "create" \notin ranToday
    /\ pc' = "create"
    /\ tags' = Fetched
    /\ todo' = DOMAIN ManagedBranches
    /\ ranToday' = ranToday \cup {"create"}
    /\ UNCHANGED <<history, commitDay, remoteTags, gitFailures, day, snapshot, aborted>>

\* The process exits: nothing of the run is kept but the tags it pushed.
EndRun ==
    /\ pc' = "idle"
    /\ todo' = {}
    /\ snapshot' = {}

\* _exec: a git command exits non-zero (CalledProcessError) or runs past
\* EXEC_TIMEOUT (TimeoutExpired).
GitFails ==
    /\ gitFailures < MaxGitFailures
    /\ day < MaxDay    \* bound: a later run is within the model
    /\ gitFailures' = gitFailures + 1

\* push_tag: `git push` sends the tag, or fails, or times out (whether or
\* not the remote got it); the exception ends the run.
PushTag(rec, item) ==
    \/ /\ remoteTags' = remoteTags \cup {rec}
       /\ todo' = todo \ {item}
       /\ UNCHANGED <<pc, snapshot, gitFailures>>
    \/ /\ GitFails
       /\ remoteTags' \in {remoteTags, remoteTags \cup {rec}}
       /\ EndRun

\* create_tag then push_tag.  `git tag` of a name the clone has fails; the
\* CalledProcessError ends the run.
CreateTag(v, c, by, src, item) ==
    IF v \in TagVersions
    THEN /\ EndRun
         /\ aborted' = TRUE
         /\ UNCHANGED <<tags, remoteTags, gitFailures>>
    ELSE /\ tags' = tags \cup {TagRec(v, c, day, by, src)}
         /\ PushTag(TagRec(v, c, day, by, src), item)
         /\ UNCHANGED aborted

SkipItem(item) ==
    /\ todo' = todo \ {item}
    /\ UNCHANGED <<tags, remoteTags, gitFailures, pc, snapshot, aborted>>

\* A git query of the loop body fails or times out; nothing catches it and
\* the run ends with the remaining items not reached.
QueryFails ==
    /\ GitFails
    /\ EndRun
    /\ UNCHANGED <<tags, remoteTags, aborted>>

\* One iteration of the loop over managed branches.
CreateStep ==
    /\ pc = "create"
    /\ \E i \in todo :
           /\ \A j \in todo : i <= j
           /\ LET b  == ManagedBranches[i]
                  vs == GetVersions(b)
              IN  \/ /\ LatestTaggedCommit(b) = Tip(b)
                     /\ SkipItem(i)
                  \/ /\ LatestTaggedCommit(b) # Tip(b)
                     /\ vs = {}
                     /\ SkipItem(i)
                  \/ /\ LatestTaggedCommit(b) # Tip(b)
                     /\ \E latest \in vs :
                           /\ \A w \in vs : ~VersionLess(latest, w)
                           /\ CreateTag(NextPrerelease(ReleaseTypeOf[b], latest),
                                        Tip(b), "create", latest, i)
                  \* get_tags, get_commit_id or get_versions of b fails (at the
                  \* first item: as get_managed_branches failing does).
                  \/ QueryFails
    /\ UNCHANGED <<history, commitDay, day, ranToday>>

\* Fault: the loop runs over every tag of the repository, not over the
\* versions read at the start.
StartPromoteAllTags ==
    /\ pc = "idle"
    /\ "promote" \notin ranToday
    /\ pc' = "promote"
    /\ tags' = Fetched
    /\ snapshot' = {t.ver : t \in MergedIn(Fetched, HeadBranch)}
    /\ todo' = {t.ver : t \in Fetched}
    /\ ranToday' = ranToday \cup {"promote"}
    /\ UNCHANGED <<history, commitDay, remoteTags, gitFailures, day, aborted>>

\* promote_releases reads `versions` (tags merged into HEAD) once.
StartPromote ==
    /\ pc = "idle"
    /\ "promote" \notin ranToday
    /\ pc' = "promote"
    /\ tags' = Fetched
    /\ snapshot' = {t.ver : t \in MergedIn(Fetched, HeadBranch)}
    /\ todo' = snapshot'
    /\ ranToday' = ranToday \cup {"promote"}
    /\ UNCHANGED <<history, commitDay, remoteTags, gitFailures, day, aborted>>

\* The checks of promote_releases that do not depend on the tag's age.
Promotable(v, vs) ==
    /\ IsPre(v)
    /\ ~NewerSameMinor(v, vs)
    /\ LET p == PromotedRelease(v, vs)
       IN  IsPre(p) \/ StableSameMinor(p.major, p.minor, vs)

\* Fault: a tag exactly as old as the interval is still too young.
IsTooYoungInclusive(v) == TagAge(v) <= PromotionInterval[v.pre[1]]

\* `tag_age < promotion_interval`
IsTooYoung(v) == TagAge(v) < PromotionInterval[v.pre[1]]

\* One iteration of the loop over `versions`.
PromoteStep ==
    /\ pc = "promote"
    /\ todo # {}
    /\ \E v \in todo :
           /\ \A w \in todo : ~VersionLess(v, w)
           /\ \/ /\ ~Promotable(v, snapshot)
                 /\ SkipItem(v)
              \/ /\ Promotable(v, snapshot)
                 /\ ~TagTimestampReadable
                 /\ SkipItem(v)
              \/ /\ Promotable(v, snapshot)
                 /\ TagTimestampReadable
                 /\ IsTooYoung(v)
                 /\ ~PromoteImmediately
                 /\ SkipItem(v)
              \/ /\ Promotable(v, snapshot)
                 /\ TagTimestampReadable
                 /\ ~IsTooYoung(v) \/ PromoteImmediately
                 /\ CreateTag(PromotedRelease(v, snapshot), TagOf(v).commit, "promote", v, v)
              \* `git tag -l --format` of get_tag_age fails or times out: the
              \* `except Exception` skips the version.
              \/ /\ Promotable(v, snapshot)
                 /\ TagTimestampReadable
                 /\ GitFails
                 /\ todo' = todo \ {v}
                 /\ UNCHANGED <<tags, remoteTags, pc, snapshot, aborted>>
              \* get_commit_id(from_tag) of promote_release fails: the run ends.
              \/ /\ Promotable(v, snapshot)
                 /\ TagTimestampReadable
                 /\ ~IsTooYoung(v) \/ PromoteImmediately
                 /\ QueryFails
    /\ UNCHANGED <<history, commitDay, day, ranToday>>

\* The loop ran out of items.
FinishRun ==
    /\ pc # "idle"
    /\ todo = {}
    /\ EndRun
    /\ UNCHANGED <<history, commitDay, tags, remoteTags, gitFailures, day, ranToday, aborted>>

Next ==
    \/ \E b \in Branches : NewCommit(b)
    \/ \E v \in ManualVersions, b \in Branches : ManualTag(v, b)
    \/ NextDay
    \/ StartCreate
    \/ CreateStep
    \/ StartPromote
    \/ PromoteStep
    \/ FinishRun

\* Days pass, the job runs both commands every day, and a run that has
\* started goes through its loop.
Fairness ==
    /\ WF_vars(NextDay)
    /\ WF_vars(StartCreate)
    /\ WF_vars(CreateStep)
    /\ WF_vars(StartPromote)
    /\ WF_vars(PromoteStep)
    /\ WF_vars(FinishRun)

Spec == Init /\ [][Next]_vars /\ Fairness

-----------------------------------------------------------------------------
(***************************************************************************)
(* Properties.                                                             *)
(***************************************************************************)
TagKinds == {"manual", "create", "promote"}

TypeOK ==
    /\ \A b \in Branches : history[b] \in Seq(Commits)
    /\ commitDay \in [DOMAIN commitDay -> 0..MaxDay]
    /\ DOMAIN commitDay \subseteq Commits
    /\ \A t \in tags : /\ t.ver \in VersionType /\ t.src \in VersionType
                      /\ t.commit \in DOMAIN commitDay /\ t.by \in TagKinds
                      /\ t.created \in 0..MaxDay
    /\ \A s, t \in tags : s.ver = t.ver => s = t
    /\ \A r \in remoteTags : r.ver \in VersionType /\ r.commit \in DOMAIN commitDay
    /\ gitFailures \in 0..MaxGitFailures
    /\ day \in 0..MaxDay
    /\ ranToday \subseteq {"create", "promote"}
    /\ pc \in {"idle", "create", "promote"}
    /\ snapshot \subseteq VersionType
    /\ pc = "create" => todo \subseteq DOMAIN ManagedBranches
    /\ pc = "promote" => todo \subseteq snapshot
    /\ aborted \in BOOLEAN

\* Every run of either command goes through all of its loop: no `git tag`
\* the script issues names a tag that exists already (create_tag raising
\* out of create_new_prereleases or promote_releases).
NoRunAborts == ~aborted

\* promote_releases only promotes to the start of the next level: the tag it
\* creates is the source's major.minor.micro at the next level, number 0
\* (or the final release), on the source's commit (get_promoted_release
\* together with the newer_release_available_same_minor check).
PromotionStartsNextLevel ==
    \A t \in tags : t.by = "promote" =>
        /\ SameTriple(t.ver, t.src)
        /\ IF NextLevel[t.src.pre[1]] = "stable"
           THEN ~IsPre(t.ver)
           ELSE t.ver.pre = <<NextLevel[t.src.pre[1]], 0>>
        /\ t.commit = TagOf(t.src).commit

\* A promote_releases run moves each major.minor line at most one step:
\* only the newest version of a line passes the
\* newer_release_available_same_minor check against the snapshot, so no
\* two promotions of one line happen on the same day, whatever the order
\* of the loop.
OnePromotionPerLinePerDay ==
    \A t, u \in tags :
        /\ t.by = "promote" /\ u.by = "promote"
        /\ t.created = u.created
        /\ SameMinor(t.ver, u.ver)
        => t = u


(***************************************************************************)
(* Liveness.  The model stops after MaxDay; an obligation only counts     *)
(* while a run of the command that meets it is still to come.             *)
(***************************************************************************)
RunAhead(cmd) == day < MaxDay \/ cmd \notin ranToday

\* v has been a tag for its level's interval, or the job promotes at once.
OldEnough(v) == TagAge(v) >= PromotionInterval[v.pre[1]] \/ PromoteImmediately

\* The newest version of line L in the version set vs is a prerelease of
\* level lvl that promote_releases, given vs, would promote now.
ReadyInLine(L, lvl, vs) ==
    LET inL == {v \in vs : <<v.major, v.minor>> = L}
    IN  /\ inL # {}
        /\ Promotable(MaxVersion(inL), vs)
        /\ MaxVersion(inL).pre[1] = lvl
        /\ OldEnough(MaxVersion(inL))

\* The versions of the remote's tags merged into HEAD.
RemoteHeadVersions == {t.ver : t \in MergedIn(remoteTags, HeadBranch)}

\* A prerelease on the remote, merged into HEAD, that is old enough, newest
\* in its line and allowed to move up does not stay so: a promote_releases
\* run moves its line past its level on the remote (get_tag_age, the
\* interval check, promote_release), also when a push of the promoted tag
\* failed or timed out and a later run has to make it again.
ReadyPrereleaseIsPromoted ==
    \A L \in MinorLines, lvl \in Levels :
        (ReadyInLine(L, lvl, RemoteHeadVersions) /\ RunAhead("promote"))
            ~> ~ReadyInLine(L, lvl, RemoteHeadVersions)

\* The same for every prerelease tag of the repository, on any branch, as
\* the promotion algorithm is described ("for every known prerelease").
KnownPrereleaseIsPromoted ==
    \A L \in MinorLines, lvl \in Levels :
        (ReadyInLine(L, lvl, TagVersions) /\ RunAhead("promote"))
            ~> ~ReadyInLine(L, lvl, TagVersions)

\* b is a managed branch with a version on the remote to bump from, and no
\* tag of the remote is on its tip.
UntaggedTip(b) ==
    /\ IsManaged[b]
    /\ MergedIn(remoteTags, b) # {}
    /\ \A t \in remoteTags : t.commit # Tip(b)

\* A new commit on a managed branch is eventually tagged on the remote by
\* create_new_prereleases (or a later commit comes on top of it), also when
\* a push of the tag failed or timed out: the next run makes it again.
ManagedTipEventuallyTagged ==
    \A b \in Branches :
        (UntaggedTip(b) /\ RunAhead("create")) ~> ~UntaggedTip(b)

(***************************************************************************)
(* Refinement: the remote's tags, seen line by line, behave as            *)
(* ReleaseLines says, whatever the pushes do.  A line's head is the       *)
(* newest version of that major.minor among the tags of the remote.       *)
(***************************************************************************)
RemoteLine(L) == {r.ver : r \in {r \in remoteTags : <<r.ver.major, r.ver.minor>> = L}}

RemoteLineHeads ==
    [L \in {L \in MinorLines : RemoteLine(L) # {}} |-> MaxVersion(RemoteLine(L))]

RL == INSTANCE ReleaseLines
          WITH Lines <- MinorLines, HandVersions <- ManualVersions, head <- RemoteLineHeads

\* Every change the script makes to the remote's tags moves one release line
\* one step (a new line at its first alpha, the next prerelease number, the
\* next level at 0, or the final release), or leaves every line's newest
\* version as it was: create_new_prereleases and promote_releases together
\* with push_tag and the job's fetch of the remote into the clone.
RemoteRefinesReleaseLines == RL!Spec

(***************************************************************************)
(* What the description of the tool says, checked against the code.       *)
(***************************************************************************)
\* create_new_prereleases tags a branch only when it has commits after its
\* most recent tag: never when the newest version merged into the branch
\* is already on the tip.
CreatesOnlyOnNewCommits ==
    [][pc = "create" /\ tags' # tags =>
         LET b == ManagedBranches[Min(todo)]
         IN  TagOf(MaxVersion(GetVersions(b))).commit # Tip(b)]_vars

\* create_new_prereleases tags commits of managed branches only, a managed
\* branch being one whose name is `main` or starts with `release-`
\* (get_managed_branches with MANAGED_BRANCH_RE).
PrereleasesOnManagedBranches ==
    \A t \in tags : t.by = "create" =>
        \E b \in Branches :
            /\ RemoteOf(b) = Remote
            /\ BranchName(b) = "main" \/ IsPrefix("release-", BranchName(b))
            /\ t.commit \in Range(history[b])

\* A prerelease is promoted only once it has been a tag for the interval of
\* its level ("now - tag creation timestamp"), unless the job passes
\* --promote-immediately.
PromotionWaitsSinceTagCreation ==
    \A t \in tags :
        t.by = "promote" /\ ~PromoteImmediately =>
            t.created - TagOf(t.src).created >= PromotionInterval[t.src.pre[1]]

=============================================================================
