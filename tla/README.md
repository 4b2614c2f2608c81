# TLA+ models of the release promotion tool

`src/hack/release_promotion/scripts/promote.py` keeps the release tags of the
repository moving. A scheduled job runs its two commands against a clone:

* `create_new_prereleases` walks the managed branches (`origin/main`,
  `origin/release-*`). It tags each branch tip that has new commits with the
  next prerelease: `main` bumps the minor, a release branch bumps the micro,
  and a prerelease is bumped to its next number.
* `promote_releases` walks the versions merged into HEAD, newest first. It
  promotes the newest prerelease of each major.minor line to the next level:
  alpha → beta → rc → final. It does this once the tag is 1/3/5 days old. A
  final release is promoted only if a maintainer already made one by hand
  for that line.

The only state is git: the branches' commits, the tags of the job's clone and
the tags of the remote. The job fetches the remote into the clone before each
run. The run reads the clone, creates each tag there with `git tag`, pushes it
with `git push`, and exits. Runs interact only through the tags they leave behind. The maintainers interact
with the runs by adding commits and hand-made tags.

## Inventory

| Part | Code | State it touches | Operations |
|---|---|---|---|
| Version model | `get_versions`, `get_latest_version`, `get_next_prerelease_version`, `get_promoted_release`, `version_to_tag`, `newer_release_available_same_minor`, `stable_release_available_same_minor`, `PRERELEASE_PROMOTION_INTERVAL` | none (pure) | parse, order, bump, promote, format |
| Promotion engine | `create_new_prereleases`, `promote_releases`, `promote_release` | tags | one step per branch, one step per version |
| Git plumbing | `_exec`, `get_tags`, `get_branches`, `get_managed_branches`, `get_commit_id`, `create_tag`, `push_tag`, `get_tag_timestamp`, `get_tag_age` | the clone, the remote | list, resolve, create, push |
| CLI | `main` | none | argument parsing, dispatch, printing |
| Environment | the scheduled job and the maintainers (not in the repository) | commits, hand-made tags, time | commit, tag by hand, next day, run a command |

What makes this code hard to test:

* **Order.**
  * `git tag -l` lists tags in refname order, so "v1.10.0" comes before "v1.9.0", and "v1.0.0" before every later version.
  * `git branch -r` is in refname order too.
  * `--merged` without a ref means HEAD.
* **Failures in a loop.** A `git tag` of an existing name raises, and nothing catches it, so the run ends with the remaining branches or versions never reached.
* **Any git command may fail.** `_exec` runs every git command with a 60 s timeout and `check=True`. Only `get_tag_age` is inside a `try`; any other failing query ends the run part way through its loop.
* **Two steps that are not one.** `create_tag` then `push_tag`: a push that fails or times out (60 s, `TimeoutExpired` not caught) leaves the tag in the clone only, or on the remote with the run ended anyway.
* **A prefix match.** `MANAGED_BRANCH_RE.match` anchors at the start only, so `main|release-.*` also accepts `maintenance`.
* **A snapshot.**
  * `promote_releases` reads the versions once and decides everything from that list, even after it has made new tags.
  * Tags on branches not merged into HEAD are invisible to it.
* **Time.**
  * The promotion interval is measured with `%(creatordate)`. For the tool's lightweight tags, that is the commit's date.
  * The way the date is read means it never parses (see the findings below).
* **Long sequences.** Bugs show up over several days of runs and maintainer actions: branches forking, hand-made final releases, new commits.

## Modules

* **`Versions.tla`** holds the pure version model.
  * A version is a record `[major, minor, micro, pre]`, where `pre` is `<<>>` (final) or `<<letter, number>>`.
  * `VersionLess` is packaging's order, computed from a sort key.
  * `NextPrerelease`, `PromotedRelease`, `NewerSameMinor` and `StableSameMinor` translate the functions of the same names.
  * `VersionToTag` builds the tag name as bytes. `RefnameLess` is git's byte-wise refname order, so that the order of `git tag -l` is computed, not assumed.
* **`ReleasePromotion.tla`** holds the repository and the two commands.
  * Variables:
    * `history`: each branch's commits.
    * `commitDay`: each commit's committer date.
    * `tags`: the clone's tags, each with its name, version, commit, creation day and origin.
    * `remoteTags`: the remote's tags.
    * `gitFailures`: git commands that failed or timed out so far, bounded by `MaxGitFailures`.
    * `day` and `ranToday`: the daily job.
    * `pc`, `todo` and `snapshot`: the running command's loop.
    * `aborted`: a run ended on a `git tag` of a name the clone has.
  * A command is an action `StartCreate`/`StartPromote`, followed by one `CreateStep`/`PromoteStep` per loop item, followed by `FinishRun`.
    * Each step is the whole loop body, with every `continue` as a disjunct.
    * `CreateTag` is `create_tag`. When the name exists in the clone it ends the run (`EndRun` with `aborted`), as the uncaught `CalledProcessError` does. Otherwise it is followed by `PushTag`.
    * `PushTag` is `push_tag`. The push succeeds and the loop goes on, or it fails or times out and the run ends, with the remote having the tag or not.
    * `GitFails` is `_exec` raising: a non-zero exit or `EXEC_TIMEOUT`. Each use counts against `MaxGitFailures`, and none happens on the last modelled day, so a later run is always within the model.
      * `QueryFails`: a query fails and the run ends. It is a disjunct of `CreateStep` (`get_tags`, `get_commit_id` or `get_versions` of the branch) and of the promoting case of `PromoteStep` (`get_commit_id(from_tag)` in `promote_release`).
      * A failing age read in `PromoteStep` is caught by `except Exception`, and the version is skipped.
      * A failure at the start of a command changes no more state than the alternatives already in the model. For `get_managed_branches`, that is a failure at the first branch. For `get_versions`, it is a run that skips every version.
    * `StartCreate` and `StartPromote` begin with the job's fetch, `Fetched`. With `KeepClone = FALSE` the clone is fresh and holds the remote's tags. With `KeepClone = TRUE` it is the previous run's clone: `git fetch` adds the remote's tags but neither deletes nor overwrites the clone's own.
    * `promote_releases` iterates its sorted list newest first. The model takes the newest remaining version of the snapshot at each step, which is the same order.
  * Environment:
    * `NewCommit(b)`, `ManualTag(v, b)` and `NextDay` act only while no command runs. A hand-made tag is pushed to the remote.
    * The job runs each command once a day, in either order.
* **`ReleaseLines.tla`** is the abstract specification of what the remote's tags promise, one major.minor line at a time.
  * `head` maps each line that has a version to its newest one.
  * `Advance(L)`: a line starts at x.y.0-alpha.0; a prerelease moves to its next number, to the next level at 0, or from rc to the final release; a final release moves to the next micro's alpha.0.
  * `HandRelease(L, v)`: a maintainer publishes a final release above the head.
  * `ReleasePromotion` refines it with `RL == INSTANCE ReleaseLines WITH head <- RemoteLineHeads`, the newest remote version of each line of `MinorLines`. The property `RemoteRefinesReleaseLines` is `RL!Spec`.
* **`MCReleasePromotion.tla`** holds the instances.
  * Repository: `origin/main` and `origin/release-1.0` forked at the v1.0.0 commit, each with one untagged commit. Maintainers may tag v1.1.0 by hand.
  * `ReleaseCutTags`: v1.0.0 on the release branch only.
  * `Shared*`: `release-1.1` cut before 1.1 had a final release.
  * `Prefix*`: `origin/maintenance` forked at v1.0.0 next to `origin/main`.
  * `BoundReached` lets the last day end without a deadlock.

`TagTimestampReadable` selects what `get_tag_age` does:
* `FALSE` is the code as written: it always raises.
* `TRUE` is the behaviour the unit tests assume, with the age taken from `%(creatordate)`, the commit date.

`PromoteImmediately` is the job's `--promote-immediately`.

## Runs

| Run | cfg | Expect | What it shows |
|---|---|---|---|
| push_faults | MCPushFaults | pass | `NoRunAborts`: with main and release-1.0 on separate lines, no run ever hits an existing tag name. `RemoteRefinesReleaseLines`: with a fresh clone before each run, over four days, and one git command that fails or times out (a push, a query, an age read), every change to the remote moves a line one step. |
| immediate | MCImmediate | pass | `TypeOK`, and `OnePromotionPerLinePerDay`: the snapshot and the superseded check move a line at most one level per run, whatever the loop order. HEAD is main, where no automatic final release is reachable. Main bumps the minor, and the hand-made v1.1.0 supersedes every 1.1.0 prerelease. |
| release_head | MCReleaseHead | pass | `PromotionStartsNextLevel`: HEAD is release-1.0, whose v1.0.1 prereleases climb alpha, beta and rc to an automatic v1.0.1 (v1.0.0 is the final release the refusal asks for). Every promotion, the final one included, is the source's next level at number 0 on the source's commit. |
| liveness | MCLiveness | pass | `ReadyPrereleaseIsPromoted`: if the age were readable, a ready prerelease (old enough, newest in its line, allowed) is on the remote promoted by a later run, even when one git command of a run (the push, the age read, or the commit lookup of `promote_release`) fails or times out. |
| as_coded | MCAsCoded | pass | `ManagedTipEventuallyTagged`: an untagged tip of a managed branch with a version on the remote is tagged on the remote by a later run. This holds with the code's failing `get_tag_age`, with main having no merged tag at first, and with one git command (a push or a query) that fails or times out. |
| retag | MCRetag | violation | `CreatesOnlyOnNewCommits` |
| shared_line | MCSharedLine | violation | `NoRunAborts` |
| as_coded_never_promotes | MCAsCodedNeverPromotes | violation | `ReadyPrereleaseIsPromoted` |
| release_invisible | MCReleaseInvisible | violation | `KnownPrereleaseIsPromoted` |
| age_from_commit | MCAgeFromCommit | violation | `PromotionWaitsSinceTagCreation` |
| kept_clone | MCKeptClone | violation | `RemoteRefinesReleaseLines` |
| prefix_branch | MCPrefixBranch | violation | `PrereleasesOnManagedBranches` |

Each property of a passing run has a mutant: an operator placed just before the mapped definition, marked "Fault:", which TLC finds violating the property. The mutants are:
* the release type ignored;
* a promotion that keeps the source's prerelease number instead of starting the next level at 0;
* the loop over all tags instead of the snapshot;
* the superseded check dropped, or made to compare micro only;
* `<=` instead of `<` in the age check;
* the branch resolved where the tag should be.

## Findings

1. **Retagging (code line 283).** `tags[0]` is the refname-first tag, usually the oldest, not the newest.
   * A tip that already carries the newest version (yesterday's prerelease, a hand-made v1.1.0) gets yet another prerelease on every run.
   * The spec says "most recent tag".
2. **Shared line (line 320).** When a release branch is cut before its line's first final release, main and the branch bump the same prerelease to the same name.
   * The second `git tag` raises, and the run stops every day before reaching the remaining branches.
3. **Nothing is ever promoted (lines 82, 101).**
   * `--format='%(creatordate:unix)'` reaches git with its quotes, so `int()` fails.
   * The naive `datetime.now()` minus an aware timestamp raises too.
   * `promote_releases` skips every version. The tests mock both.
4. **Release branches are not promoted (line 374).** `get_versions()` without a ref lists tags merged into HEAD only.
5. **Age counts from the commit (line 82).** `%(creatordate)` of a lightweight tag is the commit date, so a prerelease made for an old commit is promoted the next run.

6. **A failed push poisons a kept clone (line 323).** When the push fails, the tag stays in the clone.
   * If the job fetches into the same clone next time, `git fetch` keeps that tag, and later runs build on it.
   * In the counterexample, the push of v1.1.0-alpha.0 fails and the promotion run then pushes v1.1.0-beta.0. The remote has a beta without its alpha, and alpha.0 is never pushed again.
   * The description says the creation and the push of a tag are atomic as one unit.
   * With a fresh clone per run (push_faults), the next run makes the tag again and the refinement holds.
7. **Prefix match of managed branches (line 140).** `origin/maintenance` is managed and gets v1.0.1-alpha.0 on its own commit. The description says a branch is managed iff its name equals `main` or matches `release-*`.

## Bounds

* One major version, the lines 1.0–1.2, two branches, at most 4 commits (one new one) and 4 days. The exceptions are noted below.
* That is enough to reach every case of both loops:
  * a tip already tagged, and a branch with no version;
  * a new prerelease on each branch;
  * each skip of `promote_releases`;
  * a promotion at each level, including an automatic final release when HEAD is the release branch (release_head) with `--promote-immediately`;
  * the hand-made v1.1.0.
* Exceptions:
  * The liveness run stops after 3 days and 3 commits, with one push failure allowed. There, a beta whose interval ends on the last day exercises the boundary of the age check.
  * The violation runs use 3 commits, because their counterexamples need no new commit.
  * push_faults runs over 4 days (0 to 3): 838 k states in about 1.5 minutes. The substitution `head <- RemoteLineHeads` is recomputed at every reference, so two things keep the refinement cheap:
    * `ReleaseLines` names the `Unmoved` step first, so most steps are settled without evaluating `Next`.
    * `VersionLess` binds its sort keys as values.
  * That is enough for a failure on each of days 0 to 2, followed by a redo, and promotions at each level of the retagged tip.
  * A git command fails at most `MaxGitFailures` = 1 time, and never on the last modelled day. This way a run that can redo the work lies within the model, which the liveness properties need.
* Passing runs use 25 k to 2.2 M distinct states and finish in under 2 minutes.

## Fairness

* `NextDay`, `StartCreate`, `StartPromote` and `FinishRun` are weakly fair. Days pass, the job runs both commands every day, and a process that has finished its loop exits.
* `CreateStep` and `PromoteStep` are weakly fair too. A running process goes through its loop: each step is a blocking git call that returns or raises.
* The maintainers' actions have no fairness: they may never commit or tag again.
* A liveness obligation counts only while a run of the command that meets it is still to come within the bound (`RunAhead`).

## Not modelled

* **Argument parsing, logging and printing.** They change no state.
* **`--dry-run`.** A dry run changes no state, so it is the same as a run that skips every item.
* **Tags that do not parse as versions.** `get_versions` skips them, and the model's tags are all versions.
* **A fetch racing a maintainer.** The fetch is part of the run's first step. A tag pushed by hand between the fetch and the run's reads is seen by the next run.
* **`get_tag_age` called without `clone_dir`.** The job's working directory is outside the model. Under the default `--clone-dir` it is the clone, and the call is right. Otherwise the read fails, which is the `TagTimestampReadable = FALSE` case.
* **Concurrent invocations.** The spec assumes the orchestrator serialises them.
* **`fetch_remote`.** The tests call it, but it does not exist in the source.

## Further work

1. A second git failure in the refinement run. With two failures at MaxDay 2 the run takes 26 s; with MaxDay 3 it would need a cheaper line-head computation.
