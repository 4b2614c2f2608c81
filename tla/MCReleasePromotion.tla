------------------------- MODULE MCReleasePromotion -------------------------
(***************************************************************************)
(* Instances of ReleasePromotion for TLC.  The repository starts with     *)
(* origin/main and origin/release-1.0 forked at the commit of the v1.0.0  *)
(* release, each with one commit not tagged yet.                           *)
(***************************************************************************)
EXTENDS ReleasePromotion

MCBranches == {"origin/main", "origin/release-1.0"}

\* commit 1 is v1.0.0; main has commit 2 on top, release-1.0 commit 3.
MCInitHistory ==
    [b \in MCBranches |-> IF b = "origin/main" THEN <<1, 2>> ELSE <<1, 3>>]

MCInitTags ==
    {TagRec(Ver(1, 0, 0, Stable), 1, 0, "manual", Ver(1, 0, 0, Stable))}

\* v1.0.0 was cut on the release branch and never merged back: main has
\* no version to bump from until the 1.1 line gets its first tag.
ReleaseCutTags ==
    {TagRec(Ver(1, 0, 0, Stable), 3, 0, "manual", Ver(1, 0, 0, Stable))}

\* The maintainers' hand-made final release of the 1.1 line.
MCManualVersions == {Ver(1, 1, 0, Stable)}

MCMinorLines == {<<1, 0>>, <<1, 1>>, <<1, 2>>}

\* The line main's prereleases are in.
MainLine == {<<1, 1>>}

(***************************************************************************)
(* A release branch forked from main before the 1.1 line had a final      *)
(* release: both branches hold v1.1.0-alpha.0 (commit 2) as their newest  *)
(* version, and each has a new commit on top.                             *)
(***************************************************************************)
SharedBranches == {"origin/main", "origin/release-1.1"}

SharedInitHistory ==
    [b \in SharedBranches |-> IF b = "origin/main" THEN <<1, 2, 3>> ELSE <<1, 2, 4>>]

SharedInitTags ==
    {TagRec(Ver(1, 0, 0, Stable), 1, 0, "manual", Ver(1, 0, 0, Stable)),
     TagRec(Ver(1, 1, 0, <<"a", 0>>), 2, 0, "create", Ver(1, 0, 0, Stable))}

\* A branch whose name starts with "main" but is not main, forked at v1.0.0.
PrefixBranches == {"origin/main", "origin/maintenance"}

PrefixInitHistory ==
    [b \in PrefixBranches |-> IF b = "origin/main" THEN <<1, 2>> ELSE <<1, 3>>]

\* The last modelled day is over: the model stops here, not the job.
BoundReached ==
    /\ day = MaxDay
    /\ pc = "idle"
    /\ ranToday = {"create", "promote"}
    /\ UNCHANGED vars

MCNext == Next \/ BoundReached

MCSpec == Init /\ [][MCNext]_vars /\ Fairness

=============================================================================
