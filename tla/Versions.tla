------------------------------ MODULE Versions ------------------------------
(***************************************************************************)
(* The version model of hack/release_promotion/scripts/promote.py: the    *)
(* parts of packaging.version.Version the script relies on, the bump and  *)
(* promotion rules, the tag string format, and git's refname order of the *)
(* tag strings that `git tag -l` returns.                                  *)
(*                                                                         *)
(* A version is a record [major, minor, micro, pre].  pre is Stable (the   *)
(* script's `version.pre` is None) or <<letter, number>> with letter one  *)
(* of packaging's normalised prerelease letters "a", "b", "rc".            *)
(***************************************************************************)
EXTENDS Integers, SequencesExt, FiniteSets, TLC

Stable == <<>>

Levels == {"a", "b", "rc"}

Ver(ma, mi, mc, pre) == [major |-> ma, minor |-> mi, micro |-> mc, pre |-> pre]

IsPre(v) == v.pre # Stable

SameMinor(v, w) == v.major = w.major /\ v.minor = w.minor

SameTriple(v, w) == SameMinor(v, w) /\ v.micro = w.micro

\* The versions the script can hold: `version.pre` is None or (letter, n).
VersionType ==
    [major : Nat, minor : Nat, micro : Nat, pre : {Stable} \cup (Levels \X Nat)]

(***************************************************************************)
(* packaging's total order: (major, minor, micro) first, a final release  *)
(* above its prereleases, prereleases by (letter a < b < rc, number).     *)
(***************************************************************************)
LevelRank == [a |-> 0, b |-> 1, rc |-> 2]

SortKey(v) ==
    <<v.major, v.minor, v.micro,
      IF IsPre(v) THEN 0 ELSE 1,
      IF IsPre(v) THEN LevelRank[v.pre[1]] ELSE 0,
      IF IsPre(v) THEN v.pre[2] ELSE 0>>

\* Lexicographic order of two tuples of numbers of the same length.
TupleLess(s, t) ==
    \E i \in DOMAIN s : s[i] < t[i] /\ \A j \in 1..(i - 1) : s[j] = t[j]

\* The keys are bound once, as values, not recomputed at each index.
VersionLess(v, w) == \E s \in {SortKey(v)}, t \in {SortKey(w)} : TupleLess(s, t)

MaxVersion(S) == CHOOSE v \in S : \A w \in S : ~VersionLess(v, w)

(***************************************************************************)
(* get_next_prerelease_version, given the latest version of the ref.      *)
(***************************************************************************)
\* Fault: the release type is ignored and every stable base bumps minor.
NextPrereleaseMinorOnly(releaseType, lv) ==
    IF IsPre(lv) THEN [lv EXCEPT !.pre = <<lv.pre[1], lv.pre[2] + 1>>]
                 ELSE Ver(lv.major, lv.minor + 1, 0, <<"a", 0>>)

NextPrerelease(releaseType, lv) ==
    IF IsPre(lv)
    THEN [lv EXCEPT !.pre = <<lv.pre[1], lv.pre[2] + 1>>]
    ELSE CASE releaseType = "major" -> Ver(lv.major + 1, 0, 0, <<"a", 0>>)
           [] releaseType = "minor" -> Ver(lv.major, lv.minor + 1, 0, <<"a", 0>>)
           [] releaseType = "micro" -> Ver(lv.major, lv.minor, lv.micro + 1, <<"a", 0>>)

(***************************************************************************)
(* get_promoted_release.  The loop over all_versions (newest first)       *)
(* returns on the first version of the same major.minor.micro at the next *)
(* level, i.e. on the greatest one.                                        *)
(***************************************************************************)
NextLevel == [a |-> "b", b |-> "rc", rc |-> "stable"]

NextLevelExisting(release, all) ==
    LET nl == NextLevel[release.pre[1]]
    IN  {e \in all : /\ SameTriple(e, release)
                     /\ IF nl = "stable" THEN ~IsPre(e)
                                         ELSE IsPre(e) /\ e.pre[1] = nl}

\* Fault: the next level starts at the source's number, not at 0.
PromotedReleaseKeepNumber(release, all) ==
    LET nl    == NextLevel[release.pre[1]]
        found == NextLevelExisting(release, all)
        e     == MaxVersion(found)
    IN  IF found # {}
        THEN IF IsPre(e) THEN [e EXCEPT !.pre = <<e.pre[1], e.pre[2] + 1>>]
                         ELSE [e EXCEPT !.micro = e.micro + 1]
        ELSE IF nl = "stable" THEN [release EXCEPT !.pre = Stable]
                              ELSE [release EXCEPT !.pre = <<nl, release.pre[2]>>]

PromotedRelease(release, all) ==
    LET nl    == NextLevel[release.pre[1]]
        found == NextLevelExisting(release, all)
        e     == MaxVersion(found)
    IN  IF found # {}
        THEN IF IsPre(e) THEN [e EXCEPT !.pre = <<e.pre[1], e.pre[2] + 1>>]
                         ELSE [e EXCEPT !.micro = e.micro + 1]
        ELSE IF nl = "stable" THEN [release EXCEPT !.pre = Stable]
                              ELSE [release EXCEPT !.pre = <<nl, 0>>]

\* Fault: the superseded check is left out.
NewerSameMinorDropped(version, all) == FALSE

\* Fault: only a higher micro counts as newer, prerelease levels do not.
NewerSameMinorByTriple(version, all) ==
    \E o \in all : SameMinor(version, o) /\ version.micro < o.micro

\* newer_release_available_same_minor
NewerSameMinor(version, all) ==
    \E o \in all : SameMinor(version, o) /\ VersionLess(version, o)

\* stable_release_available_same_minor
StableSameMinor(major, minor, all) ==
    \E v \in all : ~IsPre(v) /\ v.major = major /\ v.minor = minor

\* PRERELEASE_PROMOTION_INTERVAL, in days
PromotionInterval == [a |-> 1, b |-> 3, rc |-> 5]

\* Every prerelease level has a successor and a nonzero interval, so the
\* `if not promotion_interval` refusal of promote_releases never applies.
ASSUME \A l \in Levels : /\ PromotionInterval[l] > 0
                         /\ NextLevel[l] \in Levels \cup {"stable"}
                         /\ LevelRank[l] \in Nat

(***************************************************************************)
(* git compares refnames byte by byte.  Bytes(s) is the ASCII codes of a  *)
(* name made of the characters of Alphabet (listed in ASCII order, from   *)
(* "-" = 45 on).                                                           *)
(***************************************************************************)
Alphabet == "-./0123456789"

ASCII(s, i) ==
    IF \E k \in 1..Len(Alphabet) : SubSeq(Alphabet, k, k) = SubSeq(s, i, i)
    THEN 44 + CHOOSE k \in 1..Len(Alphabet) : SubSeq(Alphabet, k, k) = SubSeq(s, i, i)
    ELSE 96 + CHOOSE k \in 1..26 : SubSeq("abcdefghijklmnopqrstuvwxyz", k, k) = SubSeq(s, i, i)

Bytes(s) == [i \in 1..Len(s) |-> ASCII(s, i)]

\* The decimal digits of n, as bytes.
RECURSIVE Decimal(_)
Decimal(n) == IF n < 10 THEN <<48 + n>> ELSE Decimal(n \div 10) \o <<48 + (n % 10)>>

(***************************************************************************)
(* version_to_tag: "v<major>.<minor>.<micro>[-<alpha|beta|rc>.<number>]", *)
(* as the bytes of the tag name.                                           *)
(***************************************************************************)
PrereleaseName == [a |-> Bytes("alpha"), b |-> Bytes("beta"), rc |-> Bytes("rc")]

Dot == Bytes(".")

Dash == Bytes("-")

TagPrefix == Bytes("v")

\* Each level has a long name in the tag format.
ASSUME \A l \in Levels : Len(PrereleaseName[l]) > 0

VersionToTag(v) ==
    TagPrefix \o Decimal(v.major) \o Dot \o Decimal(v.minor) \o Dot \o Decimal(v.micro)
        \o (IF IsPre(v) THEN Dash \o PrereleaseName[v.pre[1]] \o Dot \o Decimal(v.pre[2])
                        ELSE <<>>)

\* git's refname order: byte-wise, a proper prefix first.
RefnameLess(s, t) ==
    \/ IsStrictPrefix(s, t)
    \/ \E i \in 1..Len(s) \cap 1..Len(t) :
           s[i] < t[i] /\ \A j \in 1..(i - 1) : s[j] = t[j]

\* The names of the finite set S in refname order, as `git branch -r` lists
\* them.  (SetToSortSeq enumerates all functions into S: too slow for TLC.)
SortedByRefname(S) ==
    LET RECURSIVE Sorted(_)
        Sorted(T) ==
            IF T = {} THEN <<>>
            ELSE LET m == CHOOSE x \in T :
                              \A y \in T : ~RefnameLess(Bytes(y), Bytes(x))
                 IN  <<m>> \o Sorted(T \ {m})
    IN  Sorted(S)

=============================================================================
